------------------------------- MODULE Generator -----------------------------
(***************************************************************************)
(* generator/generator.go and sdk/invoke.go: InvokeThriftgo parses an IDL  *)
(* and then, for every target language of the command, has the generator   *)
(* Generate a response and Persist it.  The generator is a package         *)
(* variable, so its backends, its plugin list and its post-processor       *)
(* outlive the targets of a command and, in SDK mode, the commands.        *)
(* What becomes of a response in Persist is module PostProcess, and how    *)
(* its items become files is module FileManager.                           *)
(***************************************************************************)
EXTENDS Integers, Sequences

CONSTANTS
  Backends,    \* backend objects
  None,        \* no backend
  Name,        \* Name[b], by which a command asks for a backend
  Lang,        \* Lang[b], the language as shown to the user
  GoFamily,    \* GoBackend, and FastGoBackend that embeds one
  Layered,     \* FastGoBackend: works on after its GoBackend has finished
  Commands,    \* command lines: targets, plugins and SDK plugins
  MaxCalls     \* bound on the commands of a process

\* A target language, and a plugin, with their options.
LangSpec == [lang : STRING, opts : SUBSET STRING]
Desc     == [name : STRING, opts : SUBSET STRING]

ASSUME GeneratorAssumption ==
  /\ None \notin Backends /\ Layered \subseteq GoFamily /\ GoFamily \subseteq Backends
  /\ Name \in [Backends -> STRING] /\ Lang \in [Backends -> STRING]
  /\ MaxCalls \in Nat
  /\ \A c \in Commands :
       /\ c = [targets |-> c.targets, plugins |-> c.plugins, sdk |-> c.sdk]
       /\ c.targets # <<>>
       /\ c.targets \in Seq(LangSpec)
       /\ c.plugins \in Seq(Desc)
       /\ c.sdk \in Seq(Desc)

\* The parts of the AST that a backend may take away.
Idl == {"unused types", "streaming functions"}

VARIABLES
  backends,  \* Generator.backends
  plugins,   \* Generator.plugins: the names
  pp,        \* Generator.pp
  broken,    \* the backends whose err is not nil
  calls,     \* commands so far
  command,   \* the current command
  phase,     \* how far the command is
  turn,      \* the target that is being generated
  ast,       \* what is left of the parsed IDL
  pos,       \* the SDK plugin or plugin that runs next
  items,     \* what was fed to the file manager: who, with which options,
             \* from which AST
  outputs,   \* history: what was persisted for each target of the command
  result     \* what the last command returned

generator == <<backends, plugins, pp, broken>>
invocation == <<calls, command, turn, ast>>
vars == <<backends, plugins, pp, broken, calls, command, phase, turn, ast,
          pos, items, outputs, result>>

Target == command.targets[turn]

\* The first backend that was registered under the name.
GetBackend(bs, name) ==
  IF \E i \in DOMAIN bs : Name[bs[i]] = name
  THEN bs[CHOOSE i \in DOMAIN bs :
            /\ Name[bs[i]] = name
            /\ \A k \in DOMAIN bs : Name[bs[k]] = name => i <= k]
  ELSE None

Be == GetBackend(backends, Target.lang)

-----------------------------------------------------------------------------

Init ==
  /\ backends = <<>> /\ plugins = <<>> /\ pp = None /\ broken = {}
  /\ calls = 0 /\ command = [targets |-> <<>>, plugins |-> <<>>, sdk |-> <<>>]
  /\ phase = "idle" /\ turn = 0 /\ ast = {} /\ pos = 0
  /\ items = <<>> /\ outputs = <<>> /\ result = "none"

\* Backends are registered before the first command.  The language of the new
\* backend is compared with the names of the others.
RegisterBackend(b) ==
  /\ phase = "idle" /\ calls = 0
  /\ \A i \in DOMAIN backends : backends[i] # b
  /\ GetBackend(backends, Lang[b]) = None
  /\ backends' = Append(backends, b)
  /\ UNCHANGED <<plugins, pp, broken, invocation, phase, pos, items, outputs,
                 result>>

\* The AST is new in every command.  A command that fails before it reaches its
\* first target (arguments, parser, checker, resolver) has no effect here.
InvokeThriftgo(c) ==
  /\ phase = "idle" /\ calls < MaxCalls
  /\ calls' = calls + 1 /\ command' = c /\ turn' = 1
  /\ phase' = "target" /\ ast' = Idl
  /\ outputs' = <<>> /\ result' = "none"
  /\ UNCHANGED <<generator, pos, items>>

\* Generate returns a response that is an error, Persist returns that error
\* and the command ends with it.
Fail ==
  phase' = "idle" /\ result' = "error" /\ UNCHANGED turn

\* g.files = NewFileManager(log)
NewFileManager == <<>>

\* All backends of thriftgo are post-processors too.
PostProcessor == Be

StartTarget ==
  /\ phase = "target"
  /\ items' = NewFileManager
  /\ IF Be = None
     THEN Fail /\ UNCHANGED pp
     ELSE phase' = "prepare" /\ pp' = PostProcessor /\ UNCHANGED <<turn, result>>
  /\ UNCHANGED <<backends, plugins, broken, calls, command, ast, pos, outputs>>

Names(ds) == [i \in DOMAIN ds |-> ds[i].name]

\* The plugins found so far are added to those that are there already.
Prepared(k) == plugins \o SubSeq(Names(command.plugins), 1, k)

\* Looking the plugins up stops at the first that cannot be found.
PreparePlugins ==
  /\ phase = "prepare"
  /\ \E k \in 0..Len(command.plugins) :
       /\ plugins' = Prepared(k)
       /\ IF k < Len(command.plugins)
          THEN Fail
          ELSE phase' = "backend" /\ UNCHANGED <<turn, result>>
  /\ UNCHANGED <<backends, pp, broken, calls, command, ast, pos, items,
                 outputs>>

\* Mutant: every backend takes the streaming functions away.
LeftAlike(b, opts) ==
  {part \in ast : /\ part = "unused types" => "trim_idl" \notin opts
                  /\ part = "streaming functions" => "thrift_streaming" \in opts}

\* A Go backend trims the AST when asked to, and drops the streaming functions
\* of the main file unless it is asked to keep them.
Left(b, opts) ==
  IF b \in GoFamily
  THEN {part \in ast :
          /\ part = "unused types" => "trim_idl" \notin opts
          /\ part = "streaming functions" => "thrift_streaming" \in opts}
  ELSE ast

\* The backend has failed before, or it refuses an option, or it fails in the
\* trimmer, in a scope or in a template.  It never forgets an error, but for
\* what FastGoBackend does after its GoBackend.
BackendFails ==
  /\ phase = "backend"
  /\ Fail
  /\ \/ broken' = broken \cup {Be}
     \/ Be \in Layered \ broken /\ "bad" \notin Target.opts /\ UNCHANGED broken
  /\ UNCHANGED <<backends, plugins, pp, calls, command, ast, pos, items,
                 outputs>>

BackendGenerates ==
  /\ phase = "backend"
  /\ Be \notin broken /\ "bad" \notin Target.opts
  /\ ast' = Left(Be, Target.opts)
  /\ items' = Append(items, [by |-> Name[Be], opts |-> Target.opts, saw |-> ast'])
  /\ phase' = "sdk" /\ pos' = 1
  /\ UNCHANGED <<generator, calls, command, turn, outputs, result>>

\* One SDK plugin, which brings its own parameters.
RunSdkPlugin ==
  /\ phase = "sdk" /\ pos <= Len(command.sdk)
  /\ \/ /\ items' = Append(items, [by |-> command.sdk[pos].name,
                                   opts |-> command.sdk[pos].opts, saw |-> ast])
        /\ pos' = pos + 1
        /\ UNCHANGED <<phase, turn, result>>
     \/ Fail /\ UNCHANGED <<items, pos>>
  /\ UNCHANGED <<generator, calls, command, ast, outputs>>

EndSdkPlugins ==
  /\ phase = "sdk" /\ pos > Len(command.sdk)
  /\ phase' = "plugins" /\ pos' = 1
  /\ UNCHANGED <<generator, invocation, items, outputs, result>>

\* Mutant: the options of the first plugin go to all of them.
FirstOptions(i) == command.plugins[1].opts

\* out.UsedPlugins[i].Options, where i counts the generator's plugins.
PluginOptions(i) == command.plugins[i].opts

\* One plugin of the list runs with the options of the plugin description at
\* the same place; the plugin or the feeding of its response may fail.
RunPlugin ==
  /\ phase = "plugins" /\ pos <= Len(plugins) /\ pos <= Len(command.plugins)
  /\ \/ /\ items' = Append(items, [by |-> plugins[pos],
                                   opts |-> PluginOptions(pos), saw |-> ast])
        /\ pos' = pos + 1
        /\ UNCHANGED <<phase, turn, result>>
     \/ Fail /\ UNCHANGED <<items, pos>>
  /\ UNCHANGED <<generator, calls, command, ast, outputs>>

\* There is no description for the plugin: index out of range.
PluginPanics ==
  /\ phase = "plugins" /\ pos <= Len(plugins) /\ pos > Len(command.plugins)
  /\ phase' = "idle" /\ result' = "panic"
  /\ UNCHANGED <<generator, invocation, pos, items, outputs>>

\* BuildResponse, and a Persist that succeeds.
PersistTarget ==
  /\ phase = "plugins" /\ pos > Len(plugins)
  /\ outputs' = Append(outputs, [items |-> items, pp |-> pp])
  /\ IF turn < Len(command.targets)
     THEN phase' = "target" /\ turn' = turn + 1 /\ UNCHANGED result
     ELSE phase' = "idle" /\ result' = "nil" /\ UNCHANGED turn
  /\ UNCHANGED <<generator, calls, command, ast, pos, items>>

PersistFails ==
  /\ phase = "plugins" /\ pos > Len(plugins)
  /\ Fail
  /\ UNCHANGED <<generator, calls, command, ast, pos, items, outputs>>

Step ==
  \/ StartTarget \/ PreparePlugins \/ BackendFails \/ BackendGenerates
  \/ RunSdkPlugin \/ EndSdkPlugins \/ RunPlugin \/ PluginPanics
  \/ PersistTarget \/ PersistFails

Next ==
  \/ \E b \in Backends : RegisterBackend(b)
  \/ \E c \in Commands : InvokeThriftgo(c)
  \/ Step

Spec == Init /\ [][Next]_vars

-----------------------------------------------------------------------------
(***************************************************************************)
(* Properties.                                                             *)
(***************************************************************************)

Contribution == [by : STRING, opts : SUBSET STRING, saw : SUBSET Idl]
Output == [items : Seq(Contribution), pp : Backends]

\* The types, and where a command is: a target is in work until the end, and
\* inside the loops "pos" does not run past what there is.
TypeOK ==
  /\ backends \in Seq(Backends) /\ plugins \in Seq(STRING)
  /\ pp \in Backends \cup {None} /\ broken \subseteq Backends
  /\ calls \in 0..MaxCalls
  /\ calls > 0 => command \in Commands
  /\ phase \in {"idle", "target", "prepare", "backend", "sdk", "plugins"}
  /\ phase # "idle" => turn \in DOMAIN command.targets /\ calls > 0
  /\ ast \subseteq Idl
  /\ phase = "sdk" => pos \in 1..(Len(command.sdk) + 1)
  /\ phase = "plugins" => pos \in 1..(Len(plugins) + 1)
  /\ items \in Seq(Contribution)
  /\ outputs \in Seq(Output)
  /\ result \in {"none", "nil", "error", "panic"}

\* What target k of the command asks for: its backend, then the SDK plugins,
\* then the plugins, each with its own options.
AskedFor(k) ==
  <<[by |-> command.targets[k].lang, opts |-> command.targets[k].opts]>>
    \o [i \in DOMAIN command.sdk |->
          [by |-> command.sdk[i].name, opts |-> command.sdk[i].opts]]
    \o [i \in DOMAIN command.plugins |->
          [by |-> command.plugins[i].name, opts |-> command.plugins[i].opts]]

Made(its) ==
  [i \in DOMAIN its |-> [by |-> its[i].by, opts |-> its[i].opts]]

\* What is persisted for a target was made by exactly those that were asked to,
\* once, in order and with their own options, and post-processed by the backend
\* of the language: whatever earlier targets and commands have left behind in
\* the generator, it never reaches the disk.
OutputsAsAsked ==
  \A k \in DOMAIN outputs :
    /\ Made(outputs[k].items) = AskedFor(k)
    /\ Name[outputs[k].pp] = command.targets[k].lang

\* A command is reported as done when every target was persisted, and otherwise
\* the targets before the failure were, and none behind it.
ResultIsRight ==
  /\ result = "nil" => Len(outputs) = Len(command.targets)
  /\ result \in {"error", "panic"} => Len(outputs) = turn - 1 /\ turn <= Len(command.targets)

\* The first target that a process generates never panics, whatever plugins it
\* has and whatever fails: the plugin list and the descriptions agree until a
\* target has left its plugins behind.
FirstTargetIsSafe == result = "panic" => calls > 1 \/ turn > 1

\* What the targets 1..k of the command take out of the AST.
Taken(k) ==
  {part \in Idl : \E j \in 1..k :
     /\ GetBackend(backends, command.targets[j].lang) \in GoFamily
     /\ \/ part = "unused types" /\ "trim_idl" \in command.targets[j].opts
        \/ part = "streaming functions"
           /\ "thrift_streaming" \notin command.targets[j].opts}

\* A backend and all plugins of its target work on one and the same AST, which
\* lacks only what the Go targets of this command, up to this one, have taken.
\* Nothing of it is carried to the next command.
SawWhatIsLeft ==
  \A k \in DOMAIN outputs : \A i \in DOMAIN outputs[k].items :
    outputs[k].items[i].saw = Idl \ Taken(k)

-----------------------------------------------------------------------------
(***************************************************************************)
(* What comments and messages of the repository say, and the code does not *)
(* do.                                                                     *)
(***************************************************************************)

=============================================================================
