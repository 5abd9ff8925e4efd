----------------------------- MODULE MCGenerator -----------------------------
(***************************************************************************)
(* A Go backend, one built on top of it and one for another language, up   *)
(* to three targets and two plugins in a command, and three commands in a  *)
(* process.                                                                *)
(***************************************************************************)
EXTENDS Generator

MCName == [b \in Backends |->
  CASE b = "GoBackend" -> "go"
    [] b = "FastGoBackend" -> "fastgo" [] OTHER -> "typescript"]
MCLang == [b \in Backends |->
  CASE b = "GoBackend" -> "Go"
    [] b = "FastGoBackend" -> "FastGo" [] OTHER -> "TypeScript"]

To(lang, opts) == [lang |-> lang, opts |-> opts]
Command(ts, ps, sdk) == [targets |-> ts, plugins |-> ps, sdk |-> sdk]

Go     == To("go", {})
Stream == To("go", {"thrift_streaming"})
Trim   == To("go", {"trim_idl", "thrift_streaming"})
Bad    == To("go", {"bad"})
Fast   == To("fastgo", {})
Ts     == To("typescript", {})
NoSuch == To("cobol", {})

Foo == [name |-> "foo", opts |-> {"a"}]
Sdk == [name |-> "sdk", opts |-> {"a"}]
Kit == [name |-> "kit", opts |-> {}]
Bar == [name |-> "bar", opts |-> {"b"}]

MCCommands ==
  { Command(<<Go>>, <<Foo, Bar>>, <<>>),
    Command(<<Ts>>, <<Bar, Foo>>, <<Sdk>>),
    Command(<<Go, Ts>>, <<>>, <<Sdk, Kit>>),
    Command(<<Ts, Go>>, <<Foo>>, <<>>),
    Command(<<Stream, Ts>>, <<>>, <<Sdk>>),
    Command(<<Go, Stream>>, <<>>, <<>>),
    Command(<<Trim, Fast>>, <<Foo, Foo>>, <<>>),
    Command(<<Trim, Stream, Ts>>, <<>>, <<Kit>>),
    Command(<<Bad, Ts>>, <<Foo>>, <<>>),
    Command(<<Fast, NoSuch>>, <<>>, <<Sdk>>) }
=============================================================================
