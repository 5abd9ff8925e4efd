------------------------------ MODULE MCImports ------------------------------
(***************************************************************************)
(* Small instances of Imports: three standard libraries and five IDLs.     *)
(* Two IDLs have the same package name, and one has that of a library.     *)
(***************************************************************************)
EXTENDS Imports, SequencesExt

CONSTANTS base, common, other, sql, deep

MCStd == {<<"sql">>, <<"thrift">>, <<"unknown">>}
MCStdPath == [lib \in MCStd |-> <<"lib", lib[1]>>]
MCIdls == {base, common, other, sql, deep}
MCPkg == [idl \in MCIdls |-> CASE idl = base -> <<"base">>
                               [] idl \in {common, other} -> <<"common">>
                               [] idl = sql -> <<"sql">>
                               [] idl = deep -> <<"deep">>]
MCRefName == [idl \in MCIdls |-> CASE idl = base   -> <<"base">>
                                   [] idl = common -> <<"common">>
                                   [] idl = other  -> <<"other">>
                                   [] idl = sql    -> <<"sql">>
                                   [] idl = deep   -> <<"deep">>]
MCPath == [idl \in MCIdls |-> <<"gen", idl>>]

\* One library replaced, or none.
OneReplaced == {EmptyMap, Put(EmptyMap, <<"lib", "unknown">>, <<"my", "lib">>)}

\* The root includes three of the IDLs; the others come with an included one.
Direct == {base, common, other}

Document(includes, expanded, types, values, nested) ==
  [includes |-> includes, expanded |-> expanded, types |-> types,
   values |-> values, nested |-> nested]

\* What a document includes is what it uses.
AllDocuments ==
  {Document(includes, expanded, types, values, nested) :
     includes \in SetToSeqs(Direct), expanded \in SUBSET {base},
     types \in SUBSET {base, common, other, sql}, values \in SUBSET {base, common},
     nested \in SUBSET {deep}}

IncludesWhatItUses(d) ==
  /\ Direct \subseteq d.expanded \cup d.types \cup d.values
  /\ d.nested # {} => d.expanded # {}

\* An expanded package is used by types as well, or not at all.
PlainDocuments ==
  {d \in AllDocuments : /\ IncludesWhatItUses(d)
                        /\ d.expanded \cap d.values \subseteq d.types}

=============================================================================
