-------------------------------- MODULE Persist ------------------------------
(***************************************************************************)
(* What Generator.Persist promises its caller.  The files of a response    *)
(* are collected, then each of them is written or fails, in any order.     *)
(* Success is reported only when every file was written, failure only when *)
(* a file failed or before anything was written, and once Persist has      *)
(* returned nothing is written any more.                                   *)
(***************************************************************************)
EXTENDS Integers

CONSTANT Jobs        \* the files a response may have

VARIABLES wanted,    \* files that are to be written
          written,   \* files that are on disk
          failed,    \* files that could not be processed or written
          result     \* "none" until Persist returns "nil" or "error"

persistVars == <<wanted, written, failed, result>>

PersistInit ==
  /\ wanted = {} /\ written = {} /\ failed = {} /\ result = "none"

Want ==
  /\ result = "none" /\ written = {} /\ failed = {}
  /\ \E j \in Jobs \ wanted : wanted' = wanted \cup {j}
  /\ UNCHANGED <<written, failed, result>>

WriteOne ==
  /\ result = "none"
  /\ \E j \in wanted \ (written \cup failed) : written' = written \cup {j}
  /\ UNCHANGED <<wanted, failed, result>>

FailOne ==
  /\ result = "none"
  /\ \E j \in wanted \ (written \cup failed) : failed' = failed \cup {j}
  /\ UNCHANGED <<wanted, written, result>>

ReturnNil ==
  /\ result = "none" /\ written = wanted
  /\ result' = "nil"
  /\ UNCHANGED <<wanted, written, failed>>

ReturnError ==
  /\ result = "none" /\ (failed # {} \/ written = {})
  /\ result' = "error"
  /\ UNCHANGED <<wanted, written, failed>>

PersistNext == Want \/ WriteOne \/ FailOne \/ ReturnNil \/ ReturnError

PersistSpec == PersistInit /\ [][PersistNext]_persistVars
=============================================================================
