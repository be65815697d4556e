---------------------------- MODULE MetaRegister ----------------------------
(***************************************************************************)
(* What the boot metadata promises its users (the updater, the bootloader):*)
(* one register holding the logical OtaMetaState.  A write either takes    *)
(* effect as a whole or not at all, a write that answered "ok" took        *)
(* effect, and a power cut in the middle of a write leaves the old or the  *)
(* new state and nothing else.                                             *)
(***************************************************************************)
CONSTANTS States,     \* the logical contents, OtaMetaState
          Default,    \* what a blank store reads as
          NoWrite     \* no write under way

VARIABLES stored,     \* what a read returns
          pending,    \* the state being written, NoWrite between writes
          result      \* how the last write ended

vars == <<stored, pending, result>>

Init == stored = Default /\ pending = NoWrite /\ result = "none"

Begin(s) == /\ pending = NoWrite
            /\ pending' = s
            /\ result' = "busy"
            /\ UNCHANGED stored

Commit == /\ pending # NoWrite
          /\ stored' = pending
          /\ UNCHANGED <<pending, result>>

EndOk == /\ pending # NoWrite /\ stored = pending
         /\ pending' = NoWrite
         /\ result' = "ok"
         /\ UNCHANGED stored

\* The caller is told "no" although the state may have been stored, or the
\* power went.
EndBad(r) == /\ pending' = NoWrite
             /\ result' = r
             /\ UNCHANGED stored

Next == \/ \E s \in States : Begin(s)
        \/ Commit
        \/ EndOk
        \/ \E r \in {"failed", "cut"} : EndBad(r)

Spec == Init /\ [][Next]_vars
=============================================================================
