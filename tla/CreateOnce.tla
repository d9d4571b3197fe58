----------------------------- MODULE CreateOnce -----------------------------
(***************************************************************************)
(* What "repeated requests do not create twice" promises: of each source   *)
(* there is at most one standing target, a target is created only when     *)
(* none stands, and only its end makes room for another.                   *)
(*                                                                         *)
(* SourceDocument implements this for the sources it protects.             *)
(***************************************************************************)
CONSTANTS Sources, Targets

VARIABLE standing   \* the targets of each source that are not cancelled

OnceInit == standing = [s \in Sources |-> {}]

Create(s, t) ==
    /\ standing[s] = {}
    /\ standing' = [standing EXCEPT ![s] = {t}]

End(s) ==
    /\ standing[s] # {}
    /\ standing' = [standing EXCEPT ![s] = {}]

OnceNext == \E s \in Sources : End(s) \/ \E t \in Targets : Create(s, t)

OnceSpec == OnceInit /\ [][OnceNext]_standing
=============================================================================
