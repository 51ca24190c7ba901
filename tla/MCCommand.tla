----------------------------- MODULE MCCommand -----------------------------
(* Instances of Command for TLC: three commands, a composite in another.   *)
EXTENDS CommandCopies, TLC

CONSTANTS a, b, c, top, sub

\* Commands whose effects commute, and a pair that does not.
Additive == a :> "Inc" @@ b :> "Inc" @@ c :> "Dec"
Mixed    == a :> "Double" @@ b :> "Inc" @@ c :> "Dec"
============================================================================
