------------------------------ MODULE StopWatch -----------------------------
(***************************************************************************)
(* StopWatch, and its text form.  The steady clock is a number that grows; *)
(* it is not 0 when the program starts.                                    *)
(***************************************************************************)
EXTENDS Integers, Sequences

CONSTANTS Boot,      \* the clock at the start
          MaxClock,  \* bound: the clock
          UNITS      \* H, M, S, MS, MICRO_SECOND and 1, each a multiple of the next

ASSUME WatchAssumption ==
    /\ Boot \in Nat
    /\ UNITS \in Seq(Nat \ {0}) /\ UNITS # <<>> /\ UNITS[Len(UNITS)] = 1
    /\ \A k \in 1..Len(UNITS) - 1 : UNITS[k] % UNITS[k + 1] = 0

VARIABLES clock, mstart, mlast, mmark, mrunning,
          began,     \* history: when it was last started or reset, or never
          ended,     \* history: when it was last stopped after that
          marked     \* history: when mark was last called, or never

watchVars == <<clock, mstart, mlast, mmark, mrunning, began, ended, marked>>

ZERO  == 0
Never == -1

WatchInit ==
    /\ clock = Boot
    /\ mlast = ZERO /\ mmark = ZERO
    /\ mrunning \in BOOLEAN
    /\ mstart = IF mrunning THEN Boot ELSE ZERO
    /\ began = IF mrunning THEN Boot ELSE Never
    /\ ended = Never /\ marked = Never

\* Mutant: a stopped watch that is started again is not set to run.
Runs_AsBefore == mrunning

\* start and reset set mrunning.
Runs == TRUE

start ==
    /\ mstart' = clock /\ mrunning' = Runs
    /\ began' = clock /\ ended' = Never
    /\ UNCHANGED <<clock, mlast, mmark, marked>>
reset ==
    /\ mstart' = clock /\ mlast' = ZERO /\ mrunning' = Runs
    /\ began' = clock /\ ended' = Never
    /\ UNCHANGED <<clock, mmark, marked>>
stop ==
    /\ mlast' = clock /\ mrunning' = FALSE
    /\ ended' = clock
    /\ UNCHANGED <<clock, mstart, mmark, began, marked>>
mark ==
    /\ mmark' = clock /\ marked' = clock
    /\ UNCHANGED <<clock, mstart, mlast, mrunning, began, ended>>
tick ==
    /\ clock < MaxClock
    /\ clock' = clock + 1
    /\ UNCHANGED <<mstart, mlast, mmark, mrunning, began, ended, marked>>

WatchNext == start \/ reset \/ stop \/ mark \/ tick

WatchSpec == WatchInit /\ [][WatchNext]_watchVars

elapsed == IF mrunning THEN clock - mstart ELSE mlast - mstart

elapsed_since_mark == IF mrunning THEN clock - mmark ELSE mlast - mmark

\* The field of one unit, after those of the larger ones.
Field(t, k) == (IF k = 1 THEN t ELSE t % UNITS[k - 1]) \div UNITS[k]

\* elapsed_formatted: its fields as numbers.
elapsed_formatted(t) == [k \in DOMAIN UNITS |-> Field(t, k)]

-----------------------------------------------------------------------------
\* elapsed is the time from the last start or reset to the stop that came
\* after it, or to now: never negative, and not touched by earlier stops.
\* A watch that was never started and is stopped shows the clock itself.
ElapsedExact ==
    CASE began = Never -> elapsed = IF ended = Never THEN 0 ELSE ended
      [] began # Never /\ ended # Never -> elapsed = ended - began
      [] OTHER -> elapsed = clock - began

\* The time since the mark is negative only if the watch was marked after
\* it was stopped, or never stopped and not running.
SinceMarkExact ==
    elapsed_since_mark < 0 => ~mrunning /\ marked > ended

\* The time that the first k fields of f say.
Told(f) ==
    LET told[k \in 0..Len(UNITS)] ==
            IF k = 0 THEN 0 ELSE told[k - 1] + f[k] * UNITS[k]
    IN  told

\* The fields of the text say the time, each less than the next unit holds.
FormattedExact ==
    LET f == elapsed_formatted(clock) IN
    /\ \A k \in DOMAIN UNITS : k > 1 => f[k] * UNITS[k] < UNITS[k - 1]
    /\ clock = Told(f)[Len(UNITS)]

\* What the watch shows is what was measured.
WatchExact == ElapsedExact /\ SinceMarkExact /\ FormattedExact
=============================================================================
