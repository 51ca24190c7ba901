-------------------------- MODULE AlgorithmProofs ---------------------------
(***************************************************************************)
(* Proofs about the wrappers of ICU and the algorithms on values: pages    *)
(* and patterns, the layout of structures, the wire encoding, code points, *)
(* marks and the distance of texts.  They hold for texts, lists and        *)
(* structures of any length; the last theorem is about the arguments that  *)
(* MCValues gives to each algorithm.                                       *)
(***************************************************************************)
EXTENDS MCValues, TextProofs

-----------------------------------------------------------------------------
(***************************************************************************)
(* The wrappers of ICU.                                                    *)
(***************************************************************************)

\* The second part of detect_encoding.
Detecting ==
    <<Call("reset", {}), Call("open", {"csd"}), Call("check", {}),
      Call("convert", {}), Call("check", {"csd"}),
      Call("convert", {}), Call("check", {"csd"}),
      Call("convert", {}), Call("check", {"csd"}),
      Call("release", {"csd"})>>

\* All of detect_encoding, if check_bom is not content.
Detection ==
    <<Call("open", {"stream"}), Call("check", {}),
      Call("convert", {}), Call("check", {"stream"}),
      Call("release", {"stream"}),
      Call("reset", {}), Call("open", {"csd"}), Call("check", {}),
      Call("convert", {}), Call("check", {"csd"}),
      Call("convert", {}), Call("check", {"csd"}),
      Call("convert", {}), Call("check", {"csd"}),
      Call("release", {"csd"})>>

\* What is held at most before each call of a function that closes what it
\* opens, and at its end.
MayHold ==
    [utf32_to_utf8 |->
        <<{}, {"to8"}, {"to8"}, {"to8", "from32"}, {"to8", "from32"}, {"to8", "from32"},
          {"to8", "from32"}, {"to8", "from32"}, {"utf8", "to8", "from32"},
          {"utf8", "to8", "from32"}, {"utf8", "to8", "from32"}, {"utf8", "to8", "from32"}, {}>>,
     remove_accents |->
        <<{}, {}, {}, {}, {"conv"}, {"conv"}, {"conv"}, {"conv"}, {"conv", "uchars"},
          {"conv", "uchars"}, {"uchars"}, {"uchars"}, {}, {}, {}>>,
     detect_encoding |->
        <<{}, {"stream"}, {"stream"}, {"stream"}, {"stream"}, {}, {}, {"csd"}, {"csd"},
          {"csd"}, {"csd"}, {"csd"}, {"csd"}, {"csd"}, {"csd"}, {}>>]

Closing == {"utf32_to_utf8", "remove_accents", "detect_encoding"}

\* detect_encoding is short or long.
LEMMA DetectionIs ==
    detect_encoding \in
        {<<Call("open", {"stream"}), Call("check", {}),
           Call("convert", {}), Call("check", {"stream"}),
           Call("release", {"stream"})>>, Detection}
<1> DEFINE z == [i \in 1..MAX_BYTES |-> 0]
           a == <<Call("open", {"stream"}), Call("check", {}),
                  Call("convert", {}), Call("check", {"stream"}),
                  Call("release", {"stream"})>>
           S == [op : {"open", "check", "convert", "release", "reset"}, res : SUBSET {"stream", "csd"}]
<1>1. detect_encoding = a \o IF check_bom(z).detected THEN <<>> ELSE Detecting
  BY DEF detect_encoding, Detecting
<1>2. a \in Seq(S) /\ Detecting \in Seq(S) /\ Detection \in Seq(S)
  BY DEF Call, Detecting, Detection
<1>3. a \o <<>> = a
  BY <1>2
<1>4. a \o Detecting = Detection
  <2>1. /\ Len(a) = 5 /\ Len(Detecting) = 10 /\ Len(Detection) = 15
    BY DEF Detecting, Detection
  <2> DEFINE d == a \o Detecting
  <2>2. /\ d \in Seq(S) /\ Len(d) = 15
        /\ \A i \in 1..15 : d[i] = IF i <= 5 THEN a[i] ELSE Detecting[i - 5]
    <3> DEFINE b == Detecting
    <3> HIDE DEF a, S, b
    <3>1. a \in Seq(S) /\ b \in Seq(S) /\ Len(a) = 5 /\ Len(b) = 10
      BY <1>2, <2>1 DEF b
    <3>2. /\ a \o b \in Seq(S) /\ Len(a \o b) = Len(a) + Len(b)
          /\ \A i \in 1..(Len(a) + Len(b)) :
                (a \o b)[i] = IF i <= Len(a) THEN a[i] ELSE b[i - Len(a)]
      BY <3>1, ConcatProperties
    <3>3. Len(a) + Len(b) = 15
      BY <3>1
    <3> QED
      BY <3>1, <3>2, <3>3 DEF b
  <2> HIDE DEF d
  <2>3. \A i \in 1..5 : a[i] = Detection[i]
    <3>1. \A i \in 1..5 : i = 1 \/ i = 2 \/ i = 3 \/ i = 4 \/ i = 5
      OBVIOUS
    <3> QED
      BY <3>1 DEF Detection
  <2>4. \A i \in 1..10 : Detecting[i] = Detection[i + 5]
    <3>1. \A i \in 1..10 : i = 1 \/ i = 2 \/ i = 3 \/ i = 4 \/ i = 5 \/ i = 6 \/ i = 7
                           \/ i = 8 \/ i = 9 \/ i = 10
      OBVIOUS
    <3> QED
      BY <3>1 DEF Detection, Detecting
  <2>5. ASSUME NEW i \in 1..15
        PROVE  d[i] = Detection[i]
    <3>1. CASE i <= 5
      BY <2>2, <2>3, <3>1
    <3>2. CASE ~(i <= 5)
      <4>1. i - 5 \in 1..10 /\ (i - 5) + 5 = i
        BY <3>2
      <4> QED
        BY <2>2, <2>4, <3>2, <4>1
    <3> QED
      BY <3>1, <3>2
  <2>6. d = Detection
    <3> DEFINE e == Detection
    <3>1. e \in Seq(S) /\ Len(e) = 15 /\ \A i \in 1..15 : d[i] = e[i]
      BY <1>2, <2>1, <2>5
    <3> HIDE DEF e, S
    <3>2. d = e
      BY <2>2, <3>1, SeqEqual
    <3> QED
      BY <3>2 DEF e
  <2> QED
    BY <2>6 DEF d
<1> QED
  BY <1>1, <1>3, <1>4

\* The call at i of f, and what is held at most after it if all goes well.
OpAt(f, i) == Program[f][i].op
ResAt(f, i) == Program[f][i].res
After(f, i) ==
    IF OpAt(f, i) \in {"open", "new"} THEN MayHold[f][i] \cup ResAt(f, i)
    ELSE IF OpAt(f, i) = "release" THEN MayHold[f][i] \ ResAt(f, i)
    ELSE MayHold[f][i]

\* What is held before a call that follows call i is bounded; if it is a
\* check, it lets go of all that can be held when call i has failed.
Closes(f, i) ==
    /\ After(f, i) \subseteq MayHold[f][i + 1]
    /\ i + 1 \in DOMAIN Program[f] /\ OpAt(f, i + 1) = "check" =>
          (IF OpAt(f, i) = "open" THEN MayHold[f][i] ELSE After(f, i)) \subseteq ResAt(f, i + 1)
    /\ OpAt(f, i) = "too_big" /\ f # "utf32_to_utf8" => MayHold[f][i] = {}
    /\ i + 1 \in DOMAIN Program[f] /\ OpAt(f, i + 1) = "too_big" => OpAt(f, i) = "check"
    /\ i = Len(Program[f]) => After(f, i) = {} /\ MayHold[f][i + 1] = {}

\* What each call of utf32_to_utf8 leaves open, the next check can close.
LEMMA Utf32Closes == \A i \in DOMAIN Program["utf32_to_utf8"] : Closes("utf32_to_utf8", i)
<1>1. DOMAIN Program["utf32_to_utf8"] = 1..12 /\ Program["utf32_to_utf8"] = utf32_to_utf8 /\ Len(utf32_to_utf8) = 12
  BY DEF Program, utf32_to_utf8
<1>2. \A i \in 1..12 : i = 1 \/ i = 2 \/ i = 3 \/ i = 4 \/ i = 5 \/ i = 6 \/ i = 7
                   \/ i = 8 \/ i = 9 \/ i = 10 \/ i = 11 \/ i = 12
  OBVIOUS
<1>3. \A i \in 1..12 : Closes("utf32_to_utf8", i)
  BY <1>1, <1>2 DEF Closes, After, OpAt, ResAt, utf32_to_utf8, MayHold, Call
<1> QED
  BY <1>1, <1>3

\* The same for remove_accents.
LEMMA AccentsClose == \A i \in DOMAIN Program["remove_accents"] : Closes("remove_accents", i)
<1>1. DOMAIN Program["remove_accents"] = 1..14 /\ Program["remove_accents"] = remove_accents /\ Len(remove_accents) = 14
  BY DEF Program, remove_accents
<1>2. \A i \in 1..14 : i = 1 \/ i = 2 \/ i = 3 \/ i = 4 \/ i = 5 \/ i = 6 \/ i = 7
                   \/ i = 8 \/ i = 9 \/ i = 10 \/ i = 11 \/ i = 12 \/ i = 13 \/
                   i = 14
  OBVIOUS
<1>3. \A i \in 1..14 : Closes("remove_accents", i)
  BY <1>1, <1>2 DEF Closes, After, OpAt, ResAt, remove_accents, MayHold, Call
<1> QED
  BY <1>1, <1>3

\* The same for detect_encoding, whether it ends after check_bom or not.
LEMMA DetectionCloses == \A i \in DOMAIN Program["detect_encoding"] : Closes("detect_encoding", i)
<1> DEFINE short == <<Call("open", {"stream"}), Call("check", {}),
                      Call("convert", {}), Call("check", {"stream"}),
                      Call("release", {"stream"})>>
<1>1. Program["detect_encoding"] = detect_encoding
  BY DEF Program
<1>2. CASE detect_encoding = short
  <2>1. DOMAIN detect_encoding = 1..5 /\ Len(detect_encoding) = 5
    BY <1>2
  <2>2. \A i \in 1..5 : i = 1 \/ i = 2 \/ i = 3 \/ i = 4 \/ i = 5
    OBVIOUS
  <2>3. \A i \in 1..5 : Closes("detect_encoding", i)
    BY <1>1, <1>2, <2>1, <2>2 DEF Closes, After, OpAt, ResAt, MayHold, Call
  <2> QED
    BY <1>1, <2>1, <2>3
<1>3. CASE detect_encoding = Detection
  <2>1. DOMAIN Detection = 1..15 /\ Len(Detection) = 15
    BY DEF Detection
  <2>2. \A i \in 1..15 : i = 1 \/ i = 2 \/ i = 3 \/ i = 4 \/ i = 5 \/ i = 6 \/ i = 7
                     \/ i = 8 \/ i = 9 \/ i = 10 \/ i = 11 \/ i = 12 \/ i = 13 \/
                     i = 14 \/ i = 15
    OBVIOUS
  <2>3. \A i \in 1..15 : Closes("detect_encoding", i)
    BY <1>1, <1>3, <2>1, <2>2 DEF Closes, After, OpAt, ResAt, Detection, MayHold, Call
  <2> QED
    BY <1>1, <1>3, <2>1, <2>3
<1> QED
  BY <1>2, <1>3, DetectionIs

\* After the question for the size the status is reset, but in utf32_to_utf8.
Resets(f, i) == OpAt(f, i) = "preflight" => i + 1 \in DOMAIN Program[f] /\ OpAt(f, i + 1) = "reset"

\* The functions are sequences of calls, and this is so in all but one.
LEMMA ProgramIs ==
    ASSUME NEW f \in DOMAIN Program
    PROVE  /\ DOMAIN Program[f] = 1..Len(Program[f]) /\ Len(Program[f]) \in Nat \ {0}
           /\ f # "utf32_to_utf8" => \A i \in DOMAIN Program[f] : Resets(f, i)
           /\ f \in Closing => \A i \in DOMAIN Program[f] : Closes(f, i)
<1>1. \A i \in DOMAIN Program["to_wstring"] : Resets("to_wstring", i)
  <2>1. DOMAIN Program["to_wstring"] = 1..6 /\ Program["to_wstring"] = to_wstring
    BY DEF Program, to_wstring
  <2>2. \A i \in 1..6 : i = 1 \/ i = 2 \/ i = 3 \/ i = 4 \/ i = 5 \/ i = 6
    OBVIOUS
  <2>3. \A i \in 1..6 : Resets("to_wstring", i)
    BY <2>1, <2>2 DEF Resets, OpAt, to_wstring, Call
  <2> QED
    BY <2>1, <2>3
<1>2. \A i \in DOMAIN Program["utf16_to_utf8"] : Resets("utf16_to_utf8", i)
  <2>1. DOMAIN Program["utf16_to_utf8"] = 1..9 /\ Program["utf16_to_utf8"] = utf16_to_utf8
    BY DEF Program, utf16_to_utf8
  <2>2. \A i \in 1..9 : i = 1 \/ i = 2 \/ i = 3 \/ i = 4 \/ i = 5 \/ i = 6 \/ i = 7
                     \/ i = 8 \/ i = 9
    OBVIOUS
  <2>3. \A i \in 1..9 : Resets("utf16_to_utf8", i)
    BY <2>1, <2>2 DEF Resets, OpAt, utf16_to_utf8, Call
  <2> QED
    BY <2>1, <2>3
<1>3. \A i \in DOMAIN Program["remove_accents"] : Resets("remove_accents", i)
  <2>1. DOMAIN Program["remove_accents"] = 1..14 /\ Program["remove_accents"] = remove_accents
    BY DEF Program, remove_accents
  <2>2. \A i \in 1..14 : i = 1 \/ i = 2 \/ i = 3 \/ i = 4 \/ i = 5 \/ i = 6 \/ i = 7
                     \/ i = 8 \/ i = 9 \/ i = 10 \/ i = 11 \/ i = 12 \/ i = 13 \/
                     i = 14
    OBVIOUS
  <2>3. \A i \in 1..14 : Resets("remove_accents", i)
    BY <2>1, <2>2 DEF Resets, OpAt, remove_accents, Call
  <2> QED
    BY <2>1, <2>3
<1>4. \A i \in DOMAIN Program["detect_encoding"] : Resets("detect_encoding", i)
  <2> DEFINE short == <<Call("open", {"stream"}), Call("check", {}),
                        Call("convert", {}), Call("check", {"stream"}),
                        Call("release", {"stream"})>>
  <2>1. Program["detect_encoding"] = detect_encoding
    BY DEF Program
  <2>2. CASE detect_encoding = short
    <3>1. DOMAIN short = 1..5
      OBVIOUS
    <3>2. \A i \in 1..5 : short[i].op # "preflight"
      <4>1. \A i \in 1..5 : i = 1 \/ i = 2 \/ i = 3 \/ i = 4 \/ i = 5
        OBVIOUS
      <4> QED
        BY <4>1 DEF Call
    <3> QED
      BY <2>1, <2>2, <3>1, <3>2 DEF Resets, OpAt
  <2>3. CASE detect_encoding = Detection
    <3>1. DOMAIN Detection = 1..15
      BY DEF Detection
    <3>2. \A i \in 1..15 : Detection[i].op # "preflight"
      <4>1. \A i \in 1..15 : i = 1 \/ i = 2 \/ i = 3 \/ i = 4 \/ i = 5 \/ i = 6 \/ i = 7
                       \/ i = 8 \/ i = 9 \/ i = 10 \/ i = 11 \/ i = 12 \/ i = 13 \/
                       i = 14 \/ i = 15
        OBVIOUS
      <4> QED
        BY <4>1 DEF Call, Detection
    <3> QED
      BY <2>1, <2>3, <3>1, <3>2 DEF Resets, OpAt
  <2> QED
    BY <2>2, <2>3, DetectionIs
<1>5. DOMAIN Program = {"to_wstring", "utf32_to_utf8", "utf16_to_utf8", "remove_accents",
                        "detect_encoding"}
  BY DEF Program
<1>6. /\ DOMAIN Program["to_wstring"] = 1..6 /\ Len(Program["to_wstring"]) = 6
      /\ DOMAIN Program["utf32_to_utf8"] = 1..12 /\ Len(Program["utf32_to_utf8"]) = 12
      /\ DOMAIN Program["utf16_to_utf8"] = 1..9 /\ Len(Program["utf16_to_utf8"]) = 9
      /\ DOMAIN Program["remove_accents"] = 1..14 /\ Len(Program["remove_accents"]) = 14
  BY DEF Program, to_wstring, utf32_to_utf8, utf16_to_utf8, remove_accents
<1>7. \/ DOMAIN Program["detect_encoding"] = 1..5 /\ Len(Program["detect_encoding"]) = 5
      \/ DOMAIN Program["detect_encoding"] = 1..15 /\ Len(Program["detect_encoding"]) = 15
  BY DetectionIs DEF Program, Detection
<1>8. DOMAIN Program[f] = 1..Len(Program[f]) /\ Len(Program[f]) \in Nat \ {0}
  <2>1. DOMAIN Program[f] = 1..Len(Program[f])
    BY <1>5, <1>6, <1>7
  <2>2. Len(Program[f]) \in {5, 6, 9, 12, 14, 15}
    BY <1>5, <1>6, <1>7
  <2> QED
    BY <2>1, <2>2
<1>9. f # "utf32_to_utf8" => \A i \in DOMAIN Program[f] : Resets(f, i)
  BY <1>1, <1>2, <1>3, <1>4, <1>5
<1>10. f \in Closing => \A i \in DOMAIN Program[f] : Closes(f, i)
  BY Utf32Closes, AccentsClose, DetectionCloses DEF Closing
<1> QED
  BY <1>8, <1>9, <1>10

\* The program runs within its calls.
Within ==
    /\ fn \in DOMAIN Program /\ status \in {"ok", "error"}
    /\ outcome = "running" => at \in 1..(Len(Program[fn]) + 1)

\* What is held is bounded, and by what a check lets go of if the status is
\* an error.
Bounded ==
    outcome = "running" /\ fn \in Closing =>
        /\ held \subseteq MayHold[fn][at]
        /\ status = "error" /\ at \in DOMAIN Program[fn] /\ OpAt(fn, at) = "check" =>
              held \subseteq ResAt(fn, at)
        /\ at \in DOMAIN Program[fn] /\ OpAt(fn, at) = "too_big" => status = "ok"

\* An error that is nobody's fault is about to be cleared.
Blameless ==
    outcome = "running" /\ fn # "utf32_to_utf8" /\ status = "error" /\ ~faulted =>
        at \in DOMAIN Program[fn] /\ OpAt(fn, at) = "reset"

IcuInd == Within /\ Bounded /\ Blameless /\ IcuExact

\* It holds before the first call.
LEMMA IcuIndInit == IcuInit => IcuInd
<1> SUFFICES ASSUME IcuInit
             PROVE  IcuInd
  OBVIOUS
<1>1. /\ fn \in DOMAIN Program /\ at = 1 /\ status = "ok" /\ held = {}
      /\ outcome = "running"
  BY DEF IcuInit
<1>2. Within
  BY <1>1, ProgramIs DEF Within
<1>3. Bounded /\ Blameless /\ IcuExact
  BY <1>1 DEF Bounded, Blameless, IcuExact, NothingHeld, ThrowsForCause
<1> QED
  BY <1>2, <1>3 DEF IcuInd

\* A call that is followed by the next one.
LEMMA NextCall ==
    ASSUME IcuInd, outcome = "running", at \in DOMAIN Program[fn],
           fn' = fn, outcome' = "running", at' = at + 1,
           status' \in {"ok", "error"}, OpAt(fn, at) = "check" => status' = "ok",
           fn \in Closing => /\ held' \subseteq After(fn, at)
                             /\ OpAt(fn, at) = "open" /\ status' = "error" =>
                                   held' \subseteq MayHold[fn][at],
           fn # "utf32_to_utf8" /\ status' = "error" /\ ~faulted' => OpAt(fn, at) = "preflight"
    PROVE  IcuInd'
<1>1. /\ fn \in DOMAIN Program /\ DOMAIN Program[fn] = 1..Len(Program[fn])
      /\ Len(Program[fn]) \in Nat
      /\ fn # "utf32_to_utf8" => Resets(fn, at)
      /\ fn \in Closing => Closes(fn, at)
  BY ProgramIs DEF IcuInd, Within
<1>2. Within'
  BY <1>1 DEF Within
<1>3. Blameless'
  BY <1>1 DEF Blameless, Resets, OpAt
<1>4. Bounded'
  <2> SUFFICES ASSUME fn \in Closing
               PROVE  /\ held' \subseteq MayHold[fn][at + 1]
                      /\ status' = "error" /\ at + 1 \in DOMAIN Program[fn]
                         /\ OpAt(fn, at + 1) = "check" => held' \subseteq ResAt(fn, at + 1)
                      /\ at + 1 \in DOMAIN Program[fn] /\ OpAt(fn, at + 1) = "too_big" =>
                            status' = "ok"
    BY DEF Bounded, OpAt, ResAt
  <2>1. Closes(fn, at)
    BY <1>1
  <2>2. held' \subseteq MayHold[fn][at + 1]
    BY <2>1 DEF Closes
  <2>3. ASSUME status' = "error", at + 1 \in DOMAIN Program[fn], OpAt(fn, at + 1) = "check"
        PROVE  held' \subseteq ResAt(fn, at + 1)
    BY <2>1, <2>3 DEF Closes
  <2>4. at + 1 \in DOMAIN Program[fn] /\ OpAt(fn, at + 1) = "too_big" => status' = "ok"
    BY <2>1 DEF Closes
  <2> QED
    BY <2>2, <2>3, <2>4
<1>5. IcuExact'
  BY DEF IcuExact, NothingHeld, ThrowsForCause
<1> QED
  BY <1>2, <1>3, <1>4, <1>5 DEF IcuInd

\* An exit: nothing runs any more.
LEMMA Exits ==
    ASSUME IcuInd, fn' = fn, status' = status, outcome' # "running", IcuExact'
    PROVE  IcuInd'
  BY DEF IcuInd, Within, Bounded, Blameless

\* It is kept by every call, whether it succeeds or fails.
LEMMA IcuIndNext == IcuInd /\ [IcuNext]_icuVars => IcuInd'
<1> SUFFICES ASSUME IcuInd, [IcuNext]_icuVars
             PROVE  IcuInd'
  OBVIOUS
<1>1. /\ fn \in DOMAIN Program /\ status \in {"ok", "error"} /\ Bounded /\ Blameless
      /\ DOMAIN Program[fn] = 1..Len(Program[fn]) /\ Len(Program[fn]) \in Nat \ {0}
      /\ \A i \in DOMAIN Program[fn] : fn \in Closing => Closes(fn, i)
      /\ outcome = "running" => at \in 1..(Len(Program[fn]) + 1)
  BY ProgramIs DEF IcuInd, Within
<1>2. Now.op = OpAt(fn, at) /\ Now.res = ResAt(fn, at)
  BY DEF Now, OpAt, ResAt
<1>3. ASSUME NEW op, Doing(op)
      PROVE  /\ outcome = "running" /\ at \in DOMAIN Program[fn] /\ OpAt(fn, at) = op
             /\ fn' = fn
             /\ fn \in Closing => held \subseteq MayHold[fn][at]
  BY <1>1, <1>2, <1>3 DEF Doing, Bounded
<1>4. CASE open_succeeds
  <2>1. Doing("open") /\ status = "ok" /\ held' = held \cup ResAt(fn, at) /\ at' = at + 1
        /\ status' = status /\ outcome' = outcome
    BY <1>2, <1>4 DEF open_succeeds
  <2>2. fn \in Closing => held' \subseteq After(fn, at)
    BY <1>3, <2>1 DEF After
  <2> QED
    BY <1>1, <1>3, <2>1, <2>2, NextCall
<1>5. CASE convert_succeeds
  <2>1. Doing("convert") /\ held' = held /\ at' = at + 1 /\ faulted' = faulted
        /\ status' = status /\ outcome' = outcome
    BY <1>5 DEF convert_succeeds
  <2>2. fn \in Closing => held' \subseteq After(fn, at)
    BY <1>3, <2>1 DEF After
  <2>3. fn # "utf32_to_utf8" /\ status' = "error" /\ ~faulted' => OpAt(fn, at) = "preflight"
    BY <1>1, <1>3, <2>1 DEF Blameless
  <2> QED
    BY <1>1, <1>3, <2>1, <2>2, <2>3, NextCall
<1>6. CASE call_fails
  <2>1. PICK op \in {"open", "convert"} : Doing(op)
    BY <1>6 DEF call_fails
  <2>2. held' = held /\ at' = at + 1 /\ faulted' = (faulted \/ status = "ok")
        /\ status' = "error" /\ outcome' = outcome
    BY <1>6 DEF call_fails
  <2>3. /\ outcome = "running" /\ at \in DOMAIN Program[fn] /\ OpAt(fn, at) \in {"open", "convert"}
        /\ fn' = fn
        /\ fn \in Closing => held \subseteq MayHold[fn][at]
    BY <1>3, <2>1
  <2>4. fn \in Closing => /\ held' \subseteq After(fn, at)
                          /\ held' \subseteq MayHold[fn][at]
    BY <2>2, <2>3 DEF After
  <2>5. fn # "utf32_to_utf8" => faulted'
    BY <1>1, <2>2, <2>3 DEF Blameless
  <2> QED
    BY <2>2, <2>3, <2>4, <2>5, NextCall
<1>7. CASE preflight
  <2>1. Doing("preflight") /\ held' = held /\ at' = at + 1
        /\ status' \in {"ok", "error"} /\ outcome' = outcome
    BY <1>1, <1>7 DEF preflight
  <2>2. fn \in Closing => held' \subseteq After(fn, at)
    BY <1>3, <2>1 DEF After
  <2> QED
    BY <1>1, <1>3, <2>1, <2>2, NextCall
<1>8. CASE allocate_reset_release
  <2>1. PICK op \in {"new", "reset", "release"} : Doing(op)
    BY <1>8 DEF allocate_reset_release
  <2>2. /\ outcome = "running" /\ at \in DOMAIN Program[fn]
        /\ OpAt(fn, at) \in {"new", "reset", "release"}
        /\ fn' = fn
        /\ fn \in Closing => held \subseteq MayHold[fn][at]
    BY <1>3, <2>1
  <2>3. /\ status' = IF OpAt(fn, at) = "reset" THEN "ok" ELSE status
        /\ held' = CASE OpAt(fn, at) = "new" -> held \cup ResAt(fn, at)
                     [] OpAt(fn, at) = "release" -> held \ ResAt(fn, at)
                     [] OTHER -> held
        /\ at' = at + 1 /\ outcome' = outcome /\ faulted' = faulted
    BY <1>2, <1>8 DEF allocate_reset_release
  <2>4. fn \in Closing => held' \subseteq After(fn, at)
    BY <2>2, <2>3 DEF After
  <2>5. fn # "utf32_to_utf8" /\ status' = "error" => faulted'
    BY <1>1, <2>2, <2>3 DEF Blameless
  <2>6. status' \in {"ok", "error"} /\ OpAt(fn, at) # "open"
    BY <1>1, <2>2, <2>3
  <2> QED
    BY <2>2, <2>3, <2>4, <2>5, <2>6, NextCall
<1>9. CASE check
  <2>1. Doing("check") /\ status' = status /\ faulted' = faulted
    BY <1>9 DEF check
  <2>2. CASE status = "error"
    <3>1. outcome' = "thrown" /\ held' = held \ ResAt(fn, at)
      BY <1>2, <1>9, <2>2 DEF check
    <3>2. fn \in Closing => held' = {}
      BY <1>1, <1>3, <2>1, <2>2, <3>1 DEF Bounded
    <3>3. fn # "utf32_to_utf8" => faulted
      BY <1>1, <1>3, <2>1, <2>2 DEF Blameless
    <3>4. IcuExact'
      BY <1>3, <2>1, <3>1, <3>2, <3>3 DEF IcuExact, NothingHeld, ThrowsForCause, Closing
    <3> QED
      BY <1>3, <2>1, <3>1, <3>4, Exits
  <2>3. CASE status # "error"
    <3>1. at' = at + 1 /\ outcome' = outcome /\ held' = held /\ status' = "ok"
      BY <1>1, <1>9, <2>1, <2>3 DEF check
    <3>2. fn \in Closing => held' \subseteq After(fn, at)
      BY <1>3, <2>1, <3>1 DEF After
    <3> QED
      BY <1>3, <2>1, <3>1, <3>2, NextCall
  <2> QED
    BY <2>2, <2>3
<1>10. CASE too_big
  <2>1. Doing("too_big") /\ status' = status /\ held' = held
    BY <1>10 DEF too_big
  <2>2. fn # "utf32_to_utf8" /\ status = "error" => faulted
    BY <1>1, <1>3, <2>1 DEF Blameless
  <2>3. CASE at' = at + 1 /\ outcome' = outcome /\ faulted' = faulted
    <3>1. fn \in Closing => held' \subseteq After(fn, at)
      BY <1>3, <2>1 DEF After
    <3> QED
      BY <1>1, <1>3, <2>1, <2>2, <2>3, <3>1, NextCall
  <2>4. CASE outcome' = "thrown" /\ faulted'
    <3>1. fn \in Closing /\ fn # "utf32_to_utf8" => held' = {}
      BY <1>1, <1>3, <2>1 DEF Closes
    <3>2. fn = "utf32_to_utf8" /\ held' # {} => status' = "ok"
      BY <1>1, <1>3, <2>1 DEF Bounded, Closing
    <3>3. IcuExact'
      BY <1>3, <2>1, <2>4, <3>1, <3>2 DEF IcuExact, NothingHeld, ThrowsForCause, Closing
    <3> QED
      BY <1>3, <2>1, <2>4, <3>3, Exits
  <2> QED
    BY <1>10, <2>3, <2>4 DEF too_big
<1>11. CASE return
  <2>1. /\ outcome = "running" /\ at = Len(Program[fn]) + 1 /\ outcome' = "returned"
        /\ fn' = fn /\ status' = status /\ held' = held
    BY <1>11 DEF return
  <2>2. fn \in Closing => held = {}
    <3> SUFFICES ASSUME fn \in Closing
                 PROVE  held = {}
      OBVIOUS
    <3> DEFINE n == Len(Program[fn])
    <3>1. n \in DOMAIN Program[fn]
      BY <1>1
    <3>2. MayHold[fn][n + 1] = {}
      BY <1>1, <3>1 DEF Closes
    <3> QED
      BY <1>1, <2>1, <3>2 DEF Bounded
  <2>3. IcuExact'
    BY <2>1, <2>2 DEF IcuExact, NothingHeld, ThrowsForCause, Closing
  <2> QED
    BY <2>1, <2>3, Exits
<1>12. CASE UNCHANGED icuVars
  BY <1>12 DEF IcuInd, Within, Bounded, Blameless, IcuExact, NothingHeld, ThrowsForCause,
     icuVars, OpAt, ResAt
<1> QED
  BY <1>4, <1>5, <1>6, <1>7, <1>8, <1>9, <1>10, <1>11, <1>12 DEF IcuNext

\* Whatever call of ICU fails, and for strings of any length: remove_accents
\* and detect_encoding leave nothing open, utf32_to_utf8 only when it throws
\* for a string that is too long, and no function but utf32_to_utf8 throws
\* unless a call failed or the string was too long (icu_util.hpp).
THEOREM IcuCorrect == IcuSpec => []IcuExact
<1>1. IcuInit => IcuInd
  BY IcuIndInit
<1>2. IcuInd /\ [IcuNext]_icuVars => IcuInd'
  BY IcuIndNext
<1>3. IcuInd => IcuExact
  BY DEF IcuInd
<1> QED
  BY <1>1, <1>2, <1>3, PTL DEF IcuSpec

-----------------------------------------------------------------------------
(***************************************************************************)
(* The pages of a list.                                                    *)
(***************************************************************************)

\* The smaller of two numbers.
LEMMA MinOfTwo ==
    ASSUME NEW a \in Nat, NEW b \in Nat
    PROVE  Min({a, b}) = IF a <= b THEN a ELSE b
<1>1. {a, b} \in SUBSET Nat /\ {a, b} # {}
  OBVIOUS
<1>2. Min({a, b}) \in {a, b} /\ \A y \in {a, b} : Min({a, b}) <= y
  BY <1>1, MinIsIn
<1> QED
  BY <1>2

\* s has every row once, in the order of the names.
IsOrder(s, n, S, name) ==
    /\ n \in Nat /\ s \in [1..n -> S] /\ s \in Seq(S) /\ Len(s) = n
    /\ \A a, b \in 1..n : s[a] = s[b] => a = b
    /\ \A a, b \in 1..n : a < b => name[s[a]] <= name[s[b]]
    /\ \A x \in S : \E a \in 1..n : s[a] = x

\* An order of the rows has every row once.
LEMMA OrdersAre ==
    ASSUME NEW S, IsFiniteSet(S), NEW name \in [S -> Int], NEW s \in Orders(name)
    PROVE  IsOrder(s, Cardinality(S), S, name)
<1> DEFINE n == Cardinality(S)
           D == 1..n
<1>1. DOMAIN name = S
  OBVIOUS
<1>2. n \in Nat
  BY FS_CardinalityType
<1>3. /\ s \in [D -> S]
      /\ \A a, b \in DOMAIN s : a # b => s[a] # s[b]
      /\ \A a, b \in DOMAIN s : a < b => name[s[a]] <= name[s[b]]
  BY <1>1 DEF Orders
<1>4. s \in Seq(S) /\ Len(s) = n
  <2> HIDE DEF n
  <2> QED
    BY <1>2, <1>3
<1>5. DOMAIN s = D
  BY <1>3
<1>6. s \in Injection(D, S)
  BY <1>3, <1>5 DEF Injection, IsInjective
<1>7. Cardinality(D) = n
  <2>1. IsFiniteSet(D) /\ Cardinality(D) = n
    <3> HIDE DEF n
    <3>1. Cardinality(1..n) = IF 1 > n THEN 0 ELSE n - 1 + 1
      BY <1>2, FS_Interval
    <3>2. IsFiniteSet(1..n)
      BY <1>2, FS_Interval
    <3> QED
      BY <1>2, <3>1, <3>2
  <2> QED
    BY <2>1
<1>8. s \in Surjection(D, S)
  BY <1>6, <1>7, FS_Injection
<1>9. \A x \in S : \E a \in D : s[a] = x
  BY <1>8 DEF Surjection
<1> QED
  BY <1>2, <1>3, <1>4, <1>5, <1>9 DEF IsOrder

\* With names that are all different there is one order only.
LEMMA OneOrder ==
    ASSUME NEW S, IsFiniteSet(S), NEW name \in [S -> Int],
           \A x, y \in S : name[x] = name[y] => x = y,
           NEW s \in Orders(name), NEW t \in Orders(name)
    PROVE  s = t
<1> DEFINE n == Cardinality(S)
<1>s. IsOrder(s, n, S, name)
  BY OrdersAre
<1>t. IsOrder(t, n, S, name)
  BY OrdersAre
<1> HIDE DEF n
<1>1. /\ n \in Nat /\ s \in [1..n -> S]
      /\ \A a, b \in 1..n : s[a] = s[b] => a = b
      /\ \A a, b \in 1..n : a < b => name[s[a]] <= name[s[b]]
      /\ \A x \in S : \E a \in 1..n : s[a] = x
  BY <1>s DEF IsOrder
<1>2. /\ t \in [1..n -> S]
      /\ \A a, b \in 1..n : t[a] = t[b] => a = b
      /\ \A a, b \in 1..n : a < b => name[t[a]] <= name[t[b]]
      /\ \A x \in S : \E a \in 1..n : t[a] = x
  BY <1>t DEF IsOrder
<1> DEFINE P == {k \in Nat : k \in 1..n => s[k] = t[k]}
<1>3. ASSUME NEW k \in Nat, \A j \in 0..(k - 1) : j \in P
      PROVE  k \in P
  <2> SUFFICES ASSUME k \in 1..n
               PROVE  s[k] = t[k]
    OBVIOUS
  <2>1. \A j \in 1..(k - 1) : j \in 1..n /\ s[j] = t[j]
    BY <1>1, <1>3
  <2>2. s[k] \in S /\ t[k] \in S
    BY <1>1, <1>2
  <2>3. PICK b \in 1..n : t[b] = s[k]
    BY <1>2, <2>2
  <2>4. PICK c \in 1..n : s[c] = t[k]
    BY <1>1, <2>2
  <2>5. b >= k
    <3> SUFFICES ASSUME b < k
                 PROVE  FALSE
      BY <1>1
    <3>1. b \in 1..(k - 1)
      BY <1>1
    <3>2. s[b] = s[k]
      BY <2>1, <2>3, <3>1
    <3> QED
      BY <1>1, <3>2
  <2>6. c >= k
    <3> SUFFICES ASSUME c < k
                 PROVE  FALSE
      BY <1>1
    <3>1. c \in 1..(k - 1)
      BY <1>1
    <3>2. t[c] = t[k]
      BY <2>1, <2>4, <3>1
    <3> QED
      BY <1>2, <3>2
  <2>7. name[t[k]] \in Int /\ name[s[k]] \in Int
    BY <2>2
  <2>8. name[t[k]] <= name[s[k]]
    <3>1. CASE b = k
      BY <2>3, <2>7, <3>1
    <3>2. CASE b > k
      BY <1>2, <2>3, <3>2
    <3> QED
      BY <1>1, <2>5, <3>1, <3>2
  <2>9. name[s[k]] <= name[t[k]]
    <3>1. CASE c = k
      BY <2>4, <2>7, <3>1
    <3>2. CASE c > k
      BY <1>1, <2>4, <3>2
    <3> QED
      BY <1>1, <2>6, <3>1, <3>2
  <2>10. name[s[k]] = name[t[k]]
    BY <2>7, <2>8, <2>9
  <2> QED
    BY <2>2, <2>10
<1>4. Nat \subseteq P
  <2> HIDE DEF P
  <2> QED
    BY <1>3, NatStrong
<1>5. \A k \in 1..n : s[k] = t[k]
  BY <1>1, <1>4
<1> DEFINE D == 1..n
<1>6. s = [k \in D |-> s[k]] /\ t = [k \in D |-> t[k]] /\ \A k \in D : s[k] = t[k]
  BY <1>1, <1>2, <1>5
<1> HIDE DEF D
<1> QED
  BY <1>6

\* p holds the rows of s from the one behind the offset to the one at top.
IsPage(p, s, offset, top) ==
    Len(p) = top - offset /\ ToSet(p) = {s[a] : a \in (offset + 1)..top}

\* A page of an order: the rows from the one behind the offset on.
LEMMA PageIs ==
    ASSUME NEW S, NEW s \in Seq(S), NEW limit \in Nat, NEW offset \in Nat, offset <= Len(s),
           NEW top, top = IF offset + limit <= Len(s) THEN offset + limit ELSE Len(s)
    PROVE  IsPage(Page(s, limit, offset), s, offset, top)
<1> DEFINE n == Len(s)
           m == offset + limit
           p == Page(s, limit, offset)
           i == offset + 1
<1>1. n \in Nat /\ m \in Nat
  BY LenProperties
<1>2. Min({m, n}) = top
  <2>1. top = IF m <= n THEN m ELSE n
    OBVIOUS
  <2> HIDE DEF m, n
  <2> QED
    BY <1>1, <2>1, MinOfTwo
<1>3. p = SubSeq(s, i, top)
  BY <1>2 DEF Page
<1>4. top \in Nat /\ offset <= top /\ top <= n /\ i \in Nat \ {0}
  BY <1>1
<1> HIDE DEF i
<1>5. /\ p \in Seq(S)
      /\ Len(p) = IF i <= top THEN top - i + 1 ELSE 0
      /\ \A k \in 1..(top - i + 1) : p[k] = s[i + k - 1]
  <2> HIDE DEF p, n
  <2>1. top <= Len(s)
    BY <1>4 DEF n
  <2>2. /\ SubSeq(s, i, top) \in Seq(S)
        /\ Len(SubSeq(s, i, top)) = IF i <= top THEN top - i + 1 ELSE 0
        /\ \A k \in 1..(top - i + 1) : SubSeq(s, i, top)[k] = s[i + k - 1]
    BY <1>4, <2>1, PartIs
  <2> QED
    BY <1>3, <2>2
<1>6. Len(p) = top - offset /\ top - i + 1 = top - offset
  BY <1>4, <1>5 DEF i
<1> HIDE DEF p
<1>7. DOMAIN p = 1..(top - offset)
  BY <1>4, <1>5, <1>6
<1>8. ASSUME NEW k \in 1..(top - offset)
      PROVE  p[k] = s[offset + k]
  <2>1. p[k] = s[i + k - 1]
    BY <1>5, <1>6
  <2>2. i + k - 1 = offset + k
    BY DEF i
  <2> QED
    BY <2>1, <2>2
<1>9. ASSUME NEW x
      PROVE  (\E k \in 1..(top - offset) : p[k] = x) <=> (\E a \in (offset + 1)..top : s[a] = x)
  <2>1. ASSUME NEW k \in 1..(top - offset), p[k] = x
        PROVE  \E a \in (offset + 1)..top : s[a] = x
    <3>1. offset + k \in (offset + 1)..top
      BY <1>4
    <3> QED
      BY <1>8, <2>1, <3>1
  <2>2. ASSUME NEW a \in (offset + 1)..top, s[a] = x
        PROVE  \E k \in 1..(top - offset) : p[k] = x
    <3> DEFINE k == a - offset
    <3>1. k \in 1..(top - offset) /\ offset + k = a
      BY <1>4
    <3> HIDE DEF k
    <3> QED
      BY <1>8, <2>2, <3>1
  <2> QED
    BY <2>1, <2>2
<1>10. ToSet(p) = {s[a] : a \in (offset + 1)..top}
  <2> DEFINE K == 1..(top - offset)
             A == (offset + 1)..top
  <2>1. ToSet(p) = {p[k] : k \in K}
    BY <1>7 DEF ToSet
  <2>2. \A x : (\E k \in K : p[k] = x) <=> (\E a \in A : s[a] = x)
    BY <1>9
  <2> HIDE DEF K, A
  <2>3. {p[k] : k \in K} = {s[a] : a \in A}
    BY <2>2
  <2> QED
    BY <2>1, <2>3 DEF A
<1> QED
  BY <1>6, <1>10 DEF p, IsPage

\* Two pages of list_all in a row have as many rows as there are, up to two
\* limits; and when no two persons have the same name they have no row in
\* common and the first has the least names (PersonDAO::list_all, for every
\* number of rows and every limit).
THEOREM PagesCorrect ==
    ASSUME NEW S, IsFiniteSet(S), NEW name \in [S -> Int]
    PROVE  PagesExact(name)
<1> DEFINE n == Cardinality(S)
<1>0. DOMAIN name = S /\ n \in Nat
  BY FS_CardinalityType
<1> SUFFICES ASSUME NEW limit \in 1..n,
                    NEW first \in list_all(name, limit, 0),
                    NEW second \in list_all(name, limit, limit)
             PROVE  /\ Len(first) + Len(second) = Min({n, 2 * limit})
                    /\ Cardinality({name[i] : i \in S}) = n =>
                          /\ ToSet(first) \cap ToSet(second) = {}
                          /\ \A i \in ToSet(first), j \in S \ ToSet(first) : name[i] < name[j]
  BY <1>0 DEF PagesExact
<1>1. PICK s \in Orders(name) : first = Page(s, limit, 0)
  BY DEF list_all
<1>2. PICK t \in Orders(name) : second = Page(t, limit, limit)
  BY DEF list_all
<1>s. IsOrder(s, n, S, name)
  BY OrdersAre
<1>t. IsOrder(t, n, S, name)
  BY OrdersAre
<1>3. /\ s \in [1..n -> S] /\ s \in Seq(S) /\ Len(s) = n
      /\ \A a, b \in 1..n : s[a] = s[b] => a = b
      /\ \A a, b \in 1..n : a < b => name[s[a]] <= name[s[b]]
      /\ \A x \in S : \E a \in 1..n : s[a] = x
  <2> HIDE DEF n
  <2> QED
    BY <1>s DEF IsOrder
<1>4. t \in Seq(S) /\ Len(t) = n
  <2> HIDE DEF n
  <2> QED
    BY <1>t DEF IsOrder
<1>5. limit \in Nat /\ limit <= n
  BY <1>0
<1> DEFINE top == IF limit + limit <= n THEN limit + limit ELSE n
<1>6. Len(first) = limit /\ ToSet(first) = {s[a] : a \in 1..limit}
  <2> DEFINE zero == 0
             up == IF zero + limit <= Len(s) THEN zero + limit ELSE Len(s)
  <2>1. zero \in Nat /\ zero <= Len(s)
    BY <1>0, <1>3
  <2>2. up = limit /\ up = IF zero + limit <= Len(s) THEN zero + limit ELSE Len(s)
    BY <1>3, <1>5
  <2>3. zero + 1 = 1 /\ limit - zero = limit
    BY <1>5
  <2> HIDE DEF zero, up
  <2>4. IsPage(Page(s, limit, zero), s, zero, up)
    BY <1>3, <1>5, <2>1, <2>2, PageIs
  <2>5. Len(first) = up - zero /\ ToSet(first) = {s[a] : a \in (zero + 1)..up}
    BY <1>1, <2>4 DEF IsPage, zero
  <2> QED
    BY <2>2, <2>3, <2>5
<1>7. Len(second) = top - limit /\ ToSet(second) = {t[a] : a \in (limit + 1)..top}
  <2>1. top = IF limit + limit <= Len(t) THEN limit + limit ELSE Len(t)
    BY <1>4
  <2> HIDE DEF top
  <2>2. limit <= Len(t)
    BY <1>4, <1>5
  <2>3. IsPage(Page(t, limit, limit), t, limit, top)
    BY <1>4, <1>5, <2>1, <2>2, PageIs
  <2> QED
    BY <1>2, <2>3 DEF IsPage
<1>8. top \in Nat /\ top <= n /\ top = Min({n, 2 * limit})
  <2> DEFINE d == 2 * limit
  <2>1. d \in Nat /\ d = limit + limit
    BY <1>5
  <2> HIDE DEF d, n
  <2>2. Min({n, d}) = IF n <= d THEN n ELSE d
    BY <1>0, <2>1, MinOfTwo
  <2> QED
    BY <1>0, <2>1, <2>2 DEF d
<1> HIDE DEF top
<1>9. Len(first) + Len(second) = Min({n, 2 * limit})
  BY <1>5, <1>6, <1>7, <1>8
<1>10. ASSUME Cardinality({name[i] : i \in S}) = n
       PROVE  /\ ToSet(first) \cap ToSet(second) = {}
              /\ \A i \in ToSet(first), j \in S \ ToSet(first) : name[i] < name[j]
  <2> DEFINE N == {name[i] : i \in S}
  <2>1. name \in Surjection(S, N)
    BY DEF Surjection
  <2>2. Cardinality(S) = Cardinality(N)
    BY <1>10
  <2> HIDE DEF N
  <2>3. name \in Injection(S, N)
    BY <2>1, <2>2, FS_SurjSameCardinalityImpliesInj
  <2>4. \A x, y \in S : name[x] = name[y] => x = y
    BY <2>3 DEF Injection, IsInjective
  <2>5. s = t
    BY <2>4, OneOrder
  <2>6. ToSet(first) \cap ToSet(second) = {}
    <3> SUFFICES ASSUME NEW x \in ToSet(first), x \in ToSet(second)
                 PROVE  FALSE
      OBVIOUS
    <3>1. PICK a \in 1..limit : x = s[a]
      BY <1>6
    <3>2. PICK b \in (limit + 1)..top : x = s[b]
      BY <1>7, <2>5
    <3>3. a \in 1..n /\ b \in 1..n /\ a # b
      BY <1>0, <1>5, <1>8
    <3> QED
      BY <1>3, <3>1, <3>2, <3>3
  <2>7. ASSUME NEW i \in ToSet(first), NEW j \in S \ ToSet(first)
        PROVE  name[i] < name[j]
    <3>1. PICK a \in 1..limit : i = s[a]
      BY <1>6
    <3>2. PICK b \in 1..n : s[b] = j
      BY <1>3
    <3>3. b \notin 1..limit
      BY <1>6, <3>2
    <3>4. a \in 1..n /\ a < b
      BY <1>0, <1>5, <3>3
    <3>5. i \in S /\ i # j
      BY <1>3, <3>1, <3>4
    <3>6. name[i] <= name[j]
      BY <1>3, <3>1, <3>2, <3>4
    <3>7. name[i] # name[j]
      BY <2>4, <3>5
    <3>8. name[i] \in Int /\ name[j] \in Int
      BY <3>5
    <3> QED
      BY <3>6, <3>7, <3>8
  <2> QED
    BY <2>6, <2>7
<1> QED
  BY <1>9, <1>10

-----------------------------------------------------------------------------
(***************************************************************************)
(* The layout of a struct.                                                 *)
(***************************************************************************)

\* RoundUp gives the number itself just for a multiple, and never less.
LEMMA RoundUpIs ==
    ASSUME NEW n \in Nat, NEW a \in Nat \ {0}
    PROVE  RoundUp(n, a) \in Nat /\ RoundUp(n, a) >= n /\ (RoundUp(n, a) = n <=> n % a = 0)
<1> DEFINE q == n \div a
           r == n % a
           m == n + a - 1
           d == m \div a
           x == a * q
<1>1. n = a * q + r /\ r \in 0..a - 1 /\ q \in Nat
  BY Quotient
<1>2. m \in Nat /\ RoundUp(n, a) = d * a
  BY DEF RoundUp
<1> HIDE DEF q, r
<1>3. CASE r = 0
  <2> DEFINE t == a - 1
  <2>1. m = a * q + t /\ t \in 0..a - 1
    BY <1>1, <1>3
  <2> HIDE DEF m, t
  <2>2. d = q
    BY <1>1, <1>2, <2>1, QuotientUnique
  <2>3. d * a = a * q
    BY <1>1, <2>2
  <2> QED
    BY <1>1, <1>2, <1>3, <2>3 DEF r
<1>4. CASE r # 0
  <2> DEFINE t == r - 1
             p == q + 1
  <2>0. a * p = x + a /\ x \in Nat
    BY <1>1
  <2>1. m = a * p + t /\ t \in 0..a - 1 /\ p \in Nat
    <3> HIDE DEF p
    <3>1. n = x + r /\ r \in 0..a - 1
      BY <1>1
    <3> HIDE DEF x
    <3>2. m = a * p + t /\ t \in 0..a - 1
      BY <1>4, <2>0, <3>1
    <3> QED
      BY <1>1, <3>2 DEF p
  <2> HIDE DEF m, t, p
  <2>2. d = p
    BY <1>2, <2>1, QuotientUnique
  <2>3. d * a = x + a
    BY <2>0, <2>1, <2>2
  <2>4. n = x + r
    BY <1>1
  <2> HIDE DEF x, d
  <2> QED
    BY <1>1, <1>2, <1>4, <2>0, <2>3, <2>4 DEF r
<1> QED
  BY <1>3, <1>4

\* Members of any size and alignment, and structs of one of them at least.
MembersOf == [size : Nat \ {0}, align : Nat \ {0}, floating : BOOLEAN]
StructsOf == {T \in Seq(MembersOf) : T # <<>>}

\* What a member of a struct is.
LEMMA MemberIs ==
    ASSUME NEW T \in Seq(MembersOf), NEW k \in 1..Len(T)
    PROVE  T[k].size \in Nat \ {0} /\ T[k].align \in Nat \ {0}
<1> DEFINE x == T[k]
<1>1. x \in MembersOf
  BY ElementOfSeq
<1> HIDE DEF x
<1>2. x.size \in Nat \ {0} /\ x.align \in Nat \ {0}
  BY <1>1 DEF MembersOf
<1> QED
  BY <1>2 DEF x

\* e has the ends of the members of T.
EndsAt(e, T) ==
    /\ e \in [0..Len(T) -> Nat] /\ e[0] = 0
    /\ \A k \in 1..Len(T) : e[k] = RoundUp(e[k - 1], T[k].align) + T[k].size

\* Ends has them.
LEMMA EndsAreAt ==
    ASSUME NEW T \in Seq(MembersOf)
    PROVE  EndsAt(Ends(T), T)
<1> DEFINE X == Nat
           m == Len(T)
           first == 0
           Is(g) == g = [n \in 0..m |-> IF n = 0 THEN first ELSE RoundUp(g[n - 1], T[n].align) + T[n].size]
           w == CHOOSE g : Is(g)
           G == [x \in (1..m) \X X |-> RoundUp(x[2], T[x[1]].align) + T[x[1]].size]
<1>1. m \in Nat /\ \A n \in 1..m : T[n].size \in Nat \ {0} /\ T[n].align \in Nat \ {0}
  <2>1. m \in Nat
    OBVIOUS
  <2>2. ASSUME NEW n \in 1..m
        PROVE  T[n].size \in Nat \ {0} /\ T[n].align \in Nat \ {0}
    BY MemberIs
  <2> QED
    BY <2>1, <2>2
<1>2. first \in X
  OBVIOUS
<1>3. \A v \in X, c \in Nat \ {0}, d \in Nat \ {0} : RoundUp(v, c) + d \in X
  <2> SUFFICES ASSUME NEW v \in Nat, NEW c \in Nat \ {0}, NEW d \in Nat \ {0}
               PROVE  RoundUp(v, c) + d \in Nat
    OBVIOUS
  <2>1. RoundUp(v, c) \in Nat
    BY RoundUpIs
  <2> QED
    BY <2>1
<1>4. Ends(T) = w
  BY DEF Ends
<1> HIDE DEF X, m, w, first
<1>5. ASSUME NEW n \in 1..m, NEW v \in X
      PROVE  G[<<n, v>>] = RoundUp(v, T[n].align) + T[n].size
  <2>1. <<n, v>> \in (1..m) \X X
    OBVIOUS
  <2> QED
    BY <2>1
<1>6. G \in [(1..m) \X X -> X]
  <2>1. ASSUME NEW x \in (1..m) \X X
        PROVE  RoundUp(x[2], T[x[1]].align) + T[x[1]].size \in X
    BY <1>1, <1>3
  <2> QED
    BY <2>1
<1> HIDE DEF G
<1>7. PICK g \in [0..m -> X] : RecursFrom(g, m, first, G)
  BY <1>1, <1>2, <1>6, IndexedRecursionExists
<1>8. Is(g)
  <2>1. g[0] = first
    BY <1>7 DEF RecursFrom
  <2>2. ASSUME NEW n \in 1..m
        PROVE  g[n] = RoundUp(g[n - 1], T[n].align) + T[n].size
    <3>1. n - 1 \in 0..m
      BY <1>1
    <3>2. g[n - 1] \in X
      BY <1>7, <3>1
    <3> QED
      BY <1>5, <1>7, <3>2 DEF RecursFrom
  <2>3. ASSUME NEW n \in 0..m
        PROVE  g[n] = IF n = 0 THEN first ELSE RoundUp(g[n - 1], T[n].align) + T[n].size
    <3>1. n = 0 \/ n \in 1..m
      BY <1>1
    <3>2. n \in 1..m => n # 0
      BY <1>1
    <3> QED
      BY <2>1, <2>2, <3>1, <3>2, Zenon
  <2> QED
    BY <1>7, <2>3
<1>9. Is(w)
  BY <1>8 DEF w
<1>10. w[0] = first /\ \A n \in 1..m : w[n] = RoundUp(w[n - 1], T[n].align) + T[n].size
  BY <1>1, <1>9
<1>11. \A n \in 0..m : w[n] \in X
  <2> DEFINE P == {n \in Nat : n <= m => w[n] \in X}
  <2>1. 0 \in P
    BY <1>2, <1>10
  <2>2. ASSUME NEW n \in Nat, n \in P
        PROVE  n + 1 \in P
    <3> SUFFICES ASSUME n + 1 <= m
                 PROVE  w[n + 1] \in X
      OBVIOUS
    <3> DEFINE k == n + 1
    <3>1. k \in 1..m /\ k - 1 = n /\ w[n] \in X
      BY <1>1, <2>2
    <3> HIDE DEF k
    <3>2. /\ w[k] = RoundUp(w[n], T[k].align) + T[k].size
          /\ T[k].size \in Nat \ {0} /\ T[k].align \in Nat \ {0}
      BY <1>1, <1>10, <3>1
    <3> QED
      BY <1>3, <3>1, <3>2 DEF k
  <2>3. Nat \subseteq P
    <3> HIDE DEF P
    <3> QED
      BY <2>1, <2>2, NatInductive
  <2> QED
    BY <1>1, <2>3
<1>12. w \in [0..m -> X]
  BY <1>9, <1>11
<1> QED
  BY <1>4, <1>10, <1>12 DEF X, m, first, EndsAt


\* The members do not overlap: each begins where the one before it ends, or
\* later, and has a byte at least.
LEMMA MembersFollow ==
    ASSUME NEW T \in StructsOf, NEW k \in 1..Len(T)
    PROVE  /\ Ends(T)[k - 1] \in Nat /\ MemberOffset(T, k) \in Nat
           /\ MemberOffset(T, k) >= Ends(T)[k - 1]
           /\ END_OF_MEMBER(T, k) = Ends(T)[k]
           /\ Ends(T)[k] = MemberOffset(T, k) + T[k].size
           /\ T[k].size \in Nat \ {0} /\ Ends(T)[k] \in Nat
<1> DEFINE e == Ends(T)
           a == e[k - 1]
           b == T[k].size
           c == T[k].align
<1>1. T \in Seq(MembersOf)
  BY DEF StructsOf
<1>2. EndsAt(e, T)
  BY <1>1, EndsAreAt
<1>3. k - 1 \in 0..Len(T) /\ k \in 0..Len(T) /\ b \in Nat \ {0} /\ c \in Nat \ {0}
  <2>1. b \in Nat \ {0} /\ c \in Nat \ {0}
    BY <1>1, MemberIs
  <2>2. Len(T) \in Nat
    BY <1>1
  <2> HIDE DEF b, c
  <2> QED
    BY <2>1, <2>2
<1>4. a \in Nat /\ e[k] = RoundUp(a, c) + b /\ e[k] \in Nat
  BY <1>2, <1>3 DEF EndsAt
<1> HIDE DEF a, b, c
<1>5. RoundUp(a, c) \in Nat /\ RoundUp(a, c) >= a
  BY <1>3, <1>4, RoundUpIs
<1> QED
  BY <1>3, <1>4, <1>5 DEF MemberOffset, END_OF_MEMBER, a, b, c

\* The ends grow.
LEMMA EndsGrow ==
    ASSUME NEW T \in StructsOf, NEW i \in 0..Len(T), NEW j \in 0..Len(T), i < j
    PROVE  Ends(T)[i] < Ends(T)[j]
<1> DEFINE e == Ends(T)
           n == Len(T)
           P == {k \in Nat : i < k /\ k <= n => e[i] < e[k]}
<1>0. n \in Nat /\ \A k \in 0..n : e[k] \in Nat
  <2>1. T \in Seq(MembersOf)
    BY DEF StructsOf
  <2>2. EndsAt(e, T)
    BY <2>1, EndsAreAt
  <2>3. e \in [0..n -> Nat]
    BY <2>2 DEF EndsAt
  <2>4. n \in Nat
    BY <2>1
  <2> HIDE DEF e, n
  <2> QED
    BY <2>3, <2>4
<1>1. \A k \in 1..n : e[k - 1] < e[k]
  <2> SUFFICES ASSUME NEW k \in 1..n
               PROVE  e[k - 1] < e[k]
    OBVIOUS
  <2>1. /\ e[k - 1] \in Nat /\ MemberOffset(T, k) \in Nat /\ MemberOffset(T, k) >= e[k - 1]
        /\ e[k] = MemberOffset(T, k) + T[k].size /\ T[k].size \in Nat \ {0}
    BY MembersFollow
  <2> QED
    BY <2>1
<1> HIDE DEF e, n
<1>2. 0 \in P
  BY <1>0
<1>3. ASSUME NEW k \in Nat, k \in P
      PROVE  k + 1 \in P
  <2> SUFFICES ASSUME i < k + 1, k + 1 <= n
               PROVE  e[i] < e[k + 1]
    OBVIOUS
  <2> DEFINE l == k + 1
  <2>1. l \in 1..n /\ l - 1 = k /\ k \in 0..n /\ l \in 0..n /\ i \in 0..n /\ (i < k \/ i = k) /\ k <= n
    BY <1>0 DEF n
  <2> HIDE DEF l
  <2>2. e[k] < e[l]
    BY <1>1, <2>1
  <2>3. i < k => e[i] < e[k]
    BY <1>3, <2>1
  <2>4. e[i] < e[l]
    BY <1>0, <2>1, <2>2, <2>3
  <2> QED
    BY <2>4 DEF l
<1>4. Nat \subseteq P
  <2> HIDE DEF P
  <2> QED
    BY <1>2, <1>3, NatInductive
<1>5. j \in Nat /\ j <= n
  BY DEF n
<1> QED
  BY <1>4, <1>5 DEF e

\* A member that begins where another ends is the next one.
LEMMA NextMember ==
    ASSUME NEW T \in StructsOf, NEW k \in 1..Len(T), NEW l \in 1..Len(T),
           MemberOffset(T, l) = Ends(T)[k]
    PROVE  l = k + 1
<1> DEFINE e == Ends(T)
           n == Len(T)
           h == l - 1
<1>1. /\ e[h] \in Nat /\ MemberOffset(T, l) >= e[h] /\ e[l] = MemberOffset(T, l) + T[l].size
      /\ T[l].size \in Nat \ {0} /\ e[l] \in Nat /\ MemberOffset(T, l) \in Nat
  BY MembersFollow
<1>2. e[k] \in Nat /\ e[h] <= e[k] /\ e[k] < e[l]
  BY <1>1
<1>3. n \in Nat /\ h \in 0..n /\ k \in 0..n /\ l \in 0..n
  BY DEF StructsOf
<1>4. ~(k < h)
  <2>1. k < h => e[k] < e[h]
    BY <1>3, EndsGrow
  <2> QED
    BY <1>1, <1>2, <2>1
<1>5. ~(l <= k)
  <2>1. l < k => e[l] < e[k]
    BY <1>3, EndsGrow
  <2>2. l = k => e[l] = e[k]
    OBVIOUS
  <2> QED
    BY <1>1, <1>2, <1>3, <2>1, <2>2
<1> QED
  BY <1>3, <1>4, <1>5

\* The alignment of a struct.
LEMMA AlignIs ==
    ASSUME NEW T \in StructsOf
    PROVE  alignof(T) \in Nat \ {0}
<1> DEFINE S == {T[k].align : k \in DOMAIN T}
           U == {b \in Nat : \A x \in S : x <= b}
           n == Len(T)
<1>1. n \in Nat \ {0} /\ S = {T[k].align : k \in 1..n} /\ \A k \in 1..n : T[k].align \in Nat \ {0}
  <2>1. T \in Seq(MembersOf) /\ T # <<>>
    BY DEF StructsOf
  <2>2. n \in Nat \ {0} /\ DOMAIN T = 1..n
    BY <2>1
  <2>3. \A k \in 1..n : T[k].align \in Nat \ {0}
    BY <2>1, MemberIs
  <2> QED
    BY <2>2, <2>3
<1> HIDE DEF S, n
<1>2. S \subseteq Nat \ {0} /\ T[1].align \in S
  BY <1>1
<1>3. U # {}
  <2> DEFINE P == {m \in Nat : m <= n => \E b \in Nat : \A k \in 1..m : T[k].align <= b}
  <2>1. 0 \in P
    OBVIOUS
  <2>2. ASSUME NEW m \in Nat, m \in P
        PROVE  m + 1 \in P
    <3> SUFFICES ASSUME m + 1 <= n
                 PROVE  \E b \in Nat : \A k \in 1..m + 1 : T[k].align <= b
      OBVIOUS
    <3>1. PICK b \in Nat : \A k \in 1..m : T[k].align <= b
      BY <1>1, <2>2
    <3> DEFINE t == T[m + 1].align
    <3>2. t \in Nat /\ \A k \in 1..m + 1 : k \in 1..m \/ k = m + 1
      BY <1>1
    <3>3. \A k \in 1..m + 1 : T[k].align <= b + t
      <4> SUFFICES ASSUME NEW k \in 1..m + 1
                   PROVE  T[k].align <= b + t
        OBVIOUS
      <4>1. T[k].align \in Nat
        BY <1>1
      <4>2. T[k].align <= b \/ T[k].align = t
        BY <3>1, <3>2
      <4> HIDE DEF t
      <4> QED
        BY <3>2, <4>1, <4>2
    <3>4. b + t \in Nat
      BY <3>2
    <3> QED
      BY <3>3, <3>4
  <2>3. Nat \subseteq P
    <3> HIDE DEF P
    <3> QED
      BY <2>1, <2>2, NatInductive
  <2>4. n \in P
    <3> HIDE DEF P
    <3> QED
      BY <1>1, <2>3
  <2>5. n <= n => \E b \in Nat : \A k \in 1..n : T[k].align <= b
    BY <2>4, Zenon
  <2>6. PICK b \in Nat : \A k \in 1..n : T[k].align <= b
    BY <1>1, <2>5
  <2> QED
    BY <1>1, <2>6
<1>4. U \in SUBSET Nat
  OBVIOUS
<1>5. PICK m \in U : \A y \in U : m <= y
  <2> HIDE DEF U
  <2> QED
    BY <1>3, <1>4, LeastExists
<1>6. m \in S
  <2> SUFFICES ASSUME m \notin S
               PROVE  FALSE
    OBVIOUS
  <2>1. \A x \in S : x <= m - 1 /\ x # 0 /\ x \in Nat
    BY <1>2, <1>5
  <2>2. m \in Nat /\ T[1].align <= m - 1 /\ T[1].align \in Nat
    BY <1>2, <1>5, <2>1
  <2>3. m - 1 \in Nat
    BY <2>2
  <2>4. m - 1 \in U
    BY <2>1, <2>3
  <2> QED
    BY <1>5, <2>2, <2>4
<1>7. \E x \in S : \A y \in S : x >= y
  BY <1>2, <1>5, <1>6
<1>8. Max(S) \in S
  BY <1>7 DEF Max
<1> QED
  BY <1>2, <1>8 DEF alignof, S

\* Each member but the first begins where the one before it ends, and
\* nothing follows the last.
Contiguous(T) ==
    /\ \A k \in 1..Len(T) : MemberOffset(T, k) = Ends(T)[k - 1]
    /\ sizeof(T) = Ends(T)[Len(T)]

\* The size of a struct is no less than where its last member ends.
LEMMA SizeIs ==
    ASSUME NEW T \in StructsOf
    PROVE  /\ sizeof(T) \in Nat /\ sizeof(T) >= Ends(T)[Len(T)] /\ Ends(T)[Len(T)] \in Nat
           /\ sizeof(T) = Ends(T)[Len(T)] <=> Ends(T)[Len(T)] % alignof(T) = 0
<1> DEFINE n == Len(T)
           x == Ends(T)[n]
           a == alignof(T)
<1>1. n \in 1..Len(T)
  BY DEF StructsOf
<1>2. x \in Nat /\ END_OF_MEMBER(T, n) = x
  <2> HIDE DEF n
  <2> QED
    BY <1>1, MembersFollow
<1>3. a \in Nat \ {0}
  BY AlignIs
<1>4. sizeof(T) = RoundUp(x, a)
  BY <1>2 DEF sizeof
<1> HIDE DEF x, a
<1>5. RoundUp(x, a) \in Nat /\ RoundUp(x, a) >= x /\ (RoundUp(x, a) = x <=> x % a = 0)
  BY <1>2, <1>3, RoundUpIs
<1> QED
  BY <1>2, <1>4, <1>5 DEF x, a

\* The tail that TAIL_PAD_ONLY_N finds.
LEMMA TailIs ==
    ASSUME NEW T \in StructsOf
    PROVE  /\ TAIL_PAD_ONLY_N(T, Len(T)) \in Nat
           /\ TAIL_PAD_ONLY_N(T, Len(T)) = 0 <=> sizeof(T) = Ends(T)[Len(T)]
<1> DEFINE n == Len(T)
           x == Ends(T)[n]
           a == alignof(T)
           r == x % a
<1>1. n \in 1..Len(T)
  BY DEF StructsOf
<1>2. x \in Nat /\ END_OF_MEMBER(T, n) = x
  <2> HIDE DEF n
  <2> QED
    BY <1>1, MembersFollow
<1>3. a \in Nat \ {0}
  BY AlignIs
<1>4. TAIL_PAD_ONLY_N(T, n) = (a - r) % a
  BY <1>2 DEF TAIL_PAD_ONLY_N
<1>5. r \in 0..a - 1
  <2> HIDE DEF x, a
  <2> QED
    BY <1>2, <1>3, Quotient
<1>6. sizeof(T) = x <=> r = 0
  BY SizeIs
<1> HIDE DEF r, a, x, n
<1>7. CASE r = 0
  <2> DEFINE z == 0
             q == 1
             y == a - r
  <2>1. y = a * q + z /\ z \in 0..a - 1 /\ q \in Nat /\ y \in Nat
    BY <1>3, <1>7
  <2> HIDE DEF z, q, y
  <2>2. y % a = z
    BY <1>3, <2>1, QuotientUnique
  <2> QED
    BY <1>4, <1>6, <1>7, <2>2 DEF y, z, x, n
<1>8. CASE r # 0
  <2> DEFINE z == a - r
             q == 0
             y == a - r
  <2>1. y = a * q + z /\ z \in 0..a - 1 /\ q \in Nat /\ y \in Nat /\ z # 0
    BY <1>3, <1>5, <1>8
  <2> HIDE DEF z, q, y
  <2>2. y % a = z
    BY <1>3, <2>1, QuotientUnique
  <2>3. z \in Nat
    BY <2>1
  <2> QED
    BY <1>4, <1>6, <1>8, <2>1, <2>2, <2>3 DEF y, x, n
<1> QED
  BY <1>7, <1>8

\* A byte below the end of the struct's last member is below the end of a
\* member and not below the end of the one before it.
LEMMA ByteWhere ==
    ASSUME NEW T \in StructsOf, NEW b \in Nat, b < Ends(T)[Len(T)]
    PROVE  \E k \in 1..Len(T) : Ends(T)[k - 1] <= b /\ b < Ends(T)[k]
<1> DEFINE e == Ends(T)
           n == Len(T)
           S == {k \in 0..n : b < e[k]}
<1>1. n \in Nat /\ e \in [0..n -> Nat] /\ e[0] = 0
  <2>1. T \in Seq(MembersOf)
    BY DEF StructsOf
  <2>2. EndsAt(e, T)
    BY <2>1, EndsAreAt
  <2> HIDE DEF e
  <2> QED
    BY <2>1, <2>2 DEF EndsAt
<1> HIDE DEF e, n
<1>2. n \in S
  BY <1>1 DEF e, n
<1>3. S \in SUBSET Nat /\ S # {}
  BY <1>1, <1>2
<1>4. PICK k \in S : \A y \in S : k <= y
  <2> HIDE DEF S
  <2> QED
    BY <1>3, LeastExists
<1>5. k # 0
  BY <1>1, <1>4
<1>6. k \in 1..n /\ k - 1 \in 0..n /\ k - 1 \notin S
  BY <1>1, <1>4, <1>5
<1>7. ~(b < e[k - 1]) /\ e[k - 1] \in Nat
  BY <1>1, <1>6
<1> QED
  BY <1>4, <1>6, <1>7 DEF e, n

\* Every byte belongs to a member just if the members lie side by side.
LEMMA NoPaddingIs ==
    ASSUME NEW T \in StructsOf
    PROVE  NoPadding(T) <=> Contiguous(T)
<1> DEFINE e == Ends(T)
           n == Len(T)
           O(k) == MemberOffset(T, k)
<1>0. n \in Nat \ {0} /\ n \in 1..n /\ n \in 0..n
  BY DEF StructsOf
<1>1. ASSUME NEW k \in 1..n
      PROVE  /\ e[k - 1] \in Nat /\ O(k) \in Nat /\ O(k) >= e[k - 1] /\ END_OF_MEMBER(T, k) = e[k]
             /\ e[k] = O(k) + T[k].size /\ T[k].size \in Nat \ {0} /\ e[k] \in Nat
  BY MembersFollow
<1>2. sizeof(T) \in Nat /\ sizeof(T) >= e[n] /\ e[n] \in Nat
  BY SizeIs
<1>3. \A i, j \in 0..n : i < j => e[i] < e[j]
  BY EndsGrow
<1>4. ASSUME Contiguous(T)
      PROVE  NoPadding(T)
  <2> SUFFICES ASSUME NEW b \in 0..sizeof(T) - 1
               PROVE  \E k \in DOMAIN T : b \in MemberOffset(T, k)..END_OF_MEMBER(T, k) - 1
    BY DEF NoPadding
  <2>1. sizeof(T) = e[n] /\ \A k \in 1..n : O(k) = e[k - 1]
    BY <1>4 DEF Contiguous
  <2>2. b \in Nat /\ b < e[n]
    BY <1>2, <2>1
  <2>3. PICK k \in 1..n : e[k - 1] <= b /\ b < e[k]
    BY <2>2, ByteWhere
  <2>4. b \in O(k)..END_OF_MEMBER(T, k) - 1
    <3>1. O(k) = e[k - 1] /\ END_OF_MEMBER(T, k) = e[k] /\ e[k] \in Nat /\ e[k - 1] \in Nat
      BY <1>1, <2>1
    <3> HIDE DEF O, e
    <3> QED
      BY <2>2, <2>3, <3>1
  <2>5. k \in DOMAIN T
    BY DEF StructsOf
  <2> QED
    BY <2>4, <2>5
<1>5. ASSUME NoPadding(T)
      PROVE  Contiguous(T)
  <2>1. ASSUME NEW b \in Nat, b < sizeof(T)
        PROVE  \E k \in 1..n : O(k) <= b /\ b < e[k]
    <3>1. b \in 0..sizeof(T) - 1
      BY <1>2, <2>1
    <3>2. PICK k \in DOMAIN T : b \in O(k)..END_OF_MEMBER(T, k) - 1
      BY <1>5, <3>1 DEF NoPadding
    <3>3. k \in 1..n
      BY DEF StructsOf
    <3>4. END_OF_MEMBER(T, k) = e[k] /\ e[k] \in Nat /\ O(k) \in Nat
      BY <1>1, <3>3
    <3> HIDE DEF O, e
    <3> QED
      BY <3>2, <3>3, <3>4
  <2>2. sizeof(T) = e[n]
    <3> SUFFICES ASSUME sizeof(T) # e[n]
                 PROVE  FALSE
      OBVIOUS
    <3> DEFINE b == e[n]
    <3>1. b \in Nat /\ b < sizeof(T)
      BY <1>2
    <3>2. PICK k \in 1..n : O(k) <= b /\ b < e[k]
      BY <2>1, <3>1
    <3>3. k \in 0..n /\ (k < n \/ k = n) /\ e[k] \in Nat
      BY <1>1, <3>2
    <3> HIDE DEF O, e
    <3>4. e[k] <= e[n]
      BY <1>0, <1>2, <1>3, <3>3
    <3> QED
      BY <1>2, <3>2, <3>3, <3>4
  <2>3. ASSUME NEW l \in 1..n
        PROVE  O(l) = e[l - 1]
    <3> SUFFICES ASSUME O(l) # e[l - 1]
                 PROVE  FALSE
      OBVIOUS
    <3> DEFINE b == e[l - 1]
    <3>1. b \in Nat /\ O(l) \in Nat /\ b < O(l) /\ O(l) < e[l] /\ e[l] \in Nat
      <4>1. /\ b \in Nat /\ O(l) \in Nat /\ O(l) >= b /\ e[l] = O(l) + T[l].size
            /\ T[l].size \in Nat \ {0} /\ e[l] \in Nat
        BY <1>1
      <4> HIDE DEF O, e
      <4> QED
        BY <4>1
    <3>2. l \in 0..n /\ (l < n \/ l = n) /\ l - 1 \in 0..n
      BY <1>0
    <3>3. e[l] <= e[n]
      <4> HIDE DEF e
      <4> QED
        BY <1>0, <1>2, <1>3, <3>1, <3>2
    <3>4. b < sizeof(T)
      BY <1>2, <2>2, <3>1, <3>3
    <3>5. PICK k \in 1..n : O(k) <= b /\ b < e[k]
      BY <2>1, <3>1, <3>4
    <3>6. k \in 0..n /\ k - 1 \in 0..n /\ e[k] \in Nat /\ e[k - 1] \in Nat /\ O(k) >= e[k - 1]
          /\ O(k) \in Nat
      BY <1>0, <1>1, <3>5
    <3>7. CASE k < l
      <4>1. k = l - 1 \/ k < l - 1
        BY <3>7
      <4>2. k < l - 1 => e[k] < e[l - 1]
        BY <1>3, <3>2, <3>6
      <4> HIDE DEF e, O
      <4> QED
        BY <3>1, <3>5, <3>6, <4>1, <4>2 DEF b
    <3>8. CASE k = l
      <4> HIDE DEF e, O
      <4> QED
        BY <3>1, <3>5, <3>8
    <3>9. CASE k > l
      <4>1. l = k - 1 \/ l < k - 1
        BY <3>9
      <4>2. l < k - 1 => e[l] < e[k - 1]
        BY <1>3, <3>2, <3>6
      <4> HIDE DEF e, O
      <4> QED
        BY <3>1, <3>5, <3>6, <4>1, <4>2
    <3> QED
      BY <3>7, <3>8, <3>9
  <2> QED
    BY <2>2, <2>3 DEF Contiguous
<1> QED
  BY <1>4, <1>5

\* g has the sums of the sizes that s lists, one member after the other.
AddsUp(g, T, s) ==
    /\ g \in [0..Len(s) -> Nat] /\ g[0] = 0
    /\ \A n \in 1..Len(s) : g[n] = g[n - 1] + T[s[n]].size

\* EXPECTED_SIZE_OF_MEMBERS adds one member after the other.
LEMMA ExpectedAdds ==
    ASSUME NEW T \in StructsOf, NEW s \in Seq(1..Len(T))
    PROVE  \E g : AddsUp(g, T, s) /\ EXPECTED_SIZE_OF_MEMBERS(T, s) = g[Len(s)]
<1> DEFINE X == Nat
           m == Len(s)
           first == 0
           Is(g) == g = [n \in 0..m |-> IF n = 0 THEN first ELSE g[n - 1] + T[s[n]].size]
           w == CHOOSE g : Is(g)
           G == [x \in (1..m) \X X |-> x[2] + T[s[x[1]]].size]
<1>1. m \in Nat /\ \A n \in 1..m : T[s[n]].size \in Nat
  <2>1. m \in Nat /\ T \in Seq(MembersOf)
    BY DEF StructsOf
  <2>2. ASSUME NEW n \in 1..m
        PROVE  T[s[n]].size \in Nat
    <3> DEFINE k == s[n]
    <3>1. k \in 1..Len(T)
      BY ElementOfSeq
    <3> HIDE DEF k
    <3>2. T[k].size \in Nat
      BY <2>1, <3>1, MemberIs
    <3> QED
      BY <3>2 DEF k
  <2> QED
    BY <2>1, <2>2
<1>2. first \in X
  OBVIOUS
<1>3. \A v \in X, c \in Nat : v + c \in X
  OBVIOUS
<1>4. EXPECTED_SIZE_OF_MEMBERS(T, s) = w[Len(s)]
  BY DEF EXPECTED_SIZE_OF_MEMBERS
<1> HIDE DEF X, m, w, first
<1>5. ASSUME NEW n \in 1..m, NEW v \in X
      PROVE  G[<<n, v>>] = v + T[s[n]].size
  <2>1. <<n, v>> \in (1..m) \X X
    OBVIOUS
  <2> QED
    BY <2>1
<1>6. G \in [(1..m) \X X -> X]
  <2>1. ASSUME NEW x \in (1..m) \X X
        PROVE  x[2] + T[s[x[1]]].size \in X
    BY <1>1, <1>3
  <2> QED
    BY <2>1
<1> HIDE DEF G
<1>7. PICK g \in [0..m -> X] : RecursFrom(g, m, first, G)
  BY <1>1, <1>2, <1>6, IndexedRecursionExists
<1>8. Is(g)
  <2>1. g[0] = first
    BY <1>7 DEF RecursFrom
  <2>2. ASSUME NEW n \in 1..m
        PROVE  g[n] = g[n - 1] + T[s[n]].size
    <3>1. n - 1 \in 0..m
      BY <1>1
    <3>2. g[n - 1] \in X
      BY <1>7, <3>1
    <3> QED
      BY <1>5, <1>7, <3>2 DEF RecursFrom
  <2>3. ASSUME NEW n \in 0..m
        PROVE  g[n] = IF n = 0 THEN first ELSE g[n - 1] + T[s[n]].size
    <3>1. n = 0 \/ n \in 1..m
      BY <1>1
    <3>2. n \in 1..m => n # 0
      BY <1>1
    <3> QED
      BY <2>1, <2>2, <3>1, <3>2, Zenon
  <2> QED
    BY <1>7, <2>3
<1>9. Is(w)
  BY <1>8 DEF w
<1>10. w[0] = first /\ \A n \in 1..m : w[n] = w[n - 1] + T[s[n]].size
  BY <1>1, <1>9
<1>11. \A n \in 0..m : w[n] \in X
  <2> DEFINE P == {n \in Nat : n <= m => w[n] \in X}
  <2>1. 0 \in P
    BY <1>2, <1>10
  <2>2. ASSUME NEW n \in Nat, n \in P
        PROVE  n + 1 \in P
    <3> SUFFICES ASSUME n + 1 <= m
                 PROVE  w[n + 1] \in X
      OBVIOUS
    <3> DEFINE k == n + 1
    <3>4. k \in 1..m /\ k - 1 = n
      BY <1>1
    <3>5. w[n] \in X
      <4>1. n <= m
        BY <1>1
      <4> QED
        BY <2>2, <4>1
    <3>1. k \in 1..m /\ k - 1 = n /\ w[n] \in X
      BY <3>4, <3>5
    <3> HIDE DEF k
    <3>2. w[k] = w[n] + T[s[k]].size /\ T[s[k]].size \in Nat
      BY <1>1, <1>10, <3>1
    <3> QED
      BY <1>3, <3>1, <3>2 DEF k
  <2>3. Nat \subseteq P
    <3> HIDE DEF P
    <3> QED
      BY <2>1, <2>2, NatInductive
  <2> QED
    BY <1>1, <2>3
<1>12. w \in [0..m -> X]
  BY <1>9, <1>11
<1> QED
  BY <1>4, <1>10, <1>12 DEF X, m, first, AddsUp

\* Members listed one after the other that leave no gap are neighbours, and
\* their sizes add up to where they are.
LEMMA ListedNeighbours ==
    ASSUME NEW T \in StructsOf, NEW s \in Seq(1..Len(T)), s # <<>>,
           VERIFY_NO_INTERNAL_PADDING(T, s), NEW i \in 1..Len(s)
    PROVE  /\ s[i] = s[1] + i - 1
           /\ \A g : AddsUp(g, T, s) => g[i] = Ends(T)[s[i]] - MemberOffset(T, s[1])
<1> DEFINE e == Ends(T)
           O(k) == MemberOffset(T, k)
           n == Len(T)
           m == Len(s)
           R(j) == /\ s[j] = s[1] + j - 1
                   /\ \A g : AddsUp(g, T, s) => g[j] = e[s[j]] - O(s[1])
           P == {j \in Nat : 1 <= j /\ j <= m => R(j)}
<1>0. m \in Nat \ {0} /\ \A j \in 1..m : s[j] \in 1..n
  OBVIOUS
<1>1. ASSUME NEW k \in 1..n
      PROVE  /\ O(k) \in Nat /\ END_OF_MEMBER(T, k) = e[k]
             /\ e[k] = O(k) + T[k].size /\ T[k].size \in Nat \ {0} /\ e[k] \in Nat
  BY MembersFollow
<1>2. 0 \in P
  OBVIOUS
<1>3. ASSUME NEW j \in Nat, j \in P
      PROVE  j + 1 \in P
  <2> SUFFICES ASSUME j + 1 <= m
               PROVE  R(j + 1)
    BY <1>0
  <2>1. CASE j = 0
    <3> DEFINE h == 1
               x == s[h]
    <3>1. h \in 1..m /\ h - 1 = 0 /\ x = x + h - 1 /\ x \in 1..n
      BY <1>0
    <3>2. ASSUME NEW g, AddsUp(g, T, s)
          PROVE  g[h] = e[x] - O(x)
      <4>1. g[h] = 0 + T[x].size
        BY <3>1, <3>2 DEF AddsUp
      <4>2. O(x) \in Nat /\ e[x] = O(x) + T[x].size /\ T[x].size \in Nat
        BY <1>1, <3>1
      <4> HIDE DEF e, O, x
      <4> QED
        BY <4>1, <4>2
    <3> HIDE DEF O, e
    <3>3. R(h)
      BY <3>1, <3>2
    <3> QED
      BY <2>1, <3>3
  <2>2. CASE j # 0
    <3> DEFINE h == j + 1
               x == s[j]
               y == s[h]
    <3>1. j \in 1..m /\ h \in 1..m /\ j \in 1..m - 1 /\ h - 1 = j
      BY <1>0, <2>2
    <3>2. R(j)
      BY <1>3, <3>1
    <3>3. x \in 1..n /\ y \in 1..n
      BY <1>0, <3>1
    <3>4. O(y) = e[x]
      <4>1. MemberOffset(T, s[j + 1]) = END_OF_MEMBER(T, s[j])
        BY <3>1 DEF VERIFY_NO_INTERNAL_PADDING
      <4>2. END_OF_MEMBER(T, x) = e[x]
        BY <1>1, <3>3
      <4> QED
        BY <4>1, <4>2
    <3>5. y = x + 1
      <4> HIDE DEF x, y
      <4> QED
        BY <3>3, <3>4, NextMember
    <3>6. x = s[1] + j - 1 /\ s[1] \in 1..n
      BY <1>0, <3>2
    <3>7. y = s[1] + h - 1
      <4> HIDE DEF x, y
      <4> QED
        BY <3>1, <3>3, <3>5, <3>6
    <3>8. ASSUME NEW g, AddsUp(g, T, s)
          PROVE  g[h] = e[y] - O(s[1])
      <4>1. g[h] = g[j] + T[y].size
        <5> HIDE DEF h
        <5> QED
          BY <3>1, <3>8 DEF AddsUp
      <4>2. g[j] = e[x] - O(s[1])
        BY <3>2, <3>8
      <4>3. e[y] = O(y) + T[y].size /\ T[y].size \in Nat /\ O(y) \in Nat
        BY <1>1, <3>3
      <4>4. O(s[1]) \in Nat
        BY <1>1, <3>6
      <4> HIDE DEF e, O, x, y
      <4> QED
        BY <3>4, <4>1, <4>2, <4>3, <4>4
    <3> HIDE DEF O, e
    <3>9. R(h)
      BY <3>7, <3>8
    <3> QED
      BY <3>9
  <2> QED
    BY <2>1, <2>2
<1>4. Nat \subseteq P
  <2> HIDE DEF P
  <2> QED
    BY <1>2, <1>3, NatInductive
<1>5. i \in Nat /\ 1 <= i /\ i <= m
  OBVIOUS
<1>6. i \in P
  <2> HIDE DEF P
  <2> QED
    BY <1>4, <1>5
<1> HIDE DEF R
<1>7. R(i)
  BY <1>5, <1>6
<1> QED
  BY <1>7 DEF R

\* The list of all the members.
AllOf(T) == [k \in DOMAIN T |-> k]

\* It has as many entries as the structure has members, each its own.
LEMMA AllOfIs ==
    ASSUME NEW T \in StructsOf
    PROVE  /\ AllOf(T) \in Seq(1..Len(T)) /\ Len(AllOf(T)) = Len(T)
           /\ \A k \in 1..Len(T) : AllOf(T)[k] = k
<1> DEFINE n == Len(T)
<1>1. n \in Nat /\ DOMAIN T = 1..n
  BY DEF StructsOf
<1> HIDE DEF n
<1>2. AllOf(T) = [k \in 1..n |-> k]
  BY <1>1 DEF AllOf
<1>3. AllOf(T) \in [1..n -> 1..n]
  BY <1>2
<1>4. AllOf(T) \in Seq(1..n) /\ Len(AllOf(T)) = n
  BY <1>1, <1>3
<1> QED
  BY <1>2, <1>4 DEF n

\* The members side by side, listed.
LEMMA AllSideBySide ==
    ASSUME NEW T \in StructsOf
    PROVE  VERIFY_NO_INTERNAL_PADDING(T, AllOf(T)) <=>
             \A k \in 1..Len(T) : MemberOffset(T, k) = Ends(T)[k - 1]
<1> DEFINE n == Len(T)
           s == AllOf(T)
<1>0. n \in Nat \ {0}
  BY DEF StructsOf
<1>1. Len(s) = n /\ \A k \in 1..n : s[k] = k
  BY AllOfIs
<1>2. \A k \in 1..n : END_OF_MEMBER(T, k) = Ends(T)[k]
  BY MembersFollow
<1>3. MemberOffset(T, 1) = Ends(T)[0]
  <2>1. 1 \in 1..Len(T) /\ T[1].align \in Nat \ {0} /\ T \in Seq(MembersOf)
    <3>1. T \in Seq(MembersOf) /\ 1 \in 1..Len(T)
      BY DEF StructsOf
    <3> QED
      BY <3>1, MemberIs
  <2>2. Ends(T)[0] = 0
    BY <2>1, EndsAreAt DEF EndsAt
  <2> DEFINE z == 0
             a == T[1].align
  <2>3. z \in Nat /\ a \in Nat \ {0} /\ z = a * z + z /\ z \in 0..a - 1
    BY <2>1
  <2> HIDE DEF z, a
  <2>4. z % a = z
    BY <2>3, QuotientUnique
  <2>5. RoundUp(z, a) = z
    <3>1. RoundUp(z, a) = z <=> z % a = 0
      BY <2>3, RoundUpIs
    <3> QED
      BY <2>4, <3>1 DEF z
  <2> QED
    BY <2>2, <2>5 DEF MemberOffset, z, a
<1>4. VERIFY_NO_INTERNAL_PADDING(T, s) <=>
         \A i \in 1..n - 1 : MemberOffset(T, i + 1) = Ends(T)[i]
  <2>1. \A i \in 1..n - 1 : i \in 1..n /\ i + 1 \in 1..n
    BY <1>0
  <2>2. \A i \in 1..n - 1 : s[i + 1] = i + 1 /\ s[i] = i /\ END_OF_MEMBER(T, i) = Ends(T)[i]
    BY <1>1, <1>2, <2>1
  <2> HIDE DEF s
  <2> QED
    BY <1>1, <2>2 DEF VERIFY_NO_INTERNAL_PADDING
<1>5. ASSUME \A i \in 1..n - 1 : MemberOffset(T, i + 1) = Ends(T)[i], NEW k \in 1..n
      PROVE  MemberOffset(T, k) = Ends(T)[k - 1]
  <2>1. CASE k = 1
    BY <1>3, <2>1
  <2>2. CASE k # 1
    <3>1. k - 1 \in 1..n - 1 /\ (k - 1) + 1 = k
      BY <1>0, <2>2
    <3>2. MemberOffset(T, (k - 1) + 1) = Ends(T)[k - 1]
      BY <1>5, <3>1
    <3> QED
      BY <3>1, <3>2
  <2> QED
    BY <2>1, <2>2
<1>6. ASSUME \A k \in 1..n : MemberOffset(T, k) = Ends(T)[k - 1], NEW i \in 1..n - 1
      PROVE  MemberOffset(T, i + 1) = Ends(T)[i]
  <2>1. i + 1 \in 1..n /\ (i + 1) - 1 = i
    BY <1>0
  <2>2. MemberOffset(T, i + 1) = Ends(T)[(i + 1) - 1]
    BY <1>6, <2>1
  <2> QED
    BY <2>1, <2>2
<1> QED
  BY <1>4, <1>5, <1>6

\* A list that the checks accept has all the members, in order.
LEMMA AcceptedIsAll ==
    ASSUME NEW T \in StructsOf, NEW s \in Seq(1..Len(T)), s # <<>>, LayoutChecks(T, s)
    PROVE  s = AllOf(T) /\ NoPadding(T)
<1> DEFINE e == Ends(T)
           n == Len(T)
           m == Len(s)
           a == s[1]
           b == s[m]
           o == MemberOffset(T, a)
<1>1. m \in Nat \ {0} /\ n \in Nat \ {0} /\ 1 \in 1..m /\ m \in 1..m /\ a \in 1..n /\ b \in 1..n
      /\ \A i \in 1..m : s[i] \in 1..n
  BY DEF StructsOf
<1>2. sizeof(T) = EXPECTED_SIZE_OF_MEMBERS(T, s) /\ VERIFY_NO_INTERNAL_PADDING(T, s)
  BY DEF LayoutChecks
<1>3. PICK g : AddsUp(g, T, s) /\ EXPECTED_SIZE_OF_MEMBERS(T, s) = g[m]
  BY ExpectedAdds
<1>4. \A i \in 1..m : s[i] = a + i - 1
  BY <1>2, ListedNeighbours
<1>5. g[m] = e[b] - o
  BY <1>1, <1>2, <1>3, ListedNeighbours
<1>6. sizeof(T) \in Nat /\ sizeof(T) >= e[n] /\ e[n] \in Nat
  BY SizeIs
<1>7. o \in Nat /\ e[a - 1] \in Nat /\ o >= e[a - 1]
  <2> HIDE DEF a, n
  <2> QED
    BY <1>1, MembersFollow DEF n
<1>8. e[b] \in Nat
  <2> HIDE DEF b, n
  <2> QED
    BY <1>1, MembersFollow DEF n
<1>9. b = n
  <2>1. b \in 0..n /\ n \in 0..n /\ (b < n \/ b = n)
    BY <1>1
  <2>2. b < n => e[b] < e[n]
    BY <2>1, EndsGrow
  <2>3. e[b] - o >= e[n]
    BY <1>2, <1>3, <1>5, <1>6
  <2> HIDE DEF b, n, e, o
  <2> QED
    BY <1>6, <1>7, <1>8, <2>1, <2>2, <2>3
<1>10. o = 0 /\ sizeof(T) = e[n]
  <2>1. e[b] - o >= e[n] /\ e[b] = e[n] /\ sizeof(T) = e[b] - o
    BY <1>2, <1>3, <1>5, <1>6, <1>9
  <2> HIDE DEF e, o, b, n
  <2> QED
    BY <1>6, <1>7, <1>8, <2>1
<1>11. a = 1
  <2>1. T \in Seq(MembersOf)
    BY DEF StructsOf
  <2>2. e[0] = 0
    BY <2>1, EndsAreAt DEF EndsAt
  <2> DEFINE z == 0
             h == a - 1
  <2>3. z \in 0..n /\ h \in 0..n /\ (z < h \/ h = 0)
    BY <1>1
  <2>4. z < h => e[z] < e[h]
    <3> HIDE DEF z, h
    <3> QED
      BY <2>3, EndsGrow
  <2> HIDE DEF e, o, n, a
  <2>5. h = 0
    BY <1>7, <1>10, <2>2, <2>3, <2>4
  <2> QED
    BY <1>1, <2>5
<1>12. m = n
  <2>1. b = a + m - 1
    BY <1>1, <1>4
  <2> HIDE DEF a, b, m, n
  <2> QED
    BY <1>1, <1>9, <1>11, <2>1
<1>13. \A i \in 1..m : s[i] = i
  <2> HIDE DEF a
  <2>1. a = 1
    BY <1>11
  <2> QED
    BY <1>4, <2>1
<1>14. s = AllOf(T)
  <2> DEFINE t == AllOf(T)
  <2>1. t \in Seq(1..n) /\ Len(t) = n /\ \A k \in 1..n : t[k] = k
    BY AllOfIs
  <2> HIDE DEF t, m, n
  <2>2. ASSUME NEW k \in 1..m
        PROVE  s[k] = t[k]
    <3>1. s[k] = k
      BY <1>13
    <3>2. t[k] = k
      BY <1>12, <2>1
    <3> QED
      BY <3>1, <3>2
  <2>3. s = t
    <3> USE DEF m, n
    <3> QED
      BY <1>12, <2>1, <2>2, SeqEqual
  <2> QED
    BY <2>3 DEF t
<1>15. Contiguous(T)
  <2>1. VERIFY_NO_INTERNAL_PADDING(T, AllOf(T))
    BY <1>2, <1>14
  <2>2. \A k \in 1..Len(T) : MemberOffset(T, k) = Ends(T)[k - 1]
    BY <2>1, AllSideBySide
  <2> QED
    BY <1>10, <2>2 DEF Contiguous
<1> QED
  BY <1>14, <1>15, NoPaddingIs

\* A struct without padding passes, if all its members are listed.
LEMMA AllAccepted ==
    ASSUME NEW T \in StructsOf, NoPadding(T)
    PROVE  LayoutChecks(T, AllOf(T))
<1> DEFINE e == Ends(T)
           n == Len(T)
           s == AllOf(T)
           o == MemberOffset(T, s[1])
<1>1. n \in Nat \ {0} /\ s \in Seq(1..n) /\ Len(s) = n /\ s[1] = 1 /\ s[n] = n /\ n \in 1..n
      /\ 1 \in 1..n
  <2>1. n \in Nat \ {0} /\ n \in 1..n /\ 1 \in 1..n
    BY DEF StructsOf
  <2>2. s \in Seq(1..n) /\ Len(s) = n /\ \A k \in 1..n : s[k] = k
    BY AllOfIs
  <2> QED
    BY <2>1, <2>2
<1>2. Contiguous(T)
  BY NoPaddingIs
<1>3. VERIFY_NO_INTERNAL_PADDING(T, s)
  BY <1>2, AllSideBySide DEF Contiguous
<1>4. o = 0
  <2>1. T \in Seq(MembersOf)
    BY DEF StructsOf
  <2>2. e[0] = 0
    BY <2>1, EndsAreAt DEF EndsAt
  <2>3. MemberOffset(T, 1) = e[1 - 1]
    BY <1>1, <1>2 DEF Contiguous
  <2> QED
    BY <1>1, <2>2, <2>3
<1>5. PICK g : AddsUp(g, T, s) /\ EXPECTED_SIZE_OF_MEMBERS(T, s) = g[Len(s)]
  BY <1>1, ExpectedAdds
<1>6. g[n] = e[n] - o
  <2> HIDE DEF s
  <2>1. s # <<>>
    BY <1>1
  <2> QED
    BY <1>1, <1>3, <1>5, <2>1, ListedNeighbours
<1>7. sizeof(T) = e[n] /\ e[n] \in Nat
  BY <1>2, SizeIs DEF Contiguous
<1>8. sizeof(T) = EXPECTED_SIZE_OF_MEMBERS(T, s)
  <2> HIDE DEF e, n, o, s
  <2> QED
    BY <1>1, <1>4, <1>5, <1>6, <1>7
<1>9. ASSERT_NO_TAIL_PADDING(T, s)
  <2>1. TAIL_PAD_ONLY_N(T, n) = 0
    BY <1>7, TailIs
  <2> HIDE DEF s
  <2> QED
    BY <1>1, <2>1 DEF ASSERT_NO_TAIL_PADDING
<1> QED
  BY <1>3, <1>8, <1>9 DEF LayoutChecks

\* What the dump of all members reports.
LEMMA DumpIs ==
    ASSUME NEW T \in StructsOf
    PROVE  Dumped(T, AllOf(T)) = [internal |-> {}, tail |-> FALSE] <=> NoPadding(T)
<1> DEFINE e == Ends(T)
           n == Len(T)
           s == AllOf(T)
           in == {i \in 1..Len(s) - 1 : MemberOffset(T, s[i + 1]) # END_OF_MEMBER(T, s[i])}
           p == TAIL_PAD_ONLY_N(T, s[Len(s)])
           d == sizeof(T) - END_OF_MEMBER(T, s[Len(s)])
           tl == p > 0 \/ d > 0
<1>1. n \in Nat \ {0} /\ s \in Seq(1..n) /\ Len(s) = n /\ s[n] = n /\ n \in 1..n
  <2>1. n \in Nat \ {0} /\ n \in 1..n
    BY DEF StructsOf
  <2>2. s \in Seq(1..n) /\ Len(s) = n /\ \A k \in 1..n : s[k] = k
    BY AllOfIs
  <2> QED
    BY <2>1, <2>2
<1>2. Dumped(T, s) = [internal |-> in, tail |-> tl]
  BY DEF Dumped
<1>3. in = {} <=> VERIFY_NO_INTERNAL_PADDING(T, s)
  BY DEF VERIFY_NO_INTERNAL_PADDING
<1>4. /\ sizeof(T) \in Nat /\ sizeof(T) >= e[n] /\ e[n] \in Nat
      /\ p \in Nat /\ (p = 0 <=> sizeof(T) = e[n])
  <2> HIDE DEF s
  <2>1. s[Len(s)] = n
    BY <1>1
  <2> QED
    BY <2>1, SizeIs, TailIs
<1>5. END_OF_MEMBER(T, s[Len(s)]) = e[n]
  <2>1. END_OF_MEMBER(T, n) = Ends(T)[n]
    <3> HIDE DEF n
    <3> QED
      BY <1>1, MembersFollow DEF n
  <2> HIDE DEF s
  <2> QED
    BY <1>1, <2>1
<1> HIDE DEF p
<1>6. ~tl <=> sizeof(T) = e[n]
  <2> HIDE DEF e, n, s
  <2> QED
    BY <1>4, <1>5
<1> HIDE DEF in, tl
<1>7. [internal |-> in, tail |-> tl] = [internal |-> {}, tail |-> FALSE]
         <=> in = {} /\ tl = FALSE
  OBVIOUS
<1>8. tl \in BOOLEAN
  BY DEF tl
<1>9. Contiguous(T) <=> in = {} /\ ~tl
  BY <1>3, <1>6, AllSideBySide DEF Contiguous
<1> QED
  BY <1>2, <1>7, <1>8, <1>9, NoPaddingIs

\* For structs of any number of members of any size and alignment, and any
\* list of members: the checks of sizes and offsets accept just the list of
\* all the members, in order, of a struct in which no byte is padding, and
\* the dump says so too; VERIFY_DATA_STRUCT refuses floating members besides.
THEOREM PaddingFound ==
    ASSUME NEW T \in StructsOf, NEW args \in Seq(DOMAIN T), args # <<>>
    PROVE  VerifyExact(T, args)
<1> DEFINE F == \A k \in DOMAIN T : ~T[k].floating
<1>1. DOMAIN T = 1..Len(T)
  BY DEF StructsOf
<1>2. args \in Seq(1..Len(T))
  BY <1>1
<1>3. LayoutChecks(T, args) <=> args = AllOf(T) /\ NoPadding(T)
  BY <1>2, AcceptedIsAll, AllAccepted
<1>4. LayoutChecks(T, args) \in BOOLEAN /\ NoPadding(T) \in BOOLEAN /\ F \in BOOLEAN
  BY DEF LayoutChecks, NoPadding, VERIFY_NO_INTERNAL_PADDING, ASSERT_NO_TAIL_PADDING
<1>5. Dumped(T, AllOf(T)) = [internal |-> {}, tail |-> FALSE] <=> NoPadding(T)
  BY DumpIs
<1>6. VERIFY_DATA_STRUCT(T, args) = (LayoutChecks(T, args) /\ NoPadding(T) /\ F)
  BY Zenon DEF VERIFY_DATA_STRUCT, has_unique_object_representations
<1> HIDE DEF F
<1>7. LayoutChecks(T, args) = (args = AllOf(T) /\ NoPadding(T))
  BY <1>3, <1>4
<1>8. VERIFY_DATA_STRUCT(T, args) = ((args = AllOf(T) /\ NoPadding(T)) /\ F)
  BY <1>4, <1>6, <1>7
<1>9. args = AllOf(T) =>
        (Dumped(T, args) = [internal |-> {}, tail |-> FALSE]) = NoPadding(T)
  BY <1>4, <1>5
<1> QED
  BY <1>7, <1>8, <1>9, Zenon DEF VerifyExact, AllOf, F

-----------------------------------------------------------------------------
(***************************************************************************)
(* Numbers in a byte order.                                                *)
(***************************************************************************)

\* The powers are what they are called.
PowersAre == /\ Powers \in [0..Width -> Nat \ {0}] /\ Powers[0] = 1
             /\ \A n \in 1..Width : Powers[n] = Base * Powers[n - 1]

\* The table of powers satisfies its recursion.
LEMMA PowersGrow == PowersAre
<1> DEFINE m == Width
           B == Base
           X == Nat \ {0}
           first == 1
           Is(g) == g = [n \in 0..m |-> IF n = 0 THEN first ELSE B * g[n - 1]]
           w == Powers
           G == [x \in (1..m) \X X |-> B * x[2]]
<1>1. m \in Nat /\ B \in Nat \ {0}
  BY WireAssumption
<1>2. first \in X
  OBVIOUS
<1> HIDE DEF B
<1>3. \A v \in X : B * v \in X
  BY <1>1
<1>4. w = CHOOSE g : Is(g)
  BY DEF Powers, B
<1> HIDE DEF X, m, w, first
<1>5. ASSUME NEW n \in 1..m, NEW v \in X
      PROVE  G[<<n, v>>] = B * v
  <2>1. <<n, v>> \in (1..m) \X X
    OBVIOUS
  <2> QED
    BY <2>1
<1>6. G \in [(1..m) \X X -> X]
  <2>1. ASSUME NEW x \in (1..m) \X X
        PROVE  B * x[2] \in X
    BY <1>1, <1>3
  <2> QED
    BY <2>1
<1> HIDE DEF G
<1>7. PICK g \in [0..m -> X] : RecursFrom(g, m, first, G)
  BY <1>1, <1>2, <1>6, IndexedRecursionExists
<1>8. Is(g)
  <2>1. g[0] = first
    BY <1>7 DEF RecursFrom
  <2>2. ASSUME NEW n \in 1..m
        PROVE  g[n] = B * g[n - 1]
    <3>1. n - 1 \in 0..m
      BY <1>1
    <3>2. g[n - 1] \in X
      BY <1>7, <3>1
    <3> QED
      BY <1>5, <1>7, <3>2 DEF RecursFrom
  <2>3. ASSUME NEW n \in 0..m
        PROVE  g[n] = IF n = 0 THEN first ELSE B * g[n - 1]
    <3>1. n = 0 \/ n \in 1..m
      BY <1>1
    <3>2. n \in 1..m => n # 0
      BY <1>1
    <3> QED
      BY <2>1, <2>2, <3>1, <3>2, Zenon
  <2> QED
    BY <1>7, <2>3
<1>9. Is(w)
  BY <1>4, <1>8
<1>10. w[0] = first /\ \A n \in 1..m : w[n] = B * w[n - 1]
  BY <1>1, <1>9
<1>11. \A n \in 0..m : w[n] \in X
  <2> DEFINE P == {n \in Nat : n <= m => w[n] \in X}
  <2>1. 0 \in P
    BY <1>2, <1>10
  <2>2. ASSUME NEW n \in Nat, n \in P
        PROVE  n + 1 \in P
    <3> SUFFICES ASSUME n + 1 <= m
                 PROVE  w[n + 1] \in X
      OBVIOUS
    <3> DEFINE k == n + 1
    <3>1. k \in 1..m /\ k - 1 = n /\ w[n] \in X
      BY <1>1, <2>2
    <3> HIDE DEF k
    <3>2. w[k] = B * w[n]
      BY <1>1, <1>10, <3>1
    <3> QED
      BY <1>3, <3>1, <3>2 DEF k
  <2>3. Nat \subseteq P
    <3> HIDE DEF P
    <3> QED
      BY <2>1, <2>2, NatInductive
  <2> QED
    BY <1>1, <2>3
<1>12. w \in [0..m -> X]
  BY <1>9, <1>11
<1> QED
  BY <1>10, <1>12 DEF X, m, first, w, PowersAre, B

\* Dividing by a product.
LEMMA DivideTwice ==
    ASSUME NEW v \in Nat, NEW a \in Nat \ {0}, NEW b \in Nat \ {0}
    PROVE  v \div (b * a) = (v \div a) \div b
<1> DEFINE q == v \div a
           r == v % a
           q2 == q \div b
           r2 == q % b
           c == b * a
           x == a * r2
           t == x + r
<1>1. v = a * q + r /\ r \in 0..a - 1 /\ q \in Nat
  BY Quotient
<1>2. q = b * q2 + r2 /\ r2 \in 0..b - 1 /\ q2 \in Nat
  <2> HIDE DEF q
  <2> QED
    BY <1>1, Quotient
<1> HIDE DEF q, r, q2, r2
<1>3. c \in Nat \ {0}
  OBVIOUS
<1>4. a * q = c * q2 + x /\ x \in Nat
  BY <1>2
<1>5. x <= a * (b - 1) /\ a * (b - 1) = c - a
  BY <1>2
<1> HIDE DEF x, c
<1>6. t \in 0..c - 1 /\ v = c * q2 + t
  BY <1>1, <1>2, <1>3, <1>4, <1>5
<1> HIDE DEF t
<1>7. v \div c = q2
  BY <1>2, <1>3, <1>6, QuotientUnique
<1> QED
  BY <1>7 DEF c, q2, q

\* What is left of v without its first i bytes.
Left(v, i) == v \div Powers[i]

\* One byte after the other.
LEMMA LeftIs ==
    ASSUME NEW v \in Nat
    PROVE  /\ Left(v, 0) = v
           /\ \A i \in 0..Width : Left(v, i) \in Nat
           /\ \A i \in 1..Width : /\ Left(v, i) = Left(v, i - 1) \div Base
                                  /\ Byte(v, i) = Left(v, i - 1) % Base
                                  /\ Left(v, i - 1) = Base * Left(v, i) + Byte(v, i)
                                  /\ Byte(v, i) \in 0..Base - 1
<1>0. Base \in Nat \ {0} /\ Width \in Nat
  BY WireAssumption
<1>1. /\ Powers \in [0..Width -> Nat \ {0}] /\ Powers[0] = 1
      /\ \A n \in 1..Width : Powers[n] = Base * Powers[n - 1]
  BY PowersGrow DEF PowersAre
<1>2. Left(v, 0) = v
  BY <1>1 DEF Left
<1>3. ASSUME NEW i \in 0..Width
      PROVE  Left(v, i) \in Nat
  <2> DEFINE a == Powers[i]
  <2>1. a \in Nat \ {0}
    BY <1>1
  <2> HIDE DEF a
  <2>2. v \div a \in Nat
    BY <2>1, Quotient
  <2> QED
    BY <2>2 DEF a, Left
<1>4. ASSUME NEW i \in 1..Width
      PROVE  /\ Left(v, i) = Left(v, i - 1) \div Base
             /\ Byte(v, i) = Left(v, i - 1) % Base
             /\ Left(v, i - 1) = Base * Left(v, i) + Byte(v, i)
             /\ Byte(v, i) \in 0..Base - 1
  <2> DEFINE a == Powers[i - 1]
             l == Left(v, i - 1)
             b == Base
  <2>1. i - 1 \in 0..Width
    BY <1>0
  <2>2. a \in Nat \ {0} /\ Powers[i] = b * a
    BY <1>1, <2>1
  <2>3. l \in Nat
    BY <1>3, <2>1
  <2>4. v \div (b * a) = (v \div a) \div b
    <3> HIDE DEF a, b
    <3>1. b \in Nat \ {0}
      BY <1>0 DEF b
    <3> QED
      BY <2>2, <3>1, DivideTwice
  <2>5. Left(v, i) = l \div b
    BY <2>2, <2>4 DEF Left
  <2>6. Byte(v, i) = l % b
    BY DEF Byte, Left
  <2> HIDE DEF l, b
  <2>7. b \in Nat \ {0}
    BY <1>0 DEF b
  <2>8. l = b * (l \div b) + (l % b) /\ l % b \in 0..b - 1
    BY <2>3, <2>7, Quotient
  <2> QED
    BY <2>5, <2>6, <2>8 DEF l, b
<1> QED
  BY <1>2, <1>3, <1>4

\* Nothing is left of a value behind its bytes.
LEMMA NothingLeft ==
    ASSUME NEW v \in Nat
    PROVE  Left(v, Width) = 0 <=> v \in WireValues
<1> DEFINE P == Powers[Width]
           q == v \div P
           r == v % P
           x == P * q
<1>1. P \in Nat \ {0}
  <2>1. Width \in 0..Width
    BY WireAssumption
  <2> QED
    BY <2>1, PowersGrow DEF PowersAre
<1>2. Left(v, Width) = q /\ WireValues = 0..P - 1
  BY DEF Left, WireValues
<1> HIDE DEF P
<1>3. v = P * q + r /\ r \in 0..P - 1 /\ q \in Nat
  BY <1>1, Quotient
<1> HIDE DEF q, r
<1>4. q = 0 => x = 0
  BY <1>1
<1>5. q # 0 => x >= P
  BY <1>1, <1>3
<1>6. x \in Nat /\ v = x + r
  BY <1>1, <1>3
<1> HIDE DEF x
<1> QED
  BY <1>1, <1>2, <1>3, <1>4, <1>5, <1>6

\* A value has its bytes for itself.
LEMMA BytesTell ==
    ASSUME NEW u \in WireValues, NEW v \in WireValues, \A i \in 1..Width : Byte(u, i) = Byte(v, i)
    PROVE  u = v
<1>0. Width \in Nat /\ u \in Nat /\ v \in Nat /\ Base \in Nat
  BY WireAssumption DEF WireValues
<1> DEFINE P == {n \in Nat : n <= Width => Left(u, Width - n) = Left(v, Width - n)}
<1>1. 0 \in P
  <2>1. Left(u, Width) = 0 /\ Left(v, Width) = 0
    BY <1>0, NothingLeft
  <2>2. Width - 0 = Width
    BY <1>0
  <2> QED
    BY <2>1, <2>2
<1>2. ASSUME NEW n \in Nat, n \in P
      PROVE  n + 1 \in P
  <2> SUFFICES ASSUME n + 1 <= Width
               PROVE  Left(u, Width - (n + 1)) = Left(v, Width - (n + 1))
    OBVIOUS
  <2> DEFINE i == Width - n
  <2>1. i \in 1..Width /\ Width - (n + 1) = i - 1 /\ n <= Width
    BY <1>0
  <2>2. Left(u, i) = Left(v, i)
    BY <1>2, <2>1
  <2> HIDE DEF i
  <2>3. Left(u, i - 1) = Base * Left(u, i) + Byte(u, i)
    BY <1>0, <2>1, LeftIs
  <2>4. Left(v, i - 1) = Base * Left(v, i) + Byte(v, i)
    BY <1>0, <2>1, LeftIs
  <2>5. Byte(u, i) = Byte(v, i)
    BY <2>1
  <2> QED
    BY <2>1, <2>2, <2>3, <2>4, <2>5
<1>3. Nat \subseteq P
  <2> HIDE DEF P
  <2> QED
    BY <1>1, <1>2, NatInductive
<1>4. Left(u, 0) = Left(v, 0)
  <2>1. Width \in P /\ Width <= Width /\ Width - Width = 0
    BY <1>0, <1>3
  <2> QED
    BY <2>1
<1>5. Left(u, 0) = u /\ Left(v, 0) = v
  BY <1>0, LeftIs
<1> QED
  BY <1>4, <1>5

\* Every choice of the bytes is that of a value.
LEMMA BytesMake ==
    ASSUME NEW b \in [1..Width -> 0..Base - 1]
    PROVE  \E v \in WireValues : \A i \in 1..Width : Byte(v, i) = b[i]
<1> DEFINE m == Width
           B == Base
           zero == 0
           G == [x \in (1..m) \X Nat |-> B * x[2] + b[m + 1 - x[1]]]
<1>1. m \in Nat /\ B \in Nat \ {0} /\ zero \in Nat
  BY WireAssumption
<1>2. ASSUME NEW n \in 1..m
      PROVE  m + 1 - n \in 1..m /\ b[m + 1 - n] \in 0..B - 1
  BY <1>1
<1> HIDE DEF B, m, zero
<1>3. ASSUME NEW n \in 1..m, NEW y \in Nat
      PROVE  G[<<n, y>>] = B * y + b[m + 1 - n]
  <2>1. <<n, y>> \in (1..m) \X Nat
    OBVIOUS
  <2> QED
    BY <2>1
<1>4. G \in [(1..m) \X Nat -> Nat]
  <2>1. ASSUME NEW x \in (1..m) \X Nat
        PROVE  B * x[2] + b[m + 1 - x[1]] \in Nat
    <3> DEFINE n == x[1]
               y == x[2]
               d == b[m + 1 - n]
    <3>1. n \in 1..m /\ y \in Nat
      OBVIOUS
    <3> HIDE DEF n, y
    <3>2. d \in 0..B - 1
      BY <1>2, <3>1
    <3> HIDE DEF d
    <3>3. B * y + d \in Nat
      BY <1>1, <3>1, <3>2
    <3> QED
      BY <3>3 DEF n, y, d
  <2> QED
    BY <2>1
<1> HIDE DEF G
<1>5. PICK r \in [0..m -> Nat] : RecursFrom(r, m, zero, G)
  BY <1>1, <1>4, IndexedRecursionExists
<1>6. r[0] = 0
  BY <1>5 DEF RecursFrom, zero
<1>7. ASSUME NEW n \in 1..m
      PROVE  r[n] = B * r[n - 1] + b[m + 1 - n]
  <2>1. n - 1 \in 0..m
    BY <1>1
  <2>2. r[n - 1] \in Nat
    BY <1>5, <2>1
  <2> QED
    BY <1>3, <1>5, <2>2 DEF RecursFrom
<1> DEFINE v == r[m]
<1>8. v \in Nat
  BY <1>1, <1>5
<1> HIDE DEF v
<1>9. ASSUME NEW i \in 1..m, Left(v, i - 1) = r[m - (i - 1)]
      PROVE  Left(v, i) = r[m - i] /\ Byte(v, i) = b[i]
  <2> DEFINE n == m - (i - 1)
             q == r[n - 1]
             d == b[i]
             l == Left(v, i - 1)
  <2>1. n \in 1..m /\ n - 1 = m - i /\ n - 1 \in 0..m /\ m + 1 - n = i
    BY <1>1
  <2>2. l = B * q + d
    BY <1>7, <1>9, <2>1
  <2>3. q \in Nat
    BY <1>5, <2>1
  <2>4. d \in 0..B - 1
    BY <1>2, <2>1
  <2>5. Left(v, i) = l \div B /\ Byte(v, i) = l % B
    BY <1>8, LeftIs DEF m, B
  <2>6. q = r[m - i]
    BY <2>1
  <2> HIDE DEF n, q, d, l
  <2>7. l \in Nat
    BY <1>1, <2>2, <2>3, <2>4
  <2>8. l \div B = q /\ l % B = d
    BY <1>1, <2>2, <2>3, <2>4, <2>7, QuotientUnique
  <2> QED
    BY <2>5, <2>6, <2>8 DEF d
<1>10. \A i \in 0..m : Left(v, i) = r[m - i]
  <2> DEFINE P == {i \in Nat : i <= m => Left(v, i) = r[m - i]}
  <2>1. 0 \in P
    <3>1. m - 0 = m
      BY <1>1
    <3>2. Left(v, 0) = v
      BY <1>8, LeftIs
    <3> QED
      BY <3>1, <3>2 DEF v
  <2>2. ASSUME NEW i \in Nat, i \in P
        PROVE  i + 1 \in P
    <3> SUFFICES ASSUME i + 1 <= m
                 PROVE  Left(v, i + 1) = r[m - (i + 1)]
      OBVIOUS
    <3> DEFINE k == i + 1
    <3>1. k \in 1..m /\ k - 1 = i /\ i <= m
      BY <1>1
    <3>2. Left(v, i) = r[m - i]
      BY <2>2, <3>1
    <3> HIDE DEF k
    <3>3. Left(v, k) = r[m - k]
      BY <1>9, <3>1, <3>2
    <3> QED
      BY <3>3 DEF k
  <2>3. Nat \subseteq P
    <3> HIDE DEF P
    <3> QED
      BY <2>1, <2>2, NatInductive
  <2> QED
    BY <1>1, <2>3
<1>11. v \in WireValues
  <2>1. m \in 0..m /\ m - m = 0
    BY <1>1
  <2>2. Left(v, m) = 0
    BY <1>6, <1>10, <2>1
  <2> QED
    BY <1>8, <2>2, NothingLeft DEF m
<1>12. ASSUME NEW i \in 1..m
       PROVE  Byte(v, i) = b[i]
  <2>1. i - 1 \in 0..m
    BY <1>1
  <2> QED
    BY <1>9, <1>10, <2>1
<1> QED
  BY <1>11, <1>12 DEF m

\* The bytes a host may find in memory.
Images == [1..Width -> 0..Base - 1]

\* Images with the same bytes are the same.
LEMMA SameImage ==
    ASSUME NEW a \in Images, NEW b \in Images, \A i \in 1..Width : a[i] = b[i]
    PROVE  a = b
<1> DEFINE S == 1..Width
           T == 0..Base - 1
<1>1. a \in [S -> T] /\ b \in [S -> T] /\ \A i \in S : a[i] = b[i]
  BY DEF Images
<1> HIDE DEF S, T
<1>2. a = [i \in S |-> a[i]] /\ b = [i \in S |-> b[i]]
  BY <1>1
<1> QED
  BY <1>1, <1>2

\* A byte of an image.
LEMMA ImageBytes ==
    ASSUME NEW v \in WireValues
    PROVE  /\ Image("little", v) \in Images /\ Image("big", v) \in Images
           /\ \A i \in 1..Width : /\ Image("little", v)[i] = Byte(v, i)
                                  /\ Image("big", v)[i] = Byte(v, Width + 1 - i)
<1>0. Width \in Nat /\ v \in Nat
  BY WireAssumption DEF WireValues
<1>1. \A i \in 1..Width : Byte(v, i) \in 0..Base - 1
  BY <1>0, LeftIs
<1>2. \A i \in 1..Width : Width + 1 - i \in 1..Width
  BY <1>0
<1>3. Image("little", v) = [i \in 1..Width |-> Byte(v, i)]
  BY DEF Image
<1>4. Image("big", v) = [i \in 1..Width |-> Byte(v, Width + 1 - i)]
  BY DEF Image
<1> QED
  BY <1>1, <1>2, <1>3, <1>4 DEF Images

\* A host reads what it wrote, and every image is that of a value.
LEMMA ImageIs ==
    ASSUME NEW h \in Hosts
    PROVE  /\ \A v \in WireValues : Image(h, v) \in Images /\ ValueOf(h, Image(h, v)) = v
           /\ \A b \in Images : ValueOf(h, b) \in WireValues /\ Image(h, ValueOf(h, b)) = b
<1>0. Width \in Nat
  BY WireAssumption
<1>h. h = "little" \/ h = "big"
  BY DEF Hosts
<1>1. ASSUME NEW v \in WireValues
      PROVE  Image(h, v) \in Images
  BY <1>h, ImageBytes
<1>2. ASSUME NEW u \in WireValues, NEW v \in WireValues, Image(h, u) = Image(h, v)
      PROVE  u = v
  <2>1. ASSUME NEW i \in 1..Width
        PROVE  Byte(u, i) = Byte(v, i)
    <3>1. CASE h = "little"
      BY <1>2, <3>1, ImageBytes
    <3>2. CASE h = "big"
      <4> DEFINE k == Width + 1 - i
      <4>1. k \in 1..Width /\ Width + 1 - k = i
        BY <1>0
      <4> HIDE DEF k
      <4>2. Image("big", u)[k] = Byte(u, i) /\ Image("big", v)[k] = Byte(v, i)
        BY <4>1, ImageBytes
      <4> QED
        BY <1>2, <3>2, <4>2
    <3> QED
      BY <1>h, <3>1, <3>2
  <2> QED
    BY <2>1, BytesTell
<1>3. ASSUME NEW b \in Images
      PROVE  \E v \in WireValues : Image(h, v) = b
  <2>1. CASE h = "little"
    <3>1. PICK v \in WireValues : \A i \in 1..Width : Byte(v, i) = b[i]
      BY BytesMake DEF Images
    <3>2. Image("little", v) \in Images /\ \A i \in 1..Width : Image("little", v)[i] = b[i]
      BY <3>1, ImageBytes
    <3>3. Image("little", v) = b
      BY <3>2, SameImage
    <3> QED
      BY <2>1, <3>3
  <2>2. CASE h = "big"
    <3> DEFINE c == [i \in 1..Width |-> b[Width + 1 - i]]
    <3>1. c \in [1..Width -> 0..Base - 1]
      <4>1. \A i \in 1..Width : Width + 1 - i \in 1..Width
        BY <1>0
      <4> QED
        BY <4>1 DEF Images
    <3>2. ASSUME NEW i \in 1..Width
          PROVE  Width + 1 - i \in 1..Width /\ c[Width + 1 - i] = b[i]
      <4>1. Width + 1 - i \in 1..Width /\ Width + 1 - (Width + 1 - i) = i
        BY <1>0
      <4> QED
        BY <4>1
    <3> HIDE DEF c
    <3>3. PICK v \in WireValues : \A i \in 1..Width : Byte(v, i) = c[i]
      BY <3>1, BytesMake
    <3>4. Image("big", v) \in Images
      BY ImageBytes
    <3>5. \A i \in 1..Width : Image("big", v)[i] = b[i]
      BY <3>2, <3>3, ImageBytes
    <3>6. Image("big", v) = b
      BY <3>4, <3>5, SameImage
    <3> QED
      BY <2>2, <3>6
  <2> QED
    BY <1>h, <2>1, <2>2
<1>4. ASSUME NEW b \in Images
      PROVE  ValueOf(h, b) \in WireValues /\ Image(h, ValueOf(h, b)) = b
  BY <1>3 DEF ValueOf
<1>5. ASSUME NEW v \in WireValues
      PROVE  ValueOf(h, Image(h, v)) = v
  BY <1>1, <1>2, <1>4
<1> QED
  BY <1>1, <1>4, <1>5

\* byteswap turns one host's image into the other's.
LEMMA SwapIs ==
    ASSUME NEW v \in WireValues
    PROVE  /\ byteswap(v) \in WireValues
           /\ Image("big", byteswap(v)) = Image("little", v)
           /\ Image("little", byteswap(v)) = Image("big", v)
           /\ byteswap(byteswap(v)) = v
<1>0. Width \in Nat /\ "little" \in Hosts /\ "big" \in Hosts
  BY WireAssumption DEF Hosts
<1>1. ASSUME NEW u \in WireValues
      PROVE  byteswap(u) \in WireValues /\ Image("big", byteswap(u)) = Image("little", u)
  <2> DEFINE b == Image("little", u)
             h == "big"
  <2>1. b \in Images
    BY <1>0, ImageIs
  <2>2. ValueOf(h, b) \in WireValues /\ Image(h, ValueOf(h, b)) = b
    <3>1. h \in Hosts
      BY <1>0
    <3> HIDE DEF h, b
    <3> QED
      BY <2>1, <3>1, ImageIs
  <2> QED
    BY <2>2 DEF byteswap
<1>2. ASSUME NEW u \in WireValues
      PROVE  Image("little", byteswap(u)) = Image("big", u)
  <2> DEFINE w == byteswap(u)
  <2>1. w \in WireValues /\ Image("big", w) = Image("little", u)
    BY <1>1
  <2> HIDE DEF w
  <2>2. ASSUME NEW i \in 1..Width
        PROVE  Image("little", w)[i] = Image("big", u)[i]
    <3> DEFINE k == Width + 1 - i
    <3>1. k \in 1..Width /\ Width + 1 - k = i
      BY <1>0
    <3>2. Image("little", w)[i] = Byte(w, i) /\ Image("big", u)[i] = Byte(u, k)
      BY <2>1, ImageBytes
    <3> HIDE DEF k
    <3>3. Image("big", w)[k] = Byte(w, i) /\ Image("little", u)[k] = Byte(u, k)
      BY <2>1, <3>1, ImageBytes
    <3> QED
      BY <2>1, <3>2, <3>3
  <2>3. Image("little", w) \in Images /\ Image("big", u) \in Images
    BY <2>1, ImageBytes
  <2>4. Image("little", w) = Image("big", u)
    BY <2>2, <2>3, SameImage
  <2> QED
    BY <2>4 DEF w
<1>3. byteswap(byteswap(v)) = v
  <2> DEFINE w == byteswap(v)
             x == byteswap(w)
  <2>1. w \in WireValues
    BY <1>1
  <2>2. Image("little", w) = Image("big", v)
    BY <1>2
  <2> HIDE DEF w
  <2>3. x \in WireValues /\ Image("big", x) = Image("little", w)
    BY <1>1, <2>1
  <2> HIDE DEF x
  <2> DEFINE h == "big"
  <2>4. h \in Hosts
    BY <1>0
  <2>5. Image(h, x) = Image(h, v)
    BY <2>2, <2>3
  <2> HIDE DEF h
  <2>6. ValueOf(h, Image(h, x)) = x /\ ValueOf(h, Image(h, v)) = v
    BY <2>3, <2>4, ImageIs
  <2> QED
    BY <2>5, <2>6 DEF x, w
<1> QED
  BY <1>1, <1>2, <1>3

\* encode and decode stay with the values and undo each other, and what is
\* sent in a fixed byte order does not depend on the host.
LEMMA SentIs ==
    ASSUME NEW v \in WireValues, NEW h \in Hosts, NEW E \in Endians
    PROVE  /\ encode(h, E, v) \in WireValues
           /\ decode(h, E, encode(h, E, v)) = v
           /\ E = "LITTLE" => Sent(h, E, v) = Image("little", v)
           /\ E = "BIG" => Sent(h, E, v) = Image("big", v)
           /\ Received(h, E, Sent(h, E, v)) = v
<1> DEFINE w == byteswap(v)
           e == encode(h, E, v)
           b == Image(h, e)
<1>0. h = "little" \/ h = "big"
  BY DEF Hosts
<1>1. /\ w \in WireValues /\ byteswap(w) = v
      /\ Image("big", w) = Image("little", v) /\ Image("little", w) = Image("big", v)
  BY SwapIs
<1>2. e = IF need_swap(h, E) THEN w ELSE v
  BY DEF encode
<1>3. e \in WireValues
  BY <1>1, <1>2
<1>4. decode(h, E, e) = v
  BY <1>1, <1>2 DEF decode
<1>5. E = "LITTLE" => b = Image("little", v)
  BY <1>0, <1>1, <1>2 DEF need_swap
<1>6. E = "BIG" => b = Image("big", v)
  BY <1>0, <1>1, <1>2 DEF need_swap
<1>7. ValueOf(h, b) = e
  <2> HIDE DEF e
  <2> QED
    BY <1>3, ImageIs
<1>8. Sent(h, E, v) = b
  BY DEF Sent
<1>9. Received(h, E, b) = v
  BY <1>4, <1>7 DEF Received
<1> QED
  BY <1>3, <1>4, <1>5, <1>6, <1>8, <1>9

\* Every host receives what any host sends in a fixed byte order; without
\* one the hosts of a kind understand each other, and a host of the other
\* kind finds the bytes turned round (Int and Double of the wire headers,
\* for every number of bytes and every value).
THEOREM ValuesPortable == \A v \in WireValues : WirePortable(v)
<1> SUFFICES ASSUME NEW v \in WireValues, NEW h1 \in Hosts, NEW h2 \in Hosts, NEW E \in Endians
             PROVE  /\ h1 = h2 => Received(h2, E, Sent(h1, E, v)) = v
                    /\ E \in {"LITTLE", "BIG"} =>
                         /\ Received(h2, E, Sent(h1, E, v)) = v
                         /\ Sent(h1, E, v) = Sent(h2, E, v)
                    /\ Received(h2, native(h2), Sent(h1, native(h1), v)) =
                         IF h1 = h2 THEN v ELSE byteswap(v)
  BY DEF WirePortable
<1>1. h1 = h2 => Received(h2, E, Sent(h1, E, v)) = v
  BY SentIs
<1>2. ASSUME E \in {"LITTLE", "BIG"}
      PROVE  Sent(h1, E, v) = Sent(h2, E, v) /\ Received(h2, E, Sent(h1, E, v)) = v
  <2>1. Sent(h1, E, v) = Sent(h2, E, v)
    BY <1>2, SentIs
  <2>2. Received(h2, E, Sent(h2, E, v)) = v
    BY SentIs
  <2> QED
    BY <2>1, <2>2
<1>3. ASSUME NEW h \in Hosts
      PROVE  /\ ~need_swap(h, native(h))
             /\ native(h) \in Endians
  BY DEF need_swap, native, Hosts, Endians
<1>4. Sent(h1, native(h1), v) = Image(h1, v)
  BY <1>3 DEF Sent, encode
<1>5. ASSUME NEW b
      PROVE  Received(h2, native(h2), b) = ValueOf(h2, b)
  BY <1>3 DEF Received, decode
<1>6. ValueOf(h2, Image(h1, v)) = IF h1 = h2 THEN v ELSE byteswap(v)
  <2>1. CASE h1 = h2
    BY <2>1, ImageIs
  <2>2. CASE h1 # h2
    <3> DEFINE w == byteswap(v)
    <3>1. w \in WireValues /\ Image("big", w) = Image("little", v) /\ Image("little", w) = Image("big", v)
      BY SwapIs
    <3> HIDE DEF w
    <3>2. Image(h2, w) = Image(h1, v)
      BY <2>2, <3>1 DEF Hosts
    <3>3. ValueOf(h2, Image(h2, w)) = w
      BY <3>1, ImageIs
    <3> QED
      BY <2>2, <3>2, <3>3 DEF w
  <2> QED
    BY <2>1, <2>2
<1> QED
  BY <1>1, <1>2, <1>4, <1>5, <1>6

\* Doubles that are equal have one hash, but for the two zeros: std::hash of
\* the stored bits against the numeric operator== (wire_double.hpp).
THEOREM HashesAgree == \A a, b \in WireValues : HashAgrees(a, b)
<1> SUFFICES ASSUME NEW a \in WireValues, NEW b \in WireValues, NEW h \in Hosts, NEW E \in Endians,
                    EqualDouble(h, E, encode(h, E, a), encode(h, E, b))
             PROVE  \/ HashOf(encode(h, E, a)) = HashOf(encode(h, E, b))
                    \/ IsZero(a) /\ IsZero(b) /\ a # b
  BY DEF HashAgrees
<1>1. decode(h, E, encode(h, E, a)) = a /\ decode(h, E, encode(h, E, b)) = b
  BY SentIs
<1>2. a = b \/ (IsZero(a) /\ IsZero(b))
  BY <1>1 DEF EqualDouble
<1> QED
  BY <1>2

\* Parts of one length, put together: each lies behind those before it.
LEMMA EqualPartsLie ==
    ASSUME NEW S, NEW A \in Seq(Seq(S)), NEW W \in Nat, \A k \in 1..Len(A) : Len(A[k]) = W
    PROVE  /\ FlattenSeq(A) \in Seq(S) /\ Len(FlattenSeq(A)) = W * Len(A)
           /\ \A k \in 1..Len(A), j \in 1..W : FlattenSeq(A)[W * (k - 1) + j] = A[k][j]
<1> DEFINE m == Len(A)
<1>1. m \in Nat
  BY LenProperties
<1>2. PICK g \in [0..m -> Seq(S)] : Joins(g, A) /\ FlattenSeq(A) = g[m]
  BY FlattenJoins
<1>3. g[0] = <<>> /\ \A n \in 1..m : g[n] = g[n - 1] \o A[n]
  BY <1>2 DEF Joins
<1>4. ASSUME NEW k \in 1..m
      PROVE  A[k] \in Seq(S) /\ Len(A[k]) = W
  BY ElementOfSeq
<1> HIDE DEF m
<1> DEFINE Lies(n) == /\ Len(g[n]) = W * n
                      /\ \A k \in 1..n, j \in 1..W : g[n][W * (k - 1) + j] = A[k][j]
           P == {n \in Nat : n <= m => Lies(n)}
<1>5. 0 \in P
  <2>1. Len(g[0]) = 0 /\ W * 0 = 0
    BY <1>3
  <2> QED
    BY <2>1
<1>6. ASSUME NEW n \in Nat, n \in P
      PROVE  n + 1 \in P
  <2> SUFFICES ASSUME n + 1 <= m
               PROVE  Lies(n + 1)
    OBVIOUS
  <2> DEFINE c == n + 1
             a == g[n]
             x == A[c]
             l == W * n
  <2>1. c \in 1..m /\ c - 1 = n /\ n \in 0..m /\ n <= m
    BY <1>1
  <2>2. g[c] = a \o x
    BY <1>3, <2>1
  <2>3. a \in Seq(S)
    BY <1>2, <2>1
  <2>4. x \in Seq(S) /\ Len(x) = W
    BY <1>4, <2>1
  <2>5. Len(a) = l /\ \A k \in 1..n, j \in 1..W : a[W * (k - 1) + j] = A[k][j]
    BY <1>6, <2>1
  <2>6. l \in Nat /\ W * c = l + W
    OBVIOUS
  <2> HIDE DEF a, x, c, l
  <2>7. Len(a \o x) = W * c
    <3>1. Len(a \o x) = Len(a) + Len(x)
      BY <2>3, <2>4
    <3> QED
      BY <2>4, <2>5, <2>6, <3>1
  <2>8. ASSUME NEW k \in 1..c, NEW j \in 1..W
        PROVE  (a \o x)[W * (k - 1) + j] = A[k][j]
    <3> DEFINE q == W * (k - 1) + j
    <3>1. CASE k \in 1..n
      <4> DEFINE t == W * (k - 1)
      <4>1. t \in Nat
        BY <3>1
      <4>2. t + W <= l
        <5>1. t + W = W * k
          BY <3>1
        <5>2. W * k <= W * n
          BY <3>1
        <5> QED
          BY <5>1, <5>2 DEF l
      <4> HIDE DEF t
      <4>3. t + j \in 1..l
        BY <2>6, <4>1, <4>2
      <4>4. (a \o x)[t + j] = a[t + j]
        BY <2>3, <2>4, <2>5, <4>3
      <4> QED
        BY <2>5, <3>1, <4>4 DEF t
    <3>2. CASE k = c
      <4>1. W * (k - 1) = l
        BY <2>1, <3>2 DEF l
      <4>2. (a \o x)[l + j] = x[j]
        BY <2>3, <2>4, <2>5, <2>6
      <4> QED
        BY <3>2, <4>1, <4>2 DEF x
    <3>3. k \in 1..n \/ k = c
      BY DEF c
    <3> QED
      BY <3>1, <3>2, <3>3
  <2> QED
    BY <2>2, <2>7, <2>8 DEF c
<1>7. Nat \subseteq P
  <2> HIDE DEF P
  <2> QED
    BY <1>5, <1>6, NatInductive
<1>8. Lies(m) /\ g[m] \in Seq(S)
  <2>1. m \in P /\ m <= m /\ m \in 0..m
    <3> HIDE DEF P
    <3> QED
      BY <1>1, <1>7
  <2>2. Lies(m)
    BY <2>1
  <2> QED
    BY <1>2, <2>1, <2>2
<1> QED
  BY <1>2, <1>8 DEF m

\* The bytes of a host for the values, and what lies behind them.
BytesOf(h, values, rest) == FlattenSeq([i \in DOMAIN values |-> Image(h, values[i])]) \o rest

\* Where the bytes of a value are, and where the rest is.
LEMMA BytesLie ==
    ASSUME NEW h \in Hosts, NEW values \in Seq(WireValues), NEW rest \in Seq(0..Base - 1)
    PROVE  LET s == BytesOf(h, values, rest)
               l == Width * Len(values)
           IN  /\ l \in Nat
               /\ s \in Seq(0..Base - 1) /\ Len(s) = l + Len(rest)
               /\ \A k \in 1..Len(values), j \in 1..Width :
                    s[Width * (k - 1) + j] = Image(h, values[k])[j]
               /\ \A j \in 1..Len(rest) : s[l + j] = rest[j]
<1> DEFINE W == Width
           S == 0..Base - 1
           m == Len(values)
           A == [i \in DOMAIN values |-> Image(h, values[i])]
           f == FlattenSeq(A)
           l == W * m
<1>1. W \in Nat /\ m \in Nat /\ DOMAIN values = 1..m
  BY WireAssumption, LenProperties
<1>2. ASSUME NEW k \in 1..m
      PROVE  Image(h, values[k]) \in Seq(S) /\ Len(Image(h, values[k])) = W
  <2>1. values[k] \in WireValues
    BY ElementOfSeq
  <2>2. Image(h, values[k]) \in [1..W -> S]
    BY <2>1, ImageIs DEF Images
  <2> HIDE DEF W, S
  <2> QED
    BY <1>1, <2>2
<1>3. A \in Seq(Seq(S)) /\ Len(A) = m /\ \A k \in 1..m : A[k] = Image(h, values[k])
  <2>1. A = [i \in 1..m |-> Image(h, values[i])]
    BY <1>1
  <2> HIDE DEF m, S, A
  <2> QED
    BY <1>1, <1>2, <2>1
<1> HIDE DEF A, W, S, m
<1>4. f \in Seq(S) /\ Len(f) = W * m /\ \A k \in 1..m, j \in 1..W : f[W * (k - 1) + j] = A[k][j]
  <2>1. \A k \in 1..Len(A) : Len(A[k]) = W
    BY <1>2, <1>3
  <2>2. /\ FlattenSeq(A) \in Seq(S) /\ Len(FlattenSeq(A)) = W * Len(A)
        /\ \A k \in 1..Len(A), j \in 1..W : FlattenSeq(A)[W * (k - 1) + j] = A[k][j]
    BY <1>1, <1>3, <2>1, EqualPartsLie
  <2> QED
    BY <1>3, <2>2
<1>5. l \in Nat
  BY <1>1
<1>6. Len(f) = l
  BY <1>4
<1> HIDE DEF f
<1>7. rest \in Seq(S)
  BY DEF S
<1> DEFINE s == f \o rest
<1>8. s \in Seq(S) /\ Len(s) = l + Len(rest)
  <2> HIDE DEF l
  <2> QED
    BY <1>4, <1>5, <1>6, <1>7
<1>9. ASSUME NEW k \in 1..m, NEW j \in 1..W
      PROVE  s[W * (k - 1) + j] = Image(h, values[k])[j]
  <2> DEFINE t == W * (k - 1)
  <2>1. t \in Nat /\ t + W <= l
    <3>1. t \in Nat
      BY <1>1
    <3>2. t + W = W * k
      BY <1>1
    <3>3. W * k <= W * m
      BY <1>1
    <3> QED
      BY <3>1, <3>2, <3>3
  <2> HIDE DEF t, l
  <2>2. t + j \in 1..Len(f)
    BY <1>1, <1>5, <1>6, <2>1
  <2>3. s[t + j] = f[t + j]
    BY <1>4, <1>7, <2>2
  <2> QED
    BY <1>3, <1>4, <2>3 DEF t
<1>10. ASSUME NEW j \in 1..Len(rest)
       PROVE  s[l + j] = rest[j]
  <2> HIDE DEF l
  <2> QED
    BY <1>4, <1>5, <1>6, <1>7
<1> QED
  BY <1>5, <1>8, <1>9, <1>10 DEF W, S, m, f, A, BytesOf

\* A place before the n-th multiple of W lies in one of the n parts, and one
\* behind it, with fewer than W places there, in no part that is complete.
LEMMA PlaceIs ==
    ASSUME NEW W \in Nat \ {0}, NEW n \in Nat, NEW r \in 0..W - 1,
           NEW p \in 1..(W * n + r)
    PROVE  /\ p <= W * n =>
                LET k == (p - 1) \div W + 1
                    i == ((p - 1) \div W) * W
                IN  /\ k \in 1..n /\ i = W * (k - 1)
                    /\ p - i \in 1..W /\ i \in Elements(W * n + r, W)
           /\ p > W * n => ~\E i \in Elements(W * n + r, W) : p - i \in 1..W
<1> DEFINE l == W * n
<1>1. l \in Nat
  OBVIOUS
<1>2. ASSUME p <= l
      PROVE  LET k == (p - 1) \div W + 1
                 i == ((p - 1) \div W) * W
             IN  /\ k \in 1..n /\ i = W * (k - 1)
                 /\ p - i \in 1..W /\ i \in Elements(W * n + r, W)
  <2> DEFINE a == p - 1
             q == a \div W
             t == a % W
             k == q + 1
             i == q * W
  <2>1. a \in Nat /\ p = a + 1
    BY <1>1
  <2> HIDE DEF a
  <2>2. a = W * q + t /\ t \in 0..W - 1 /\ q \in Nat
    BY <2>1, Quotient
  <2> HIDE DEF q, t
  <2>3. i = W * q /\ i \in Nat
    BY <2>2
  <2>4. q < n
    <3> SUFFICES ASSUME q >= n
                 PROVE  FALSE
      BY <2>2
    <3>1. W * q >= l
      BY <2>2
    <3> HIDE DEF l
    <3> QED
      BY <1>1, <1>2, <2>1, <2>2, <2>3, <3>1
  <2>5. i + W <= l
    <3>1. i + W = W * (q + 1)
      BY <2>2
    <3>2. W * (q + 1) <= l
      BY <2>2, <2>4
    <3> QED
      BY <3>1, <3>2
  <2>6. i % W = 0
    <3> DEFINE z == 0
    <3>1. z \in 0..W - 1 /\ i = W * q + z
      BY <2>3
    <3> HIDE DEF z, i
    <3>2. i % W = z
      BY <2>2, <2>3, <3>1, QuotientUnique
    <3> QED
      BY <3>2 DEF z
  <2>7. k \in 1..n /\ k - 1 = q
    BY <2>2, <2>4
  <2>8. p - i \in 1..W
    <3> HIDE DEF i
    <3> QED
      BY <2>1, <2>2, <2>3
  <2>9. i \in Elements(l + r, W)
    <3> HIDE DEF i, l
    <3>1. i \in 0..(l + r) - W
      BY <1>1, <2>3, <2>5
    <3> QED
      BY <2>6, <3>1 DEF Elements
  <2>10. i = W * (k - 1)
    BY <2>3, <2>7
  <2> QED
    BY <2>7, <2>8, <2>9, <2>10 DEF q, a
<1>3. ASSUME p > l, NEW i \in Elements(l + r, W), p - i \in 1..W
      PROVE  FALSE
  <2> DEFINE q == i \div W
  <2>1. i \in 0..(l + r) - W /\ i % W = 0
    <3> HIDE DEF l
    <3> QED
      BY <1>3 DEF Elements
  <2>2. i \in Nat
    <3> HIDE DEF l
    <3> QED
      BY <2>1
  <2>3. i = W * q /\ q \in Nat
    <3>1. i = W * q + (i % W) /\ q \in Nat
      BY <2>2, Quotient
    <3> HIDE DEF q
    <3> QED
      BY <2>1, <3>1
  <2> HIDE DEF q
  <2>4. q < n
    <3> SUFFICES ASSUME q >= n
                 PROVE  FALSE
      BY <2>3
    <3>1. W * q >= l
      BY <2>3
    <3> HIDE DEF l
    <3> QED
      BY <1>1, <2>1, <2>2, <2>3, <3>1
  <2>5. i + W <= l
    <3>1. i + W = W * (q + 1)
      BY <2>3
    <3>2. W * (q + 1) <= l
      BY <2>3, <2>4
    <3> QED
      BY <3>1, <3>2
  <2> HIDE DEF l
  <2> QED
    BY <1>1, <1>3, <2>2, <2>5
<1> QED
  BY <1>2, <1>3

\* A byte of the one host's image is the byte of the other's from behind.
LEMMA OtherImage ==
    ASSUME NEW v \in WireValues, NEW h \in Hosts, NEW g \in Hosts, h # g, NEW j \in 1..Width
    PROVE  Width + 1 - j \in 1..Width /\ Image(h, v)[Width + 1 - j] = Image(g, v)[j]
<1> DEFINE k == Width + 1 - j
<1>1. k \in 1..Width /\ Width + 1 - k = j
  BY WireAssumption
<1> HIDE DEF k
<1>2. /\ Image("little", v)[k] = Byte(v, k) /\ Image("big", v)[k] = Byte(v, j)
  BY <1>1, ImageBytes
<1>3. /\ Image("little", v)[j] = Byte(v, j) /\ Image("big", v)[j] = Byte(v, Width + 1 - j)
  BY ImageBytes
<1> QED
  BY <1>1, <1>2, <1>3 DEF Hosts, k

\* convert makes the bytes of the one host those of the other.
LEMMA ConvertTurns ==
    ASSUME NEW values \in Seq(WireValues), NEW rest \in Seq(0..Base - 1), Len(rest) < Width,
           NEW from \in ByteOrders, NEW to \in ByteOrders, only_endian_differs(from, to),
           values # <<>> \/ Len(rest) <= 1
    PROVE  convert(BytesOf(from.mendian, values, rest), Width, from, to)
             = BytesOf(to.mendian, values, rest)
<1> DEFINE W == Width
           S == 0..Base - 1
           m == Len(values)
           r == Len(rest)
           l == W * m
           h == from.mendian
           g == to.mendian
           d == BytesOf(h, values, rest)
           o == BytesOf(g, values, rest)
           c == convert(d, W, from, to)
<1>1. W \in Nat \ {0} /\ m \in Nat /\ r \in Nat /\ r < W
  BY WireAssumption, LenProperties
<1>2. h \in Hosts /\ g \in Hosts /\ h # g /\ from # to
  BY DEF ByteOrders, only_endian_differs
<1>3. /\ l \in Nat
      /\ d \in Seq(S) /\ Len(d) = l + r
      /\ \A k \in 1..m, j \in 1..W : d[W * (k - 1) + j] = Image(h, values[k])[j]
      /\ \A j \in 1..r : d[l + j] = rest[j]
  <2> HIDE DEF h
  <2> QED
    BY <1>2, BytesLie
<1>4. /\ o \in Seq(S) /\ Len(o) = l + r
      /\ \A k \in 1..m, j \in 1..W : o[W * (k - 1) + j] = Image(g, values[k])[j]
      /\ \A j \in 1..r : o[l + j] = rest[j]
  <2> HIDE DEF g
  <2> QED
    BY <1>2, BytesLie
<1>5. \A k \in 1..m : values[k] \in WireValues
  BY ElementOfSeq
<1>6. c = IF Len(d) <= 1 \/ W <= 1
          THEN d
          ELSE [p \in DOMAIN d |->
                 IF \E i \in Elements(Len(d), W) : p - i \in 1..W
                 THEN LET i == ((p - 1) \div W) * W
                      IN  d[i + W + 1 - (p - i)]
                 ELSE d[p]]
  <2>1. ~(Len(d) <= 1) => ~(Len(d) < W)
    <3>1. m = 0 => l = 0 /\ r <= 1
      BY <1>1
    <3>2. m # 0 => l >= W
      BY <1>1
    <3>3. Len(d) = l + r /\ l \in Nat
      BY <1>3
    <3> HIDE DEF d, l, m, r, W
    <3> QED
      BY <1>1, <3>1, <3>2, <3>3
  <2> QED
    BY <1>2, <2>1 DEF convert
<1>7. ASSUME NEW k \in 1..m, NEW j \in 1..W
      PROVE  W + 1 - j \in 1..W /\ Image(h, values[k])[W + 1 - j] = Image(g, values[k])[j]
  <2> HIDE DEF h, g, m
  <2> QED
    BY <1>2, <1>5, OtherImage
<1> HIDE DEF h, g, d, o, c, m, r, W, S
\* One place of the two.
<1>8. ASSUME NEW p \in 1..(l + r)
      PROVE  /\ p <= l => LET i == ((p - 1) \div W) * W
                          IN  /\ \E e \in Elements(l + r, W) : p - e \in 1..W
                              /\ d[i + W + 1 - (p - i)] = o[p]
                              /\ W = 1 => d[p] = o[p]
             /\ p > l => /\ ~\E e \in Elements(l + r, W) : p - e \in 1..W
                         /\ d[p] = o[p]
  <2>1. ASSUME p <= l
        PROVE  LET i == ((p - 1) \div W) * W
               IN  /\ \E e \in Elements(l + r, W) : p - e \in 1..W
                   /\ d[i + W + 1 - (p - i)] = o[p]
                   /\ W = 1 => d[p] = o[p]
    <3> DEFINE k == (p - 1) \div W + 1
               i == ((p - 1) \div W) * W
               j == p - i
               x == W + 1 - j
    <3>1. k \in 1..m /\ i = W * (k - 1) /\ j \in 1..W /\ i \in Elements(l + r, W)
      <4>1. r \in 0..W - 1
        BY <1>1
      <4>2. p <= W * m =>
              LET kk == (p - 1) \div W + 1
                  ii == ((p - 1) \div W) * W
              IN  /\ kk \in 1..m /\ ii = W * (kk - 1)
                  /\ p - ii \in 1..W /\ ii \in Elements(W * m + r, W)
        BY <1>1, <4>1, PlaceIs
      <4> QED
        BY <2>1, <4>2
    <3> HIDE DEF k
    <3>2. i \in Nat
      BY <1>1, <3>1
    <3> HIDE DEF i
    <3>3. i + W + 1 - j = i + x /\ p = i + j
      BY <1>1, <3>1, <3>2
    <3> HIDE DEF j
    <3>4. x \in 1..W /\ Image(h, values[k])[x] = Image(g, values[k])[j]
      BY <1>7, <3>1
    <3>5. W = 1 => x = j
      BY <1>1, <3>1
    <3> HIDE DEF x
    <3>6. d[i + x] = o[i + j]
      BY <1>3, <1>4, <3>1, <3>4
    <3>7. W = 1 => d[p] = o[p]
      BY <3>3, <3>5, <3>6
    <3>8. d[i + W + 1 - j] = o[p]
      BY <3>3, <3>6
    <3> QED
      BY <3>1, <3>7, <3>8 DEF i, j
  <2>2. ASSUME p > l
        PROVE  /\ ~\E e \in Elements(l + r, W) : p - e \in 1..W
               /\ d[p] = o[p]
    <3>1. ~\E e \in Elements(l + r, W) : p - e \in 1..W
      <4>1. r \in 0..W - 1
        BY <1>1
      <4> QED
        BY <1>1, <2>2, <4>1, PlaceIs
    <3> DEFINE j == p - l
    <3>2. j \in 1..r /\ p = l + j
      <4> HIDE DEF l
      <4> QED
        BY <1>1, <1>3, <2>2
    <3> HIDE DEF j
    <3> QED
      BY <1>3, <1>4, <3>1, <3>2
  <2> QED
    BY <2>1, <2>2
<1>9. DOMAIN d = 1..(l + r) /\ DOMAIN o = 1..(l + r)
  <2> HIDE DEF l
  <2> QED
    BY <1>1, <1>3, <1>4
<1>10. DOMAIN c = 1..(l + r)
  <2>1. CASE Len(d) <= 1 \/ W <= 1
    BY <1>6, <1>9, <2>1
  <2>2. CASE ~(Len(d) <= 1 \/ W <= 1)
    BY <1>6, <1>9, <2>2
  <2> QED
    BY <2>1, <2>2
<1>11. ASSUME NEW p \in 1..(l + r)
       PROVE  c[p] = o[p]
  <2>1. CASE ~(Len(d) <= 1 \/ W <= 1)
    <3>1. c[p] = IF \E i \in Elements(l + r, W) : p - i \in 1..W
                 THEN LET i == ((p - 1) \div W) * W
                      IN  d[i + W + 1 - (p - i)]
                 ELSE d[p]
      BY <1>3, <1>6, <1>9, <2>1
    <3>2. p <= l \/ p > l
      BY <1>3
    <3> HIDE DEF l
    <3> QED
      BY <1>8, <3>1, <3>2, Zenon
  <2>2. CASE Len(d) <= 1 \/ W <= 1
    <3>1. c[p] = d[p]
      BY <1>6, <2>2
    <3>2. CASE W = 1
      <4>1. p <= l \/ p > l
        BY <1>3
      <4> QED
        BY <1>8, <3>1, <3>2, <4>1
    <3>3. CASE W # 1
      <4>1. W > 1 /\ l + r <= 1
        BY <1>1, <1>3, <2>2, <3>3
      <4>2. m = 0
        <5> SUFFICES ASSUME m >= 1
                     PROVE  FALSE
          BY <1>1
        <5>1. l >= W
          BY <1>1
        <5> HIDE DEF l
        <5> QED
          BY <1>1, <1>3, <4>1, <5>1
      <4>3. l = 0
        BY <1>1, <4>2
      <4>4. p > l
        BY <4>3
      <4> QED
        BY <1>8, <3>1, <4>4
    <3> QED
      BY <3>2, <3>3
  <2> QED
    BY <2>1, <2>2
<1>12. c = o
  <2> DEFINE D == 1..(l + r)
  <2>1. o = [p \in D |-> o[p]]
    BY <1>4, <1>9
  <2>2. c = [p \in D |-> c[p]]
    <3>1. CASE Len(d) <= 1 \/ W <= 1
      <4>1. c = d /\ d = [p \in D |-> d[p]]
        BY <1>3, <1>6, <1>9, <3>1
      <4> QED
        BY <4>1
    <3>2. CASE ~(Len(d) <= 1 \/ W <= 1)
      <4>1. c = [p \in D |-> IF \E i \in Elements(Len(d), W) : p - i \in 1..W
                             THEN LET i == ((p - 1) \div W) * W
                                  IN  d[i + W + 1 - (p - i)]
                             ELSE d[p]]
        BY <1>6, <1>9, <3>2
      <4> HIDE DEF D
      <4> QED
        BY <4>1
    <3> QED
      BY <3>1, <3>2
  <2>3. \A p \in D : c[p] = o[p]
    BY <1>11
  <2> HIDE DEF D
  <2> QED
    BY <2>1, <2>2, <2>3
<1> QED
  BY <1>12 DEF c, d, o, h, g, W

\* convert of a whole array: values become those of the other host, what
\* is too short for a value stays, and converting back gives back the
\* bytes (byte_order.hpp, for every number of values and bytes of a value;
\* a rest of more than a byte has a value before it).
THEOREM ConvertsExactly ==
    ASSUME NEW values \in Seq(WireValues), NEW rest \in Seq(0..Base - 1), Len(rest) < Width,
           NEW from \in ByteOrders, NEW to \in ByteOrders
    PROVE  ConvertExact(values, rest, from, to)
<1> DEFINE B(h) == BytesOf(h, values, rest)
           there == convert(B(from.mendian), Width, from, to)
<1> SUFFICES ASSUME only_endian_differs(from, to), values # <<>> \/ Len(rest) <= 1
             PROVE  there = B(to.mendian) /\ convert(there, Width, to, from) = B(from.mendian)
  BY DEF ConvertExact, BytesOf
<1>1. there = B(to.mendian)
  BY ConvertTurns
<1>2. only_endian_differs(to, from)
  BY DEF only_endian_differs
<1>3. convert(B(to.mendian), Width, to, from) = B(from.mendian)
  BY <1>2, ConvertTurns
<1> QED
  BY <1>1, <1>3

-----------------------------------------------------------------------------
(***************************************************************************)
(* The distance of two strings.                                            *)
(***************************************************************************)

\* The last two characters of the first i of s and the first j of t are
\* each other's.
Swaps(s, t, i, j) == i > 1 /\ j > 1 /\ s[i] = t[j - 1] /\ t[j] = s[i - 1]

\* The first i characters of s are those of t.
Alike(s, t, i) == \A q \in 1..i : s[q] = t[q]

\* x is the least of what its neighbours in the table allow.
CellOf(x, left, up, diag, far, same, swaps) ==
    /\ x <= left + 1 /\ x <= up + 1 /\ x <= diag + 1
    /\ same => x <= diag
    /\ swaps => x <= far + 1
    /\ \/ x = left + 1 \/ x = up + 1
       \/ ~same /\ x = diag + 1
       \/ same /\ x = diag
       \/ swaps /\ x = far + 1

\* What the code computes for a cell is that.
LEMMA CellIs ==
    ASSUME NEW s, NEW t, NEW i \in Nat, NEW j \in Nat \ {0}, NEW row1, NEW row2, NEW row3,
           row3[j] \in Nat, row2[j + 1] \in Nat, row2[j] \in Nat, j > 1 => row1[j - 1] \in Nat
    PROVE  LET x == Cell(s, t, i, j, row1, row2, row3)
           IN  /\ x \in Nat
               /\ CellOf(x, row3[j], row2[j + 1], row2[j], row1[j - 1], s[i] = t[j], Swaps(s, t, i, j))
<1> DEFINE l == row3[j]
           u == row2[j + 1]
           d == row2[j]
           f == row1[j - 1]
           x == Cell(s, t, i, j, row1, row2, row3)
           cost == IF s[i] = t[j] THEN 0 ELSE 1
           M == {l + 1, u + 1, d + cost}
           best == Min(M)
           B == {best, f + 1}
<1>1. l \in Nat /\ u \in Nat /\ d \in Nat /\ cost \in Nat
  OBVIOUS
<1>2. best \in M /\ \A y \in M : best <= y
  <2>1. M \in SUBSET Nat /\ M # {}
    BY <1>1
  <2> HIDE DEF M
  <2> QED
    BY <2>1, MinIsIn
<1>3. x = IF Swaps(s, t, i, j) THEN Min(B) ELSE best
  BY DEF Cell, Swapped, Swaps
<1>4. Swaps(s, t, i, j) => f \in Nat
  BY DEF Swaps
<1> DEFINE same == s[i] = t[j]
           swaps == Swaps(s, t, i, j)
<1>5. best \in Nat /\ best <= l + 1 /\ best <= u + 1 /\ best <= d + cost
      /\ (best = l + 1 \/ best = u + 1 \/ best = d + cost)
  <2> HIDE DEF l, u, d, cost, best
  <2> QED
    BY <1>1, <1>2
<1>6. (same => cost = 0) /\ (~same => cost = 1)
  OBVIOUS
<1> HIDE DEF l, u, d, f, x, cost, best, same, swaps
<1>7. CASE ~swaps
  <2>1. x = best
    BY <1>3, <1>7 DEF swaps
  <2>2. x \in Nat /\ CellOf(x, l, u, d, f, same, swaps)
    BY <1>1, <1>5, <1>6, <1>7, <2>1 DEF CellOf
  <2> QED
    BY <2>2 DEF l, u, d, f, same, swaps, x
<1>8. CASE swaps
  <2>0. f \in Nat
    BY <1>4, <1>8 DEF swaps
  <2>1. x = Min(B)
    BY <1>3, <1>8 DEF swaps
  <2>2. Min(B) \in B /\ \A y \in B : Min(B) <= y
    <3>1. B \in SUBSET Nat /\ B # {}
      BY <1>5, <2>0
    <3> HIDE DEF B
    <3> QED
      BY <3>1, MinIsIn
  <2>3. x \in Nat /\ x <= best /\ x <= f + 1 /\ (x = best \/ x = f + 1)
    BY <1>5, <2>0, <2>1, <2>2
  <2>4. x \in Nat /\ CellOf(x, l, u, d, f, same, swaps)
    BY <1>1, <1>5, <1>6, <1>8, <2>0, <2>3 DEF CellOf
  <2> QED
    BY <2>4 DEF l, u, d, f, same, swaps, x
<1> QED
  BY <1>7, <1>8

\* The rows of a table of distances.
Row(m) == [1..m + 1 -> Nat]

\* r is the row of i behind row1 and row2.
RowOf(r, s, t, i, m, row1, row2) ==
    /\ r \in Row(m) /\ r[1] = i
    /\ \A j \in 1..m :
         CellOf(r[j + 1], r[j], row2[j + 1], row2[j], row1[j - 1], s[i] = t[j], Swaps(s, t, i, j))

\* What the code computes for a row is that.
LEMMA NextRowIs ==
    ASSUME NEW s, NEW A, NEW t \in Seq(A), NEW i \in Nat,
           NEW row1 \in Row(Len(t)), NEW row2 \in Row(Len(t))
    PROVE  RowOf(NextRow(s, t, i, row1, row2), s, t, i, Len(t), row1, row2)
<1> DEFINE m == Len(t)
           X == Seq(Nat)
           first == <<i>>
           Add(j, y) == AddCell(s, t, i, j, row1, row2, y)
           C(j, y) == Cell(s, t, i, j, row1, row2, y)
           G == [p \in (1..m) \X X |-> IF Len(p[2]) = p[1] THEN Add(p[1], p[2]) ELSE <<>>]
           Is(g) == g = [j \in 0..m |-> IF j = 0 THEN first ELSE Add(j, g[j - 1])]
           w == CHOOSE g : Is(g)
<1>1. m \in Nat
  BY LenProperties
<1>2. first \in X /\ Len(first) = 1 /\ first[1] = i
  OBVIOUS
<1>3. row1 \in [1..m + 1 -> Nat] /\ row2 \in [1..m + 1 -> Nat]
  BY DEF Row
<1> HIDE DEF m, first
<1>4. ASSUME NEW j \in 1..m, NEW y \in X, Len(y) = j
      PROVE  /\ C(j, y) \in Nat
             /\ CellOf(C(j, y), y[j], row2[j + 1], row2[j], row1[j - 1], s[i] = t[j], Swaps(s, t, i, j))
             /\ Add(j, y) \in X /\ Len(Add(j, y)) = j + 1
             /\ Add(j, y)[j + 1] = C(j, y)
             /\ \A q \in 1..j : Add(j, y)[q] = y[q]
  <2>1. y[j] \in Nat /\ j \in Nat \ {0}
    BY <1>1, <1>4
  <2>2. row2[j + 1] \in Nat /\ row2[j] \in Nat /\ (j > 1 => row1[j - 1] \in Nat)
    <3>1. j + 1 \in 1..m + 1 /\ j \in 1..m + 1 /\ (j > 1 => j - 1 \in 1..m + 1)
      BY <1>1
    <3> QED
      BY <1>3, <3>1
  <2>3. /\ C(j, y) \in Nat
        /\ CellOf(C(j, y), y[j], row2[j + 1], row2[j], row1[j - 1], s[i] = t[j], Swaps(s, t, i, j))
    BY <2>1, <2>2, CellIs
  <2> DEFINE c == C(j, y)
  <2>4. Add(j, y) = Append(y, c)
    BY DEF AddCell
  <2>5. c \in Nat
    BY <2>3
  <2> HIDE DEF c
  <2>6. /\ Append(y, c) \in X /\ Len(Append(y, c)) = j + 1
        /\ Append(y, c)[j + 1] = c
        /\ \A q \in 1..j : Append(y, c)[q] = y[q]
    BY <1>4, <2>1, <2>5
  <2> HIDE DEF Add
  <2> QED
    BY <2>3, <2>4, <2>6 DEF c
<1>5. G \in [(1..m) \X X -> X]
  <2>1. ASSUME NEW p \in (1..m) \X X
        PROVE  (IF Len(p[2]) = p[1] THEN Add(p[1], p[2]) ELSE <<>>) \in X
    <3> DEFINE j == p[1]
               y == p[2]
    <3>1. j \in 1..m /\ y \in X
      OBVIOUS
    <3>2. <<>> \in X
      OBVIOUS
    <3> HIDE DEF j, y, Add, C
    <3>3. Len(y) = j => Add(j, y) \in X
      BY <1>4, <3>1
    <3> QED
      BY <3>2, <3>3 DEF j, y
  <2> HIDE DEF Add, X
  <2> QED
    BY <2>1
<1>6. ASSUME NEW j \in 1..m, NEW y \in X, Len(y) = j
      PROVE  G[<<j, y>>] = Add(j, y)
  <2>1. <<j, y>> \in (1..m) \X X
    OBVIOUS
  <2> HIDE DEF Add, X
  <2> QED
    BY <1>6, <2>1
<1> HIDE DEF G, Add, C
<1>7. PICK g \in [0..m -> X] : RecursFrom(g, m, first, G)
  <2> HIDE DEF X
  <2> QED
    BY <1>1, <1>2, <1>5, IndexedRecursionExists
<1>8. g[0] = first /\ \A j \in 1..m : g[j] = G[<<j, g[j - 1]>>]
  BY <1>7 DEF RecursFrom
\* The length of each beginning, and what is in it.
<1> DEFINE Good(j) == /\ Len(g[j]) = j + 1
                      /\ \A q \in 1..j + 1 : g[j][q] = g[q - 1][q]
           P == {j \in Nat : j <= m => Good(j)}
<1>9. ASSUME NEW j \in 1..m, Len(g[j - 1]) = j
      PROVE  /\ g[j - 1] \in X /\ g[j] = Add(j, g[j - 1])
  <2>1. j - 1 \in 0..m
    BY <1>1
  <2>2. g[j - 1] \in X
    BY <1>7, <2>1
  <2> QED
    BY <1>6, <1>8, <1>9, <2>2
<1>10. Nat \subseteq P
  <2>1. 0 \in P
    <3>1. Len(g[0]) = 1 /\ g[0][1] = i
      BY <1>2, <1>8
    <3>2. \A q \in 1..0 + 1 : g[0][q] = g[q - 1][q]
      <4>1. \A q \in 1..0 + 1 : q = 1 /\ q - 1 = 0
        OBVIOUS
      <4> QED
        BY <4>1
    <3> QED
      BY <3>1, <3>2
  <2>2. ASSUME NEW h \in Nat, h \in P
        PROVE  h + 1 \in P
    <3> SUFFICES ASSUME h + 1 <= m
                 PROVE  Good(h + 1)
      OBVIOUS
    <3> DEFINE j == h + 1
    <3>1. j \in 1..m /\ j - 1 = h /\ h <= m
      BY <1>1
    <3>2. Good(h)
      BY <2>2, <3>1
    <3>3. Len(g[h]) = j
      BY <3>2
    <3> HIDE DEF j
    <3>4. g[h] \in X /\ g[j] = Add(j, g[h])
      BY <1>9, <3>1, <3>3
    <3>5. Len(g[j]) = j + 1 /\ \A q \in 1..j : g[j][q] = g[h][q]
      BY <1>4, <3>1, <3>3, <3>4
    <3>6. ASSUME NEW q \in 1..j + 1
          PROVE  g[j][q] = g[q - 1][q]
      <4>1. CASE q \in 1..j
        <5>1. q \in 1..h + 1
          BY <3>1, <4>1 DEF j
        <5>2. g[h][q] = g[q - 1][q]
          BY <3>2, <5>1
        <5> QED
          BY <3>5, <4>1, <5>2
      <4>2. CASE q = j + 1
        <5>1. q - 1 = j
          BY <3>1, <4>2
        <5> QED
          BY <5>1
      <4>3. q \in 1..j \/ q = j + 1
        BY <3>1
      <4> QED
        BY <4>1, <4>2, <4>3
    <3>7. Good(j)
      BY <3>5, <3>6
    <3> QED
      BY <3>7 DEF j
  <2> HIDE DEF P
  <2> QED
    BY <2>1, <2>2, NatInductive
<1>11. \A j \in 0..m : Good(j)
  BY <1>1, <1>10
<1>12. ASSUME NEW j \in 1..m
       PROVE  g[j - 1] \in X /\ Len(g[j - 1]) = j /\ g[j] = Add(j, g[j - 1])
  <2>1. j - 1 \in 0..m /\ j - 1 + 1 = j
    BY <1>1
  <2>2. Len(g[j - 1]) = j
    BY <1>11, <2>1
  <2> QED
    BY <1>9, <2>2
<1>13. Is(g)
  <2>1. ASSUME NEW j \in 0..m
        PROVE  g[j] = IF j = 0 THEN first ELSE Add(j, g[j - 1])
    <3>1. j = 0 \/ (j \in 1..m /\ j # 0)
      BY <1>1
    <3> QED
      BY <1>8, <1>12, <3>1
  <2> HIDE DEF X
  <2> QED
    BY <1>7, <2>1
\* The function of the code is this one.
<1>14. Is(w)
  <2> HIDE DEF Is
  <2> QED
    BY <1>13
<1>15. w[0] = first /\ \A j \in 1..m : w[j] = Add(j, w[j - 1])
  <2>1. \A j \in 1..m : j \in 0..m /\ j # 0
    BY <1>1
  <2>2. 0 \in 0..m
    BY <1>1
  <2> QED
    BY <1>14, <2>1, <2>2
<1> HIDE DEF w, Is
<1>16. \A j \in 0..m : w[j] = g[j]
  <2> DEFINE Q == {j \in Nat : j <= m => w[j] = g[j]}
  <2>1. 0 \in Q
    BY <1>8, <1>15
  <2>2. ASSUME NEW h \in Nat, h \in Q
        PROVE  h + 1 \in Q
    <3> SUFFICES ASSUME h + 1 <= m
                 PROVE  w[h + 1] = g[h + 1]
      OBVIOUS
    <3> DEFINE j == h + 1
    <3>1. j \in 1..m /\ j - 1 = h /\ w[h] = g[h]
      BY <1>1, <2>2
    <3> HIDE DEF j
    <3>2. w[j] = g[j]
      BY <1>12, <1>15, <3>1
    <3> QED
      BY <3>2 DEF j
  <2>3. Nat \subseteq Q
    <3> HIDE DEF Q
    <3> QED
      BY <2>1, <2>2, NatInductive
  <2> QED
    BY <1>1, <2>3
<1> DEFINE r == g[m]
<1>17. NextRow(s, t, i, row1, row2) = r
  <2>1. NextRow(s, t, i, row1, row2) = w[m]
    BY DEF NextRow, w, Is, m, first, Add
  <2>2. m \in 0..m
    BY <1>1
  <2> QED
    BY <1>16, <2>1, <2>2
<1>18. r \in Row(m) /\ \A q \in 1..m + 1 : r[q] = g[q - 1][q]
  <2>1. m \in 0..m
    BY <1>1
  <2>2. r \in X /\ Len(r) = m + 1
    BY <1>7, <1>11, <2>1
  <2>3. \A q \in 1..m + 1 : r[q] = g[q - 1][q]
    BY <1>11, <2>1
  <2>4. r \in [1..m + 1 -> Nat]
    <3> HIDE DEF r
    <3>1. r \in [1..Len(r) -> Nat]
      BY <2>2, LenProperties
    <3> QED
      BY <2>2, <3>1
  <2> QED
    BY <2>3, <2>4 DEF Row
<1> HIDE DEF r
<1>19. r[1] = i
  <2>1. 1 \in 1..m + 1 /\ 1 - 1 = 0
    BY <1>1
  <2> QED
    BY <1>2, <1>8, <1>18, <2>1
<1>20. ASSUME NEW j \in 1..m
       PROVE  CellOf(r[j + 1], r[j], row2[j + 1], row2[j], row1[j - 1], s[i] = t[j], Swaps(s, t, i, j))
  <2> DEFINE y == g[j - 1]
  <2>1. j \in 1..m + 1 /\ j + 1 \in 1..m + 1 /\ j + 1 - 1 = j
    BY <1>1
  <2>2. r[j] = y[j] /\ r[j + 1] = g[j][j + 1]
    <3>1. \A q \in 1..m + 1 : r[q] = g[q - 1][q]
      BY <1>18
    <3>2. r[j] = g[j - 1][j]
      BY ONLY <2>1, <3>1
    <3>3. r[j + 1] = g[j + 1 - 1][j + 1]
      BY ONLY <2>1, <3>1
    <3> QED
      BY <2>1, <3>2, <3>3
  <2>3. y \in X /\ Len(y) = j /\ g[j] = Add(j, y)
    BY <1>12
  <2> HIDE DEF y, X
  <2>4. g[j][j + 1] = C(j, y)
    BY <1>4, <2>3
  <2>5. CellOf(C(j, y), y[j], row2[j + 1], row2[j], row1[j - 1], s[i] = t[j], Swaps(s, t, i, j))
    BY <1>4, <2>3
  <2> QED
    BY <2>2, <2>4, <2>5
<1>21. RowOf(r, s, t, i, m, row1, row2)
  BY <1>18, <1>19, <1>20 DEF RowOf
<1> QED
  BY <1>17, <1>21 DEF m

\* D holds the distances between the beginnings of s and of t.
Table(D, s, t, n, m) ==
    /\ D \in [0..n -> [0..m -> Nat]]
    /\ \A i \in 0..n : D[i][0] = i
    /\ \A j \in 0..m : D[0][j] = j
    /\ \A i \in 1..n, j \in 1..m :
         CellOf(D[i][j], D[i][j - 1], D[i - 1][j], D[i - 1][j - 1], D[i - 2][j - 2],
                s[i] = t[j], Swaps(s, t, i, j))

\* The code computes such a table.
LEMMA DistanceIs ==
    ASSUME NEW A, NEW s \in Seq(A), NEW t \in Seq(A)
    PROVE  \E D : Table(D, s, t, Len(s), Len(t)) /\ distance(s, t) = D[Len(s)][Len(t)]
<1> DEFINE n == Len(s)
           m == Len(t)
           R == Row(m)
           X == R \X R
           zeros == [j \in 1..m + 1 |-> 0]
           top == [j \in 1..m + 1 |-> j - 1]
           first == <<zeros, top>>
           Rot(i, r) == Rotated(s, t, i, r)
           G == [p \in (1..n) \X X |-> Rot(p[1], p[2])]
           Is(g) == g = [i \in 0..n |-> IF i = 0 THEN first ELSE Rot(i, g[i - 1])]
           w == CHOOSE g : Is(g)
<1>1. n \in Nat /\ m \in Nat
  BY LenProperties
<1>2. /\ zeros \in R /\ top \in R /\ \A j \in 1..m + 1 : top[j] = j - 1
  BY <1>1 DEF Row
<1>3. first \in X /\ first[2] = top /\ first[1] = zeros
  <2> HIDE DEF zeros, top, R
  <2> QED
    BY <1>2
<1> HIDE DEF first, zeros, top
<1>4. ASSUME NEW i \in 1..n, NEW r \in X
      PROVE  /\ Rot(i, r) \in X /\ Rot(i, r)[1] = r[2]
             /\ RowOf(Rot(i, r)[2], s, t, i, m, r[1], r[2])
  <2> DEFINE b == NextRow(s, t, i, r[1], r[2])
             r1 == r[1]
             r2 == r[2]
  <2>1. r1 \in R /\ r2 \in R /\ i \in Nat
    BY <1>1
  <2>2. RowOf(NextRow(s, t, i, r1, r2), s, t, i, m, r1, r2)
    <3> HIDE DEF r1, r2
    <3> QED
      BY <2>1, NextRowIs
  <2>3. b \in R
    BY <2>2 DEF RowOf
  <2>4. Rot(i, r) = <<r2, b>>
    BY DEF Rotated
  <2> HIDE DEF b, R
  <2>5. Rot(i, r) \in X /\ Rot(i, r)[1] = r2 /\ Rot(i, r)[2] = b
    BY <2>1, <2>3, <2>4
  <2> QED
    BY <2>2, <2>5 DEF b
<1> HIDE DEF n, m, R
<1>5. G \in [(1..n) \X X -> X]
  <2>1. ASSUME NEW p \in (1..n) \X X
        PROVE  Rot(p[1], p[2]) \in X
    <3>1. p[1] \in 1..n /\ p[2] \in X
      OBVIOUS
    <3> HIDE DEF Rot, X
    <3> QED
      BY <1>4, <3>1
  <2> HIDE DEF Rot, X
  <2> QED
    BY <2>1
<1>6. ASSUME NEW i \in 1..n, NEW r \in X
      PROVE  G[<<i, r>>] = Rot(i, r)
  <2>1. <<i, r>> \in (1..n) \X X
    OBVIOUS
  <2> HIDE DEF Rot, X
  <2> QED
    BY <2>1
<1> HIDE DEF G, Rot, X
<1>7. PICK g \in [0..n -> X] : RecursFrom(g, n, first, G)
  BY <1>1, <1>3, <1>5, IndexedRecursionExists
<1>8. g[0] = first
  BY <1>7 DEF RecursFrom
<1>9. ASSUME NEW i \in 1..n
      PROVE  g[i - 1] \in X /\ g[i] = Rot(i, g[i - 1])
  <2>1. i - 1 \in 0..n
    BY <1>1
  <2>2. g[i - 1] \in X
    BY <1>7, <2>1
  <2> QED
    BY <1>6, <1>7, <2>2 DEF RecursFrom
<1>10. Is(g)
  <2>1. ASSUME NEW i \in 0..n
        PROVE  g[i] = IF i = 0 THEN first ELSE Rot(i, g[i - 1])
    <3>1. i = 0 \/ (i \in 1..n /\ i # 0)
      BY <1>1
    <3> QED
      BY <1>8, <1>9, <3>1
  <2> QED
    BY <1>7, <2>1
<1>11. Is(w)
  <2> HIDE DEF Is
  <2> QED
    BY <1>10
<1>12. w[0] = first /\ \A i \in 1..n : w[i] = Rot(i, w[i - 1])
  <2>1. \A i \in 1..n : i \in 0..n /\ i # 0
    BY <1>1
  <2>2. 0 \in 0..n
    BY <1>1
  <2> QED
    BY <1>11, <2>1, <2>2
<1> HIDE DEF w, Is
<1>13. \A i \in 0..n : w[i] = g[i]
  <2> DEFINE Q == {i \in Nat : i <= n => w[i] = g[i]}
  <2>1. 0 \in Q
    BY <1>8, <1>12
  <2>2. ASSUME NEW h \in Nat, h \in Q
        PROVE  h + 1 \in Q
    <3> SUFFICES ASSUME h + 1 <= n
                 PROVE  w[h + 1] = g[h + 1]
      OBVIOUS
    <3> DEFINE i == h + 1
    <3>1. i \in 1..n /\ i - 1 = h /\ w[h] = g[h]
      BY <1>1, <2>2
    <3> HIDE DEF i
    <3>2. w[i] = g[i]
      BY <1>9, <1>12, <3>1
    <3> QED
      BY <3>2 DEF i
  <2>3. Nat \subseteq Q
    <3> HIDE DEF Q
    <3> QED
      BY <2>1, <2>2, NatInductive
  <2> QED
    BY <1>1, <2>3
\* The table: row2 after i characters.
<1> DEFINE D == [i \in 0..n |-> [j \in 0..m |-> g[i][2][j + 1]]]
<1>14. ASSUME NEW i \in 0..n
       PROVE  g[i][2] \in [1..m + 1 -> Nat]
  <2>1. g[i] \in X
    BY <1>7
  <2> QED
    BY <2>1 DEF X, R, Row
<1>15. D \in [0..n -> [0..m -> Nat]]
  <2>1. ASSUME NEW i \in 0..n, NEW j \in 0..m
        PROVE  g[i][2][j + 1] \in Nat
    <3>1. j + 1 \in 1..m + 1
      BY <1>1
    <3> QED
      BY <1>14, <3>1
  <2> QED
    BY <2>1
<1>16. ASSUME NEW i \in 0..n, NEW j \in 0..m
       PROVE  D[i][j] = g[i][2][j + 1]
  OBVIOUS
<1> HIDE DEF D
<1>17. ASSUME NEW i \in 1..n
       PROVE  g[i][1] = g[i - 1][2] /\ RowOf(g[i][2], s, t, i, m, g[i - 1][1], g[i - 1][2])
  BY <1>4, <1>9
<1>18. ASSUME NEW i \in 0..n
       PROVE  D[i][0] = i
  <2>0. 0 \in 0..m /\ 0 + 1 = 1 /\ 1 \in 1..m + 1
    BY <1>1
  <2>1. D[i][0] = g[i][2][1]
    BY <1>16, <2>0
  <2>2. CASE i = 0
    BY <1>2, <1>3, <1>8, <2>0, <2>1, <2>2
  <2>3. CASE i \in 1..n
    BY <1>17, <2>1, <2>3 DEF RowOf
  <2> QED
    BY <1>1, <2>2, <2>3
<1>19. ASSUME NEW j \in 0..m
       PROVE  D[0][j] = j
  <2>1. 0 \in 0..n /\ j + 1 \in 1..m + 1 /\ j + 1 - 1 = j
    BY <1>1
  <2>2. D[0][j] = top[j + 1]
    BY <1>3, <1>8, <1>16, <2>1
  <2> QED
    BY <1>2, <2>1, <2>2
<1>20. ASSUME NEW i \in 1..n, NEW j \in 1..m
       PROVE  CellOf(D[i][j], D[i][j - 1], D[i - 1][j], D[i - 1][j - 1], D[i - 2][j - 2],
                     s[i] = t[j], Swaps(s, t, i, j))
  <2> DEFINE r == g[i][2]
             r2 == g[i - 1][2]
             r1 == g[i - 1][1]
  <2>1. /\ i \in 0..n /\ i - 1 \in 0..n /\ j \in 0..m /\ j - 1 \in 0..m /\ j - 1 + 1 = j
    BY <1>1
  <2>2. CellOf(r[j + 1], r[j], r2[j + 1], r2[j], r1[j - 1], s[i] = t[j], Swaps(s, t, i, j))
    BY <1>17 DEF RowOf
  <2>3. D[i][j] = r[j + 1] /\ D[i][j - 1] = r[j] /\ D[i - 1][j] = r2[j + 1] /\ D[i - 1][j - 1] = r2[j]
    BY <1>16, <2>1
  <2>4. CASE Swaps(s, t, i, j)
    <3>1. i - 1 \in 1..n /\ i - 2 \in 0..n /\ j - 2 \in 0..m /\ i - 1 - 1 = i - 2 /\ j - 2 + 1 = j - 1
      BY <1>1, <2>4 DEF Swaps
    <3>2. r1 = g[i - 2][2]
      BY <1>17, <3>1
    <3>3. D[i - 2][j - 2] = r1[j - 1]
      BY <1>16, <3>1, <3>2
    <3> QED
      BY <2>2, <2>3, <3>3
  <2>5. CASE ~Swaps(s, t, i, j)
    BY <2>2, <2>3, <2>5 DEF CellOf
  <2> QED
    BY <2>4, <2>5
<1>21. Table(D, s, t, n, m)
  BY <1>15, <1>18, <1>19, <1>20 DEF Table
<1>22. distance(s, t) = D[n][m]
  <2>0. n \in 0..n /\ m \in 0..m
    BY <1>1
  <2>1. distance(s, t) = IF s = <<>> THEN m ELSE IF t = <<>> THEN n ELSE w[n][2][m + 1]
    BY DEF distance, w, Is, first, zeros, top, n, m, Rot
  <2>2. CASE s = <<>>
    <3>1. n = 0
      BY <2>2 DEF n
    <3>2. distance(s, t) = m
      BY <2>1, <2>2
    <3> QED
      BY <1>19, <2>0, <3>1, <3>2
  <2>3. CASE s # <<>> /\ t = <<>>
    <3>1. m = 0
      BY <2>3 DEF m
    <3>2. distance(s, t) = n
      BY <2>1, <2>3
    <3> QED
      BY <1>18, <2>0, <3>1, <3>2
  <2>4. CASE s # <<>> /\ t # <<>>
    <3>1. distance(s, t) = w[n][2][m + 1]
      BY <2>1, <2>4
    <3>2. w[n] = g[n]
      BY <1>13, <2>0
    <3> QED
      BY <1>16, <2>0, <3>1, <3>2
  <2> QED
    BY <2>2, <2>3, <2>4
<1> QED
  BY <1>21, <1>22 DEF n, m

\* A cell of a table and its neighbours.
LEMMA TableCell ==
    ASSUME NEW D, NEW s, NEW t, NEW n \in Nat, NEW m \in Nat, Table(D, s, t, n, m)
    PROVE  /\ \A i \in 0..n, j \in 0..m : D[i][j] \in Nat
           /\ \A i \in 0..n : D[i][0] = i
           /\ \A j \in 0..m : D[0][j] = j
           /\ \A i \in 1..n, j \in 1..m :
                CellOf(D[i][j], D[i][j - 1], D[i - 1][j], D[i - 1][j - 1], D[i - 2][j - 2],
                       s[i] = t[j], Swaps(s, t, i, j))
BY DEF Table

\* D and E agree where D is defined.
Agree(D, E, n, m) == \A i \in 0..n, j \in 0..m : D[i][j] = E[i][j]

\* Tables of strings that begin alike begin alike.
LEMMA TablesAgree ==
    ASSUME NEW D, NEW s, NEW t, NEW n \in Nat, NEW m \in Nat, Table(D, s, t, n, m),
           NEW E, NEW a, NEW b, NEW n2 \in Nat, NEW m2 \in Nat, Table(E, a, b, n2, m2),
           n <= n2, m <= m2, Alike(a, s, n), Alike(b, t, m)
    PROVE  Agree(D, E, n, m)
<1> DEFINE P == {k \in Nat : \A i \in 0..n, j \in 0..m : i + j = k => D[i][j] = E[i][j]}
<1>1. ASSUME NEW k \in Nat, \A h \in 0..(k - 1) : h \in P
      PROVE  k \in P
  <2> SUFFICES ASSUME NEW i \in 0..n, NEW j \in 0..m, i + j = k
               PROVE  D[i][j] = E[i][j]
    OBVIOUS
  <2>1. ASSUME NEW p \in 0..n, NEW q \in 0..m, p + q < k
        PROVE  D[p][q] = E[p][q]
    <3>1. p + q \in 0..(k - 1)
      BY <2>1
    <3> QED
      BY <1>1, <3>1
  <2>2. i \in 0..n2 /\ j \in 0..m2 /\ i \in Nat /\ j \in Nat
    OBVIOUS
  <2>3. CASE i = 0
    <3>1. \A q \in 0..m : D[0][q] = q
      BY TableCell
    <3>2. \A q \in 0..m2 : E[0][q] = q
      BY TableCell
    <3>3. D[0][j] = j /\ E[0][j] = j
      BY <2>2, <3>1, <3>2
    <3> QED
      BY <2>3, <3>3
  <2>4. CASE j = 0
    <3>1. \A q \in 0..n : D[q][0] = q
      BY TableCell
    <3>2. \A q \in 0..n2 : E[q][0] = q
      BY TableCell
    <3>3. D[i][0] = i /\ E[i][0] = i
      BY <2>2, <3>1, <3>2
    <3> QED
      BY <2>4, <3>3
  <2>5. CASE i # 0 /\ j # 0
    <3>1. /\ i \in 1..n /\ j \in 1..m /\ i \in 1..n2 /\ j \in 1..m2
          /\ i - 1 \in 0..n /\ j - 1 \in 0..m
      BY <2>2, <2>5
    <3> DEFINE x == D[i][j]
               y == E[i][j]
               l == D[i][j - 1]
               u == D[i - 1][j]
               d == D[i - 1][j - 1]
               f == D[i - 2][j - 2]
               same == s[i] = t[j]
               swaps == Swaps(s, t, i, j)
    <3>2. CellOf(x, l, u, d, f, same, swaps)
      BY <3>1, TableCell
    <3>3. CellOf(y, E[i][j - 1], E[i - 1][j], E[i - 1][j - 1], E[i - 2][j - 2],
                 a[i] = b[j], Swaps(a, b, i, j))
      BY <3>1, TableCell, ZenonT(60)
    <3>4. l = E[i][j - 1] /\ u = E[i - 1][j] /\ d = E[i - 1][j - 1]
      BY <2>1, <3>1
    <3>5. (a[i] = b[j]) = same
      BY <3>1 DEF Alike
    <3>6. Swaps(a, b, i, j) = swaps
      <4>1. i > 1 /\ j > 1 => i - 1 \in 1..n /\ j - 1 \in 1..m
        BY <2>2, <3>1
      <4> QED
        BY <3>1, <4>1 DEF Swaps, Alike
    <3>7. swaps => f = E[i - 2][j - 2] /\ f \in Nat
      <4> SUFFICES ASSUME swaps
                   PROVE  f = E[i - 2][j - 2] /\ f \in Nat
        OBVIOUS
      <4>1. i - 2 \in 0..n /\ j - 2 \in 0..m /\ (i - 2) + (j - 2) < k
        BY <2>2, <3>1 DEF Swaps
      <4> QED
        <5>1. \A p \in 0..n, q \in 0..m : D[p][q] \in Nat
          BY TableCell
        <5> QED
          BY <2>1, <4>1, <5>1
    <3>8. x \in Nat /\ l \in Nat /\ u \in Nat /\ d \in Nat
      BY <3>1, TableCell
    <3>9. y \in Nat
      BY <2>2, TableCell
    <3>10. CellOf(y, l, u, d, f, same, swaps)
      <4>1. CASE swaps
        BY <3>3, <3>4, <3>5, <3>6, <3>7, <4>1
      <4>2. CASE ~swaps
        <5> HIDE DEF x, y, l, u, d, f, same, swaps
        <5> QED
          BY <3>3, <3>4, <3>5, <3>6, <4>2 DEF CellOf
      <4> QED
        BY <4>1, <4>2
    <3> HIDE DEF x, y, l, u, d, f, same, swaps
    <3>11. x = y
      <4>1. swaps => f \in Nat
        BY <3>7
      <4> QED
        BY <3>2, <3>8, <3>9, <3>10, <4>1 DEF CellOf
    <3> QED
      BY <3>11 DEF x, y
  <2> QED
    BY <2>3, <2>4, <2>5
<1>2. Nat \subseteq P
  <2> HIDE DEF P
  <2> QED
    BY <1>1, NatStrong
<1>3. ASSUME NEW i \in 0..n, NEW j \in 0..m
      PROVE  D[i][j] = E[i][j]
  <2>1. i + j \in Nat
    OBVIOUS
  <2> QED
    BY <1>2, <2>1
<1> QED
  BY <1>3 DEF Agree

\* A table the other way round.
LEMMA TableTurned ==
    ASSUME NEW D, NEW s, NEW t, NEW n \in Nat, NEW m \in Nat, Table(D, s, t, n, m)
    PROVE  Table([j \in 0..m |-> [i \in 0..n |-> D[i][j]]], t, s, m, n)
<1> DEFINE E == [j \in 0..m |-> [i \in 0..n |-> D[i][j]]]
<1>1. \A i \in 0..n, j \in 0..m : D[i][j] \in Nat
  BY TableCell
<1>2. E \in [0..m -> [0..n -> Nat]]
  BY <1>1
<1>3. \A i \in 0..n, j \in 0..m : E[j][i] = D[i][j]
  OBVIOUS
<1> HIDE DEF E
<1>4. \A j \in 0..m : E[j][0] = j
  <2>1. \A j \in 0..m : D[0][j] = j
    BY TableCell
  <2>2. 0 \in 0..n
    OBVIOUS
  <2> QED
    BY <1>3, <2>1, <2>2
<1>5. \A i \in 0..n : E[0][i] = i
  <2>1. \A i \in 0..n : D[i][0] = i
    BY TableCell
  <2>2. 0 \in 0..m
    OBVIOUS
  <2> QED
    BY <1>3, <2>1, <2>2
<1>6. ASSUME NEW j \in 1..m, NEW i \in 1..n
      PROVE  CellOf(E[j][i], E[j][i - 1], E[j - 1][i], E[j - 1][i - 1], E[j - 2][i - 2],
                    t[j] = s[i], Swaps(t, s, j, i))
  <2> DEFINE x == D[i][j]
             l == D[i][j - 1]
             u == D[i - 1][j]
             d == D[i - 1][j - 1]
             f == D[i - 2][j - 2]
             same == s[i] = t[j]
             swaps == Swaps(s, t, i, j)
  <2>1. CellOf(x, l, u, d, f, same, swaps)
    BY TableCell
  <2>2. i \in 0..n /\ j \in 0..m /\ i - 1 \in 0..n /\ j - 1 \in 0..m
    OBVIOUS
  <2>3. E[j][i] = x /\ E[j - 1][i] = l /\ E[j][i - 1] = u /\ E[j - 1][i - 1] = d
    BY <1>3, <2>2
  <2>4. swaps => E[j - 2][i - 2] = f
    <3> SUFFICES ASSUME swaps
                 PROVE  E[j - 2][i - 2] = f
      OBVIOUS
    <3>1. i - 2 \in 0..n /\ j - 2 \in 0..m
      BY DEF Swaps
    <3> QED
      BY <1>3, <3>1
  <2>5. Swaps(t, s, j, i) <=> swaps
    BY DEF Swaps
  <2>6. (t[j] = s[i]) <=> same
    OBVIOUS
  <2> HIDE DEF x, l, u, d, f, same, swaps
  <2> QED
    BY <2>1, <2>3, <2>4, <2>5, <2>6 DEF CellOf
<1>7. Table(E, t, s, m, n)
  BY <1>2, <1>4, <1>5, <1>6 DEF Table
<1> QED
  BY <1>7 DEF E

\* One cell, its neighbours as numbers.
LEMMA TableAt ==
    ASSUME NEW D, NEW s, NEW t, NEW n \in Nat, NEW m \in Nat, Table(D, s, t, n, m),
           NEW i \in 1..n, NEW j \in 1..m
    PROVE  /\ D[i][j] \in Nat /\ D[i][j - 1] \in Nat /\ D[i - 1][j] \in Nat
           /\ D[i - 1][j - 1] \in Nat
           /\ Swaps(s, t, i, j) => D[i - 2][j - 2] \in Nat /\ i - 2 \in 0..n /\ j - 2 \in 0..m
           /\ CellOf(D[i][j], D[i][j - 1], D[i - 1][j], D[i - 1][j - 1], D[i - 2][j - 2],
                     s[i] = t[j], Swaps(s, t, i, j))
<1>1. i \in 0..n /\ i - 1 \in 0..n /\ j \in 0..m /\ j - 1 \in 0..m
  OBVIOUS
<1>2. Swaps(s, t, i, j) => i - 2 \in 0..n /\ j - 2 \in 0..m
  BY DEF Swaps
<1>3. \A p \in 0..n, q \in 0..m : D[p][q] \in Nat
  BY TableCell
<1>4. CellOf(D[i][j], D[i][j - 1], D[i - 1][j], D[i - 1][j - 1], D[i - 2][j - 2],
             s[i] = t[j], Swaps(s, t, i, j))
  BY TableCell
<1> QED
  BY <1>1, <1>2, <1>3, <1>4

\* A distance is at least the difference of the lengths, and at most the
\* longer one.
Between(x, i, j) == x >= i - j /\ x >= j - i /\ (x <= i \/ x <= j)

\* Every cell of a table is between the bounds.
LEMMA TableBounds ==
    ASSUME NEW D, NEW s, NEW t, NEW n \in Nat, NEW m \in Nat, Table(D, s, t, n, m)
    PROVE  \A i \in 0..n, j \in 0..m : Between(D[i][j], i, j)
<1> DEFINE P == {k \in Nat : \A i \in 0..n, j \in 0..m : i + j = k => Between(D[i][j], i, j)}
<1>1. ASSUME NEW k \in Nat, \A h \in 0..(k - 1) : h \in P
      PROVE  k \in P
  <2> SUFFICES ASSUME NEW i \in 0..n, NEW j \in 0..m, i + j = k
               PROVE  Between(D[i][j], i, j)
    OBVIOUS
  <2>1. ASSUME NEW p \in 0..n, NEW q \in 0..m, p + q < k
        PROVE  Between(D[p][q], p, q)
    <3>1. p + q \in 0..(k - 1)
      BY <2>1
    <3> QED
      BY <1>1, <3>1
  <2>2. CASE i = 0
    <3>1. D[0][j] = j
      BY TableCell
    <3> QED
      BY <2>2, <3>1 DEF Between
  <2>3. CASE j = 0
    <3>1. D[i][0] = i
      BY TableCell
    <3> QED
      BY <2>3, <3>1 DEF Between
  <2>4. CASE i # 0 /\ j # 0
    <3>1. i \in 1..n /\ j \in 1..m /\ i - 1 \in 0..n /\ j - 1 \in 0..m
      BY <2>4
    <3> DEFINE x == D[i][j]
               l == D[i][j - 1]
               u == D[i - 1][j]
               d == D[i - 1][j - 1]
               f == D[i - 2][j - 2]
               same == s[i] = t[j]
               swaps == Swaps(s, t, i, j)
    <3>2. /\ x \in Nat /\ l \in Nat /\ u \in Nat /\ d \in Nat
          /\ swaps => f \in Nat /\ i - 2 \in 0..n /\ j - 2 \in 0..m
          /\ CellOf(x, l, u, d, f, same, swaps)
      BY <3>1, TableAt
    <3>3. Between(l, i, j - 1) /\ Between(u, i - 1, j) /\ Between(d, i - 1, j - 1)
      BY <2>1, <3>1
    <3>4. swaps => Between(f, i - 2, j - 2)
      BY <2>1, <3>2
    <3> HIDE DEF x, l, u, d, f, same, swaps
    <3>5. Between(x, i, j)
      BY <3>1, <3>2, <3>3, <3>4 DEF Between, CellOf
    <3> QED
      BY <3>5 DEF x
  <2> QED
    BY <2>2, <2>3, <2>4
<1>2. Nat \subseteq P
  <2> HIDE DEF P
  <2> QED
    BY <1>1, NatStrong
<1>3. ASSUME NEW i \in 0..n, NEW j \in 0..m
      PROVE  Between(D[i][j], i, j)
  <2>1. i + j \in Nat
    OBVIOUS
  <2> QED
    BY <1>2, <2>1
<1> QED
  BY <1>3

\* One character less of s changes the distance by at most one.
LEMMA TableSteps ==
    ASSUME NEW D, NEW s, NEW t, NEW n \in Nat, NEW m \in Nat, Table(D, s, t, n, m)
    PROVE  \A i \in 1..n, j \in 0..m : D[i - 1][j] <= D[i][j] + 1
<1> DEFINE P == {k \in Nat : \A i \in 1..n : k \in 0..m => D[i - 1][k] <= D[i][k] + 1}
<1>1. 0 \in P
  <2>1. ASSUME NEW i \in 1..n
        PROVE  D[i - 1][0] <= D[i][0] + 1
    <3>1. D[i - 1][0] = i - 1 /\ D[i][0] = i
      <4>1. i - 1 \in 0..n /\ i \in 0..n
        OBVIOUS
      <4>2. \A q \in 0..n : D[q][0] = q
        BY TableCell
      <4> QED
        BY <4>1, <4>2
    <3> QED
      BY <3>1
  <2> QED
    BY <2>1
<1>2. ASSUME NEW h \in Nat, h \in P
      PROVE  h + 1 \in P
  <2> SUFFICES ASSUME NEW i \in 1..n, h + 1 \in 0..m
               PROVE  D[i - 1][h + 1] <= D[i][h + 1] + 1
    OBVIOUS
  <2> DEFINE j == h + 1
  <2>1. j \in 1..m /\ h \in 0..m /\ j - 1 = h
    OBVIOUS
  <2>2. D[i - 1][h] <= D[i][h] + 1
    BY <1>2, <2>1
  <2> HIDE DEF j
  <2> DEFINE x == D[i][j]
             l == D[i][j - 1]
             u == D[i - 1][j]
             d == D[i - 1][j - 1]
             f == D[i - 2][j - 2]
             same == s[i] = t[j]
             swaps == Swaps(s, t, i, j)
  <2>3. /\ x \in Nat /\ l \in Nat /\ u \in Nat /\ d \in Nat
        /\ swaps => f \in Nat /\ i - 2 \in 0..n /\ j - 2 \in 0..m
        /\ CellOf(x, l, u, d, f, same, swaps)
    BY <2>1, TableAt
  <2>4. d <= l + 1
    BY <2>1, <2>2
  \* The cell above, and the one it comes from.
  <2>5. u <= d + 1
    <3>1. CASE i = 1
      <4>1. D[0][j] = j /\ D[0][j - 1] = j - 1
        <5>1. \A q \in 0..m : D[0][q] = q
          BY TableCell
        <5>2. j \in 0..m /\ j - 1 \in 0..m
          BY <2>1
        <5> QED
          BY <5>1, <5>2
      <4> QED
        BY <2>1, <3>1, <4>1
    <3>2. CASE i # 1
      <4>1. i - 1 \in 1..n
        BY <3>2
      <4>2. /\ D[i - 1][j] \in Nat /\ D[i - 1][j - 1] \in Nat /\ D[i - 1 - 1][j] \in Nat
            /\ CellOf(D[i - 1][j], D[i - 1][j - 1], D[i - 1 - 1][j], D[i - 1 - 1][j - 1],
                      D[i - 1 - 2][j - 2], s[i - 1] = t[j], Swaps(s, t, i - 1, j))
        BY <2>1, <4>1, TableAt, ZenonT(60)
      <4> QED
        BY <4>2 DEF CellOf
    <3> QED
      BY <3>1, <3>2
  <2>6. swaps => d <= f + 1
    <3> SUFFICES ASSUME swaps
                 PROVE  d <= f + 1
      OBVIOUS
    <3> DEFINE p == i - 1
               q == j - 1
    <3>1. p \in 1..n /\ q \in 1..m /\ p - 1 = i - 2 /\ q - 1 = j - 2
      BY <2>1 DEF Swaps
    <3> HIDE DEF p, q
    <3>2. D[p][q] <= D[p - 1][q - 1] + 1
      BY <3>1, TableAt DEF CellOf
    <3> QED
      BY <3>1, <3>2 DEF p, q
  <2> HIDE DEF x, l, u, d, f, same, swaps
  <2>7. u <= x + 1
    BY <2>3, <2>4, <2>5, <2>6 DEF CellOf
  <2> QED
    BY <2>7 DEF x, u, j
<1>3. Nat \subseteq P
  <2> HIDE DEF P
  <2> QED
    BY <1>1, <1>2, NatInductive
<1>4. ASSUME NEW i \in 1..n, NEW j \in 0..m
      PROVE  D[i - 1][j] <= D[i][j] + 1
  BY <1>3
<1> QED
  BY <1>4

\* The same for t.
LEMMA TableStepsAcross ==
    ASSUME NEW D, NEW s, NEW t, NEW n \in Nat, NEW m \in Nat, Table(D, s, t, n, m)
    PROVE  \A i \in 0..n, j \in 1..m : D[i][j - 1] <= D[i][j] + 1
<1> DEFINE E == [j \in 0..m |-> [i \in 0..n |-> D[i][j]]]
<1>1. Table(E, t, s, m, n)
  BY TableTurned
<1>2. \A i \in 0..n, j \in 0..m : E[j][i] = D[i][j]
  OBVIOUS
<1> HIDE DEF E
<1>3. \A j \in 1..m, i \in 0..n : E[j - 1][i] <= E[j][i] + 1
  BY <1>1, TableSteps
<1>4. ASSUME NEW i \in 0..n, NEW j \in 1..m
      PROVE  D[i][j - 1] <= D[i][j] + 1
  <2>1. j - 1 \in 0..m /\ j \in 0..m
    OBVIOUS
  <2>2. E[j - 1][i] = D[i][j - 1] /\ E[j][i] = D[i][j]
    BY <1>2, <2>1
  <2> QED
    BY <1>3, <2>2
<1> QED
  BY <1>4

\* The same character at the end of both adds nothing.
LEMMA TableSame ==
    ASSUME NEW D, NEW s, NEW t, NEW n \in Nat, NEW m \in Nat, Table(D, s, t, n, m),
           NEW i \in 1..n, NEW j \in 1..m, s[i] = t[j]
    PROVE  D[i][j] = D[i - 1][j - 1]
<1> DEFINE x == D[i][j]
           l == D[i][j - 1]
           u == D[i - 1][j]
           d == D[i - 1][j - 1]
           f == D[i - 2][j - 2]
           same == s[i] = t[j]
           swaps == Swaps(s, t, i, j)
<1>1. /\ x \in Nat /\ l \in Nat /\ u \in Nat /\ d \in Nat
      /\ swaps => f \in Nat
      /\ CellOf(x, l, u, d, f, same, swaps)
  BY TableAt
<1>2. d <= l + 1
  <2>1. j - 1 \in 0..m
    OBVIOUS
  <2> QED
    BY <2>1, TableSteps
<1>3. d <= u + 1
  <2>1. i - 1 \in 0..n
    OBVIOUS
  <2> QED
    BY <2>1, TableStepsAcross
<1>4. swaps => d <= f
  <2> SUFFICES ASSUME swaps
               PROVE  d <= f
    OBVIOUS
  <2> DEFINE p == i - 1
             q == j - 1
  <2>0. i > 1 /\ j > 1 /\ s[i] = t[q] /\ t[j] = s[p]
    BY DEF Swaps
  <2>1. p \in 1..n /\ q \in 1..m /\ p - 1 = i - 2 /\ q - 1 = j - 2
    BY <2>0
  <2> HIDE DEF p, q
  <2>3. s[p] = t[q]
    BY <2>0
  <2>2. D[p][q] <= D[p - 1][q - 1]
    BY <2>1, <2>3, TableAt DEF CellOf
  <2> QED
    BY <2>1, <2>2 DEF p, q
<1>5. same
  OBVIOUS
<1> HIDE DEF x, l, u, d, f, same, swaps
<1>6. x = d
  BY <1>1, <1>2, <1>3, <1>4, <1>5 DEF CellOf
<1> QED
  BY <1>6 DEF x, d

ZeroAlike(D, s, t, n, m) ==
    \A i \in 0..n, j \in 0..m : D[i][j] = 0 <=> i = j /\ Alike(s, t, i)

\* A distance of 0 is equality.
LEMMA TableZero ==
    ASSUME NEW D, NEW s, NEW t, NEW n \in Nat, NEW m \in Nat, Table(D, s, t, n, m)
    PROVE  ZeroAlike(D, s, t, n, m)
<1> DEFINE P == {k \in Nat : k \in 0..n /\ k \in 0..m => (D[k][k] = 0 <=> Alike(s, t, k))}
<1>1. 0 \in P
  <2>1. 0 \in 0..n /\ 0 \in 0..m
    OBVIOUS
  <2>2. D[0][0] = 0
    BY <2>1, TableCell
  <2>3. Alike(s, t, 0)
    BY DEF Alike
  <2> QED
    BY <2>2, <2>3
<1>2. ASSUME NEW h \in Nat, h \in P
      PROVE  h + 1 \in P
  <2> SUFFICES ASSUME h + 1 \in 0..n, h + 1 \in 0..m
               PROVE  D[h + 1][h + 1] = 0 <=> Alike(s, t, h + 1)
    OBVIOUS
  <2> DEFINE i == h + 1
  <2>1. i \in 1..n /\ i \in 1..m /\ h \in 0..n /\ h \in 0..m /\ i - 1 = h
    OBVIOUS
  <2>2. D[h][h] = 0 <=> Alike(s, t, h)
    BY <1>2, <2>1
  <2>3. Alike(s, t, i) <=> Alike(s, t, h) /\ s[i] = t[i]
    <3>1. 1..i = (1..h) \cup {i}
      OBVIOUS
    <3> HIDE DEF i
    <3> QED
      BY <3>1 DEF Alike
  <2> HIDE DEF i
  <2>4. CASE s[i] = t[i]
    <3>1. D[i][i] = D[i - 1][i - 1]
      BY <2>1, <2>4, TableSame, SMTT(40)
    <3>2. D[i][i] = D[h][h]
      BY <2>1, <3>1
    <3>3. D[i][i] = 0 <=> Alike(s, t, i)
      BY <2>2, <2>3, <2>4, <3>2
    <3> QED
      BY <3>3 DEF i
  <2>5. CASE s[i] # t[i]
    <3>1. D[i][i] \in Nat /\ D[i][i] # 0
      <4> DEFINE x == D[i][i]
                 l == D[i][i - 1]
                 u == D[i - 1][i]
                 d == D[i - 1][i - 1]
                 f == D[i - 2][i - 2]
                 same == s[i] = t[i]
                 swaps == Swaps(s, t, i, i)
      <4>1. /\ x \in Nat /\ l \in Nat /\ u \in Nat /\ d \in Nat
            /\ swaps => f \in Nat
            /\ CellOf(x, l, u, d, f, same, swaps)
        BY <2>1, TableAt, ZenonT(60)
      <4>2. ~same
        BY <2>5
      <4> HIDE DEF x, l, u, d, f, same, swaps
      <4>3. x \in Nat /\ x # 0
        BY <4>1, <4>2 DEF CellOf
      <4> QED
        BY <4>3 DEF x
    <3>2. D[i][i] = 0 <=> Alike(s, t, i)
      BY <2>3, <2>5, <3>1
    <3> QED
      BY <3>2 DEF i
  <2> QED
    BY <2>4, <2>5
<1>3. Nat \subseteq P
  <2> HIDE DEF P
  <2> QED
    BY <1>1, <1>2, NatInductive
<1>4. ASSUME NEW i \in 0..n, NEW j \in 0..m
      PROVE  D[i][j] = 0 <=> i = j /\ Alike(s, t, i)
  <2>1. CASE i = j
    <3>1. i \in P
      BY <1>3
    <3> QED
      BY <2>1, <3>1
  <2>2. CASE i # j
    <3>1. Between(D[i][j], i, j)
      BY TableBounds
    <3>2. D[i][j] # 0
      BY <2>2, <3>1 DEF Between
    <3> QED
      BY <2>2, <3>2
  <2> QED
    BY <2>1, <2>2
<1> QED
  BY <1>4 DEF ZeroAlike

\* The four edits: what the first i characters of s and j of t have in
\* common.
Deleted(s, t, i, j) ==
    i = j + 1 /\ \E p \in 1..i : Alike(s, t, p - 1) /\ \A q \in p..j : s[q + 1] = t[q]

Replaced(s, t, i, j) ==
    i = j /\ \E p \in 1..i : /\ s[p] # t[p]
                             /\ \A q \in (1..i) \ {p} : s[q] = t[q]

Exchanged(s, t, i, j) ==
    i = j /\ \E p \in 1..i - 1 :
        /\ s[p] # t[p] /\ s[p] = t[p + 1] /\ s[p + 1] = t[p]
        /\ \A q \in (1..i) \ {p, p + 1} : s[q] = t[q]

OneEdit(s, t, i, j) ==
    \/ Deleted(s, t, i, j) \/ Deleted(t, s, j, i)
    \/ Replaced(s, t, i, j) \/ Exchanged(s, t, i, j)

\* An edit stays one when the same character follows.
LEMMA EditsExtend ==
    ASSUME NEW s, NEW t, NEW i \in Nat \ {0}, NEW j \in Nat \ {0}, s[i] = t[j],
           OneEdit(s, t, i - 1, j - 1)
    PROVE  OneEdit(s, t, i, j)
<1>1. ASSUME NEW a, NEW b, NEW x \in Nat \ {0}, NEW y \in Nat \ {0}, a[x] = b[y],
             Deleted(a, b, x - 1, y - 1)
      PROVE  Deleted(a, b, x, y)
  <2>1. PICK p \in 1..(x - 1) : Alike(a, b, p - 1) /\ \A q \in p..(y - 1) : a[q + 1] = b[q]
    BY <1>1 DEF Deleted
  <2>2. x = y + 1
    BY <1>1 DEF Deleted
  <2>3. p \in 1..x
    OBVIOUS
  <2>4. \A q \in p..y : q \in p..(y - 1) \/ (q = y /\ q + 1 = x)
    BY <2>2
  <2>5. \A q \in p..y : a[q + 1] = b[q]
    BY <1>1, <2>1, <2>4
  <2> QED
    BY <2>1, <2>2, <2>3, <2>5 DEF Deleted
<1>2. CASE Deleted(s, t, i - 1, j - 1)
  BY <1>1, <1>2 DEF OneEdit
<1>3. CASE Deleted(t, s, j - 1, i - 1)
  BY <1>1, <1>3 DEF OneEdit
<1>4. CASE Replaced(s, t, i - 1, j - 1)
  <2>1. PICK p \in 1..(i - 1) : s[p] # t[p] /\ \A q \in (1..(i - 1)) \ {p} : s[q] = t[q]
    BY <1>4 DEF Replaced
  <2>2. i = j /\ p \in 1..i
    BY <1>4 DEF Replaced
  <2>3. \A q \in (1..i) \ {p} : q \in (1..(i - 1)) \ {p} \/ q = i
    OBVIOUS
  <2>4. \A q \in (1..i) \ {p} : s[q] = t[q]
    BY <2>1, <2>2, <2>3
  <2> QED
    BY <2>1, <2>2, <2>4 DEF OneEdit, Replaced
<1>5. CASE Exchanged(s, t, i - 1, j - 1)
  <2>1. PICK p \in 1..(i - 1 - 1) :
          /\ s[p] # t[p] /\ s[p] = t[p + 1] /\ s[p + 1] = t[p]
          /\ \A q \in (1..(i - 1)) \ {p, p + 1} : s[q] = t[q]
    BY <1>5 DEF Exchanged
  <2>2. i = j /\ p \in 1..(i - 1)
    BY <1>5 DEF Exchanged
  <2>3. \A q \in (1..i) \ {p, p + 1} : q \in (1..(i - 1)) \ {p, p + 1} \/ q = i
    OBVIOUS
  <2>4. \A q \in (1..i) \ {p, p + 1} : s[q] = t[q]
    BY <2>1, <2>2, <2>3
  <2> QED
    BY <2>1, <2>2, <2>4 DEF OneEdit, Exchanged
<1> QED
  BY <1>2, <1>3, <1>4, <1>5 DEF OneEdit

\* Strings one edit apart are not equal.
LEMMA EditsDiffer ==
    ASSUME NEW s, NEW t, NEW i \in Nat, NEW j \in Nat, OneEdit(s, t, i, j)
    PROVE  ~(i = j /\ Alike(s, t, i))
<1> SUFFICES ASSUME i = j, Alike(s, t, i)
             PROVE  FALSE
  OBVIOUS
<1>1. ~Deleted(s, t, i, j) /\ ~Deleted(t, s, j, i)
  BY DEF Deleted
<1>2. ~Replaced(s, t, i, j)
  BY DEF Replaced, Alike
<1>3. ~Exchanged(s, t, i, j)
  <2> SUFFICES ASSUME NEW p \in 1..i - 1, s[p] # t[p]
               PROVE  FALSE
    BY DEF Exchanged
  <2>1. p \in 1..i
    OBVIOUS
  <2> QED
    BY <2>1 DEF Alike
<1> QED
  BY <1>1, <1>2, <1>3 DEF OneEdit

\* A distance of 1 is an edit.
LEMMA TableOneEdit ==
    ASSUME NEW D, NEW s, NEW t, NEW n \in Nat, NEW m \in Nat, Table(D, s, t, n, m)
    PROVE  \A i \in 0..n, j \in 0..m : D[i][j] = 1 => OneEdit(s, t, i, j)
<1>z. \A p \in 0..n, q \in 0..m : D[p][q] = 0 <=> p = q /\ Alike(s, t, p)
  <2>1. ZeroAlike(D, s, t, n, m)
    BY TableZero
  <2> QED
    BY <2>1 DEF ZeroAlike
<1> DEFINE P == {k \in Nat : \A j \in 0..m : k \in 0..n /\ D[k][j] = 1 => OneEdit(s, t, k, j)}
<1>0. ASSUME NEW a, NEW b
      PROVE  Deleted(a, b, 1, 0)
  <2>1. Alike(a, b, 1 - 1) /\ \A q \in 1..0 : a[q + 1] = b[q]
    BY DEF Alike
  <2>2. 1 \in 1..1 /\ 1 = 0 + 1
    OBVIOUS
  <2> QED
    BY <2>1, <2>2 DEF Deleted
<1>1. 0 \in P
  <2> SUFFICES ASSUME NEW j \in 0..m, D[0][j] = 1
               PROVE  OneEdit(s, t, 0, j)
    OBVIOUS
  <2>1. j = 1
    BY TableCell
  <2> QED
    BY <1>0, <2>1 DEF OneEdit
<1>2. ASSUME NEW h \in Nat, h \in P
      PROVE  h + 1 \in P
  <2> SUFFICES ASSUME NEW j \in 0..m, h + 1 \in 0..n, D[h + 1][j] = 1
               PROVE  OneEdit(s, t, h + 1, j)
    OBVIOUS
  <2> DEFINE i == h + 1
  <2>1. i \in 1..n /\ h \in 0..n /\ i - 1 = h /\ i \in 0..n /\ D[i][j] = 1
    OBVIOUS
  <2> HIDE DEF i
  <2>2. CASE j = 0
    <3>1. D[i][0] = i
      BY <2>1, TableCell
    <3>2. i = 1
      BY <2>1, <2>2, <3>1
    <3> QED
      BY <1>0, <2>2, <3>2 DEF OneEdit, i
  <2>3. CASE j # 0
    <3>1. j \in 1..m /\ j - 1 \in 0..m
      BY <2>3
    <3> DEFINE x == D[i][j]
               l == D[i][j - 1]
               u == D[i - 1][j]
               d == D[i - 1][j - 1]
               f == D[i - 2][j - 2]
               same == s[i] = t[j]
               swaps == Swaps(s, t, i, j)
    <3>3. /\ x \in Nat /\ l \in Nat /\ u \in Nat /\ d \in Nat
          /\ swaps => f \in Nat /\ i - 2 \in 0..n /\ j - 2 \in 0..m
          /\ CellOf(x, l, u, d, f, same, swaps)
      BY <2>1, <3>1, TableAt
    <3>4. x = 1
      BY <2>1
    <3>5. l = 0 \/ u = 0 \/ (~same /\ d = 0) \/ (same /\ d = 1) \/ (swaps /\ f = 0)
      <4> HIDE DEF x, l, u, d, f, same, swaps
      <4> QED
        BY <3>3, <3>4 DEF CellOf
    <3>6. CASE same
      <4>1. D[i][j] = D[i - 1][j - 1]
        BY <2>1, <3>1, <3>6, TableSame, SMTT(40)
      <4>2. D[h][j - 1] = 1
        BY <2>1, <4>1
      <4>3. OneEdit(s, t, i - 1, j - 1)
        BY <1>2, <2>1, <3>1, <4>2
      <4>4. OneEdit(s, t, i, j)
        BY <2>1, <3>1, <3>6, <4>3, EditsExtend, SMTT(40)
      <4> QED
        BY <4>4 DEF i
    <3>7. CASE l = 0
      <4>1. i = j - 1 /\ Alike(s, t, i)
        BY <2>1, <3>1, <1>z, <3>7
      <4>2. Alike(t, s, j - 1)
        BY <4>1 DEF Alike
      <4>3. j \in 1..j /\ j = i + 1 /\ \A q \in j..i : t[q + 1] = s[q]
        BY <3>1, <4>1
      <4>4. Deleted(t, s, j, i)
        BY <4>2, <4>3 DEF Deleted
      <4> QED
        BY <4>4 DEF OneEdit, i
    <3>8. CASE u = 0
      <4>1. j = i - 1 /\ Alike(s, t, i - 1)
        BY <2>1, <3>1, <1>z, <3>8
      <4>3. i \in 1..i /\ i = j + 1 /\ \A q \in i..j : s[q + 1] = t[q]
        BY <2>1, <4>1
      <4>4. Deleted(s, t, i, j)
        BY <4>1, <4>3 DEF Deleted
      <4> QED
        BY <4>4 DEF OneEdit, i
    <3>9. CASE ~same /\ d = 0
      <4>1. i - 1 = j - 1 /\ Alike(s, t, i - 1)
        BY <2>1, <3>1, <1>z, <3>9
      <4>2. i = j /\ s[i] # t[i] /\ i \in 1..i
        BY <2>1, <3>1, <3>9, <4>1
      <4>3. \A q \in (1..i) \ {i} : q \in 1..i - 1
        BY <2>1
      <4>4. \A q \in (1..i) \ {i} : s[q] = t[q]
        BY <4>1, <4>3 DEF Alike
      <4>5. Replaced(s, t, i, j)
        BY <4>2, <4>4 DEF Replaced
      <4> QED
        BY <4>5 DEF OneEdit, i
    <3>10. CASE ~same /\ swaps /\ f = 0
      <4>1. i - 2 = j - 2 /\ Alike(s, t, i - 2)
        BY <1>z, <3>3, <3>10
      <4> DEFINE p == i - 1
      <4>2. i > 1 /\ i = j /\ s[i] = t[p] /\ t[i] = s[p] /\ s[i] # t[i]
        BY <2>1, <3>1, <3>10, <4>1 DEF Swaps
      <4>3. p \in 1..i - 1 /\ p + 1 = i
        BY <2>1, <4>2
      <4>4. \A q \in (1..i) \ {p, p + 1} : q \in 1..i - 2
        BY <2>1, <4>3
      <4> HIDE DEF p
      <4>5. \A q \in (1..i) \ {p, p + 1} : s[q] = t[q]
        BY <4>1, <4>4 DEF Alike
      <4>6. s[p] # t[p] /\ s[p] = t[p + 1] /\ s[p + 1] = t[p]
        BY <4>2, <4>3
      <4>7. Exchanged(s, t, i, j)
        BY <4>2, <4>3, <4>5, <4>6 DEF Exchanged
      <4> QED
        BY <4>7 DEF OneEdit, i
    <3> QED
      BY <3>5, <3>6, <3>7, <3>8, <3>9, <3>10
  <2> QED
    BY <2>2, <2>3
<1>3. Nat \subseteq P
  <2> HIDE DEF P
  <2> QED
    BY <1>1, <1>2, NatInductive
<1>4. ASSUME NEW i \in 0..n, NEW j \in 0..m, D[i][j] = 1
      PROVE  OneEdit(s, t, i, j)
  BY <1>3, <1>4
<1> QED
  BY <1>4

\* The k characters of s behind a are those of t behind b.
GoOnAlike(s, t, a, b, k) == \A q \in 1..k : s[a + q] = t[b + q]

\* The same k characters behind both do not add to the distance.
LEMMA TableSlides ==
    ASSUME NEW D, NEW s, NEW t, NEW n \in Nat, NEW m \in Nat, Table(D, s, t, n, m),
           NEW a \in 0..n, NEW b \in 0..m, NEW k \in Nat, a + k <= n, b + k <= m,
           GoOnAlike(s, t, a, b, k)
    PROVE  D[a + k][b + k] = D[a][b]
<1>0. ASSUME NEW i \in 1..n, NEW j \in 1..m, s[i] = t[j]
      PROVE  D[i][j] = D[i - 1][j - 1]
  <2>1. Table(D, s, t, n, m) /\ n \in Nat /\ m \in Nat /\ i \in 1..n /\ j \in 1..m /\ s[i] = t[j]
    BY <1>0
  <2> QED
    BY ONLY <2>1, TableSame
<1> DEFINE P == {h \in Nat : h <= k => D[a + h][b + h] = D[a][b]}
<1>1. 0 \in P
  OBVIOUS
<1>2. ASSUME NEW h \in Nat, h \in P
      PROVE  h + 1 \in P
  <2> SUFFICES ASSUME h + 1 <= k
               PROVE  D[a + (h + 1)][b + (h + 1)] = D[a][b]
    OBVIOUS
  <2> DEFINE i == a + (h + 1)
             j == b + (h + 1)
  <2>1. i \in 1..n /\ j \in 1..m /\ i - 1 = a + h /\ j - 1 = b + h
    OBVIOUS
  <2>2. s[i] = t[j]
    <3>1. h + 1 \in 1..k
      OBVIOUS
    <3> QED
      BY <3>1 DEF GoOnAlike
  <2>3. D[a + h][b + h] = D[a][b]
    BY <1>2
  <2> HIDE DEF i, j
  <2>4. D[i][j] = D[i - 1][j - 1]
    BY <1>0, <2>1, <2>2
  <2>5. D[i][j] = D[a][b]
    BY <2>1, <2>3, <2>4
  <2> QED
    BY <2>5 DEF i, j
<1>3. Nat \subseteq P
  <2> HIDE DEF P
  <2> QED
    BY <1>1, <1>2, NatInductive
<1> QED
  BY <1>3

\* An edit is a distance of 1.
LEMMA TableEditOne ==
    ASSUME NEW D, NEW s, NEW t, NEW n \in Nat, NEW m \in Nat, Table(D, s, t, n, m),
           OneEdit(s, t, n, m)
    PROVE  D[n][m] = 1
<1>1. n \in 0..n /\ m \in 0..m
  OBVIOUS
<1>2. \A p \in 0..n, q \in 0..m : D[p][q] = 0 <=> p = q /\ Alike(s, t, p)
  <2>1. ZeroAlike(D, s, t, n, m)
    BY TableZero
  <2> QED
    BY <2>1 DEF ZeroAlike
<1>3. D[n][m] \in Nat /\ D[n][m] # 0
  <2>1. ~(n = m /\ Alike(s, t, n))
    BY EditsDiffer
  <2> QED
    BY <1>1, <1>2, <2>1, TableCell
\* It is enough to find the 1 where the edit is.
<1>4. ASSUME NEW a \in 1..n, NEW b \in 1..m, NEW k \in Nat, a + k = n, b + k = m,
             GoOnAlike(s, t, a, b, k), D[a][b] <= 1
      PROVE  D[n][m] = 1
  <2>1. a \in 0..n /\ b \in 0..m
    OBVIOUS
  <2>3. a + k <= n /\ b + k <= m
    BY <1>4
  <2>2. D[a + k][b + k] = D[a][b]
    BY <1>4, <2>1, <2>3, TableSlides
  <2> QED
    BY <1>3, <1>4, <2>2
<1>5. CASE Deleted(s, t, n, m)
  <2>1. PICK p \in 1..n : Alike(s, t, p - 1) /\ \A q \in p..m : s[q + 1] = t[q]
    BY <1>5 DEF Deleted
  <2>2. n = m + 1 /\ p - 1 \in 0..n /\ p - 1 \in 0..m /\ p \in 0..n
    BY <1>5 DEF Deleted
  <2> DEFINE a == p
             b == p - 1
             k == m - b
  <2>3. k \in Nat /\ a + k = n /\ b + k = m /\ a \in 0..n /\ b \in 0..m
    BY <2>2
  <2>4. \A q \in 1..k : b + q \in p..m /\ b + q + 1 = a + q
    BY <2>2
  <2>5. GoOnAlike(s, t, a, b, k)
    BY <2>1, <2>4 DEF GoOnAlike
  <2>6. D[b][b] = 0
    BY <1>2, <2>1, <2>2
  <2>7. D[a][b] <= 1
    <3>1. CASE b = 0
      <4>0. \A q \in 0..n : D[q][0] = q
        BY TableCell
      <4>1. D[a][0] = a
        BY <2>3, <4>0
      <4> QED
        BY <3>1, <4>1
    <3>2. CASE b # 0
      <4>1. a \in 1..n /\ b \in 1..m /\ a - 1 = b
        BY <2>2, <3>2
      <4> HIDE DEF a, b
      <4>2. D[a][b] <= D[a - 1][b] + 1
        BY <4>1, TableAt DEF CellOf
      <4> QED
        BY <2>6, <4>1, <4>2
    <3> QED
      BY <3>1, <3>2
  <2> HIDE DEF a, b, k
  <2>8. D[a + k][b + k] = D[a][b]
    <3>1. a + k <= n /\ b + k <= m
      BY <2>3
    <3> QED
      BY <2>3, <2>5, <3>1, TableSlides
  <2> QED
    BY <1>3, <2>3, <2>7, <2>8
<1>6. CASE Deleted(t, s, m, n)
  <2>1. PICK p \in 1..m : Alike(t, s, p - 1) /\ \A q \in p..n : t[q + 1] = s[q]
    BY <1>6 DEF Deleted
  <2>2. m = n + 1 /\ p - 1 \in 0..n /\ p - 1 \in 0..m /\ p \in 0..m
    BY <1>6 DEF Deleted
  <2> DEFINE b == p
             a == p - 1
             k == n - a
  <2>3. k \in Nat /\ a + k = n /\ b + k = m /\ a \in 0..n /\ b \in 0..m
    BY <2>2
  <2>4. \A q \in 1..k : a + q \in p..n /\ a + q + 1 = b + q
    BY <2>2
  <2>5. GoOnAlike(s, t, a, b, k)
    BY <2>1, <2>4 DEF GoOnAlike
  <2>6. D[a][a] = 0
    BY <1>2, <2>1, <2>2 DEF Alike
  <2>7. D[a][b] <= 1
    <3>1. CASE a = 0
      <4>0. \A q \in 0..m : D[0][q] = q
        BY TableCell
      <4>1. D[0][b] = b
        BY <2>3, <4>0
      <4> QED
        BY <3>1, <4>1
    <3>2. CASE a # 0
      <4>1. a \in 1..n /\ b \in 1..m /\ b - 1 = a
        BY <2>2, <3>2
      <4> HIDE DEF a, b
      <4>2. D[a][b] <= D[a][b - 1] + 1
        BY <4>1, TableAt DEF CellOf
      <4> QED
        BY <2>6, <4>1, <4>2
    <3> QED
      BY <3>1, <3>2
  <2> HIDE DEF a, b, k
  <2>8. D[a + k][b + k] = D[a][b]
    <3>1. a + k <= n /\ b + k <= m
      BY <2>3
    <3> QED
      BY <2>3, <2>5, <3>1, TableSlides
  <2> QED
    BY <1>3, <2>3, <2>7, <2>8
<1>7. CASE Replaced(s, t, n, m)
  <2>1. PICK p \in 1..n : s[p] # t[p] /\ \A q \in (1..n) \ {p} : s[q] = t[q]
    BY <1>7 DEF Replaced
  <2>2. n = m /\ p \in 1..m /\ p - 1 \in 0..n /\ p - 1 \in 0..m
    BY <1>7 DEF Replaced
  <2>3. Alike(s, t, p - 1)
    <3>1. \A q \in 1..p - 1 : q \in (1..n) \ {p}
      OBVIOUS
    <3> QED
      BY <2>1, <3>1 DEF Alike
  <2>4. D[p - 1][p - 1] = 0
    BY <1>2, <2>2, <2>3
  <2>5. D[p][p] <= D[p - 1][p - 1] + 1
    BY <2>2, TableAt DEF CellOf
  <2> DEFINE k == n - p
  <2>6. k \in Nat /\ p + k = n /\ p + k = m /\ \A q \in 1..k : p + q \in (1..n) \ {p}
    BY <2>2
  <2>7. GoOnAlike(s, t, p, p, k)
    BY <2>1, <2>6 DEF GoOnAlike
  <2>8. D[p][p] <= 1
    BY <2>4, <2>5
  <2> HIDE DEF k
  <2> QED
    BY <1>4, <2>2, <2>6, <2>7, <2>8
<1>8. CASE Exchanged(s, t, n, m)
  <2>1. PICK p \in 1..n - 1 : /\ s[p] # t[p] /\ s[p] = t[p + 1] /\ s[p + 1] = t[p]
                              /\ \A q \in (1..n) \ {p, p + 1} : s[q] = t[q]
    BY <1>8 DEF Exchanged
  <2> DEFINE a == p + 1
  <2>2. n = m /\ a \in 1..n /\ a \in 1..m /\ p - 1 \in 0..n /\ p - 1 \in 0..m /\ a - 1 = p /\ a - 2 = p - 1
    BY <1>8 DEF Exchanged
  <2>3. Alike(s, t, p - 1)
    <3>1. \A q \in 1..p - 1 : q \in (1..n) \ {p, p + 1}
      OBVIOUS
    <3> QED
      BY <2>1, <3>1 DEF Alike
  <2>4. D[p - 1][p - 1] = 0
    BY <1>2, <2>2, <2>3
  <2>5. Swaps(s, t, a, a)
    BY <2>1, <2>2 DEF Swaps
  <2> DEFINE k == n - a
  <2>6. k \in Nat /\ a + k = n /\ a + k = m /\ \A q \in 1..k : a + q \in (1..n) \ {p, p + 1}
    BY <2>2
  <2> HIDE DEF a, k
  <2>7. GoOnAlike(s, t, a, a, k)
    BY <2>1, <2>6 DEF GoOnAlike
  <2>8. D[a][a] <= D[a - 2][a - 2] + 1
    BY <2>2, <2>5, TableAt DEF CellOf
  <2>9. D[a][a] <= 1
    BY <2>2, <2>4, <2>8
  <2> QED
    BY <1>4, <2>2, <2>6, <2>7, <2>9
<1> QED
  BY <1>5, <1>6, <1>7, <1>8 DEF OneEdit

\* r is s without its element at i.
OneLess(r, s, i) ==
    /\ Len(s) = Len(r) + 1
    /\ \A j \in 1..Len(r) : r[j] = s[IF j < i THEN j ELSE j + 1]

\* RemoveAt takes one element out.
LEMMA RemoveAtIs ==
    ASSUME NEW A, NEW s \in Seq(A), NEW i \in 1..Len(s)
    PROVE  RemoveAt(s, i) \in Seq(A) /\ OneLess(RemoveAt(s, i), s, i)
<1> DEFINE n == Len(s)
           a == SubSeq(s, 1, i - 1)
           b == SubSeq(s, i + 1, n)
           r == a \o b
<1>1. n \in Nat /\ i \in Nat /\ i - 1 \in Nat /\ i <= n /\ i >= 1 /\ i + 1 \in Nat \ {0} /\ 1 \in Nat \ {0}
      /\ i - 1 <= n /\ n <= n
  BY LenProperties
<1>2. a \in Seq(A) /\ Len(a) = i - 1 /\ \A j \in 1..i - 1 : a[j] = s[j]
  <2>1. /\ a \in Seq(A) /\ Len(a) = IF 1 <= i - 1 THEN i - 1 - 1 + 1 ELSE 0
        /\ \A j \in 1..(i - 1 - 1 + 1) : a[j] = s[1 + j - 1]
    <3> DEFINE k == i - 1
    <3>1. k \in Nat /\ k <= Len(s)
      BY <1>1
    <3>2. /\ SubSeq(s, 1, k) \in Seq(A)
          /\ Len(SubSeq(s, 1, k)) = IF 1 <= k THEN k - 1 + 1 ELSE 0
          /\ \A j \in 1..(k - 1 + 1) : SubSeq(s, 1, k)[j] = s[1 + j - 1]
      <4> HIDE DEF k
      <4> QED
        BY <1>1, <3>1, PartIs
    <3> QED
      BY <3>2
  <2> HIDE DEF a
  <2> QED
    BY <1>1, <2>1
<1>3. b \in Seq(A) /\ Len(b) = n - i /\ \A j \in 1..n - i : b[j] = s[i + j]
  <2>1. /\ b \in Seq(A) /\ Len(b) = IF i + 1 <= n THEN n - (i + 1) + 1 ELSE 0
        /\ \A j \in 1..(n - (i + 1) + 1) : b[j] = s[(i + 1) + j - 1]
    <3> DEFINE k == i + 1
    <3>1. k \in Nat \ {0}
      BY <1>1
    <3>2. /\ SubSeq(s, k, n) \in Seq(A)
          /\ Len(SubSeq(s, k, n)) = IF k <= n THEN n - k + 1 ELSE 0
          /\ \A j \in 1..(n - k + 1) : SubSeq(s, k, n)[j] = s[k + j - 1]
      <4> HIDE DEF k
      <4> QED
        BY <1>1, <3>1, PartIs
    <3> QED
      BY <3>2
  <2> HIDE DEF b, n
  <2>2. Len(b) = n - i
    BY <1>1, <2>1
  <2>3. \A j \in 1..n - i : j \in 1..(n - (i + 1) + 1) /\ (i + 1) + j - 1 = i + j
    BY <1>1
  <2> QED
    BY <2>1, <2>2, <2>3
<1>4. RemoveAt(s, i) = r
  BY DEF RemoveAt
<1> HIDE DEF a, b, n
<1>5. /\ r \in Seq(A) /\ Len(r) = Len(a) + Len(b)
      /\ \A j \in 1..Len(a) + Len(b) : r[j] = IF j <= Len(a) THEN a[j] ELSE b[j - Len(a)]
  BY <1>2, <1>3, ConcatProperties
<1> HIDE DEF r
<1>6. Len(r) = n - 1 /\ Len(s) = Len(r) + 1
  BY <1>1, <1>2, <1>3, <1>5 DEF n
<1>7. ASSUME NEW j \in 1..Len(r)
      PROVE  r[j] = s[IF j < i THEN j ELSE j + 1]
  <2>1. r[j] = IF j <= Len(a) THEN a[j] ELSE b[j - Len(a)]
    BY <1>5
  <2>2. CASE j < i
    <3>1. j <= Len(a) /\ j \in 1..i - 1
      BY <1>1, <1>2, <2>2
    <3> QED
      BY <1>2, <2>1, <2>2, <3>1
  <2>3. CASE ~(j < i)
    <3> DEFINE k == j - Len(a)
    <3>1. ~(j <= Len(a)) /\ k \in 1..n - i /\ i + k = j + 1
      BY <1>1, <1>2, <1>6, <2>3
    <3> HIDE DEF k
    <3>2. b[k] = s[i + k]
      BY <1>3, <3>1
    <3> QED
      BY <2>1, <2>3, <3>1, <3>2 DEF k
  <2> QED
    BY <2>2, <2>3
<1>8. OneLess(r, s, i)
  BY <1>6, <1>7 DEF OneLess
<1> QED
  BY <1>4, <1>5, <1>8

\* InsertAt puts one element in.
LEMMA InsertAtIs ==
    ASSUME NEW A, NEW s \in Seq(A), NEW i \in 1..Len(s) + 1, NEW c \in A
    PROVE  /\ InsertAt(s, i, c) \in Seq(A) /\ OneLess(s, InsertAt(s, i, c), i)
           /\ InsertAt(s, i, c)[i] = c
<1> DEFINE n == Len(s)
           a == SubSeq(s, 1, i - 1)
           b == SubSeq(s, i, n)
           o == <<c>>
           ac == a \o o
           r == ac \o b
<1>1. n \in Nat /\ i \in Nat \ {0} /\ i - 1 \in Nat /\ i <= n + 1 /\ i >= 1 /\ 1 \in Nat \ {0}
      /\ i - 1 <= n /\ n <= n
  BY LenProperties
<1>2. a \in Seq(A) /\ Len(a) = i - 1 /\ \A j \in 1..i - 1 : a[j] = s[j]
  <2>1. /\ a \in Seq(A) /\ Len(a) = IF 1 <= i - 1 THEN i - 1 - 1 + 1 ELSE 0
        /\ \A j \in 1..(i - 1 - 1 + 1) : a[j] = s[1 + j - 1]
    <3> DEFINE k == i - 1
    <3>1. k \in Nat /\ k <= Len(s)
      BY <1>1
    <3>2. /\ SubSeq(s, 1, k) \in Seq(A)
          /\ Len(SubSeq(s, 1, k)) = IF 1 <= k THEN k - 1 + 1 ELSE 0
          /\ \A j \in 1..(k - 1 + 1) : SubSeq(s, 1, k)[j] = s[1 + j - 1]
      <4> HIDE DEF k
      <4> QED
        BY <1>1, <3>1, PartIs
    <3> QED
      BY <3>2
  <2> HIDE DEF a
  <2> QED
    BY <1>1, <2>1
<1>3. b \in Seq(A) /\ Len(b) = n - i + 1 /\ \A j \in 1..(n - i + 1) : b[j] = s[i + j - 1]
  <2>1. /\ b \in Seq(A) /\ Len(b) = IF i <= n THEN n - i + 1 ELSE 0
        /\ \A j \in 1..(n - i + 1) : b[j] = s[i + j - 1]
    BY <1>1, PartIs
  <2> HIDE DEF b, n
  <2> QED
    BY <1>1, <2>1
<1>4. InsertAt(s, i, c) = r
  BY DEF InsertAt
<1>5. o \in Seq(A) /\ Len(o) = 1 /\ o[1] = c
  OBVIOUS
<1> HIDE DEF a, b, n, o
<1>6. /\ ac \in Seq(A) /\ Len(ac) = Len(a) + Len(o)
      /\ \A j \in 1..Len(a) + Len(o) : ac[j] = IF j <= Len(a) THEN a[j] ELSE o[j - Len(a)]
  BY <1>2, <1>5, ConcatProperties
<1> HIDE DEF ac
<1>7. ac \in Seq(A) /\ Len(ac) = i /\ ac[i] = c /\ \A j \in 1..i - 1 : ac[j] = s[j]
  BY <1>1, <1>2, <1>5, <1>6
<1>8. /\ r \in Seq(A) /\ Len(r) = Len(ac) + Len(b)
      /\ \A j \in 1..Len(ac) + Len(b) : r[j] = IF j <= Len(ac) THEN ac[j] ELSE b[j - Len(ac)]
  BY <1>3, <1>7, ConcatProperties
<1> HIDE DEF r
<1>9. Len(r) = n + 1 /\ Len(r) = Len(s) + 1 /\ r[i] = c
  BY <1>1, <1>3, <1>7, <1>8 DEF n
<1>10. ASSUME NEW j \in 1..Len(s)
       PROVE  s[j] = r[IF j < i THEN j ELSE j + 1]
  <2>1. CASE j < i
    <3>1. j \in 1..Len(ac) + Len(b) /\ j <= Len(ac) /\ j \in 1..i - 1
      BY <1>1, <1>3, <1>7, <2>1
    <3> QED
      BY <1>7, <1>8, <2>1, <3>1
  <2>2. CASE ~(j < i)
    <3> DEFINE p == j + 1
               k == p - i
    <3>1. p \in 1..Len(ac) + Len(b) /\ ~(p <= Len(ac)) /\ k \in 1..(n - i + 1) /\ i + k - 1 = j
          /\ p - Len(ac) = k
      BY <1>1, <1>3, <1>7, <2>2 DEF n
    <3> HIDE DEF p, k
    <3>2. r[p] = b[k]
      BY <1>8, <3>1
    <3>3. b[k] = s[j]
      BY <1>3, <3>1
    <3> QED
      BY <2>2, <3>2, <3>3 DEF p
  <2> QED
    BY <2>1, <2>2
<1>11. OneLess(s, r, i)
  BY <1>9, <1>10 DEF OneLess
<1> QED
  BY <1>4, <1>8, <1>9, <1>11

\* A string without one character, as an edit.
LEMMA LessIsDeleted ==
    ASSUME NEW A, NEW s \in Seq(A), NEW t \in Seq(A)
    PROVE  /\ \A i \in 1..Len(s) : OneLess(t, s, i) => Deleted(s, t, Len(s), Len(t))
           /\ Deleted(s, t, Len(s), Len(t)) => \E i \in 1..Len(s) : OneLess(t, s, i)
<1> DEFINE n == Len(s)
           m == Len(t)
<1>1. n \in Nat /\ m \in Nat
  BY LenProperties
<1>2. ASSUME NEW i \in 1..n, OneLess(t, s, i)
      PROVE  Deleted(s, t, n, m)
  <2>1. n = m + 1 /\ \A j \in 1..m : t[j] = s[IF j < i THEN j ELSE j + 1]
    BY <1>2 DEF OneLess
  <2>2. Alike(s, t, i - 1)
    <3>1. \A q \in 1..i - 1 : q \in 1..m /\ q < i
      BY <1>1, <2>1
    <3> QED
      BY <2>1, <3>1 DEF Alike
  <2>3. \A q \in i..m : q \in 1..m /\ ~(q < i)
    BY <1>1
  <2>4. \A q \in i..m : s[q + 1] = t[q]
    BY <2>1, <2>3
  <2> HIDE DEF n, m
  <2> QED
    BY <2>1, <2>2, <2>4 DEF Deleted
<1>3. ASSUME Deleted(s, t, n, m)
      PROVE  \E i \in 1..n : OneLess(t, s, i)
  <2>1. PICK p \in 1..n : Alike(s, t, p - 1) /\ \A q \in p..m : s[q + 1] = t[q]
    BY <1>3 DEF Deleted
  <2>2. n = m + 1
    BY <1>3 DEF Deleted
  <2>3. ASSUME NEW j \in 1..m
        PROVE  t[j] = s[IF j < p THEN j ELSE j + 1]
    <3>1. CASE j < p
      <4>1. j \in 1..p - 1
        BY <1>1, <3>1
      <4> QED
        BY <2>1, <3>1, <4>1 DEF Alike
    <3>2. CASE ~(j < p)
      <4>1. j \in p..m
        BY <1>1, <3>2
      <4> QED
        BY <2>1, <3>2, <4>1
    <3> QED
      BY <3>1, <3>2
  <2>4. OneLess(t, s, p)
    BY <2>2, <2>3 DEF OneLess
  <2> QED
    BY <2>4
<1> QED
  BY <1>2, <1>3

\* Removing and inserting are the two directions of it.
LEMMA DeletedIs ==
    ASSUME NEW A, NEW s \in Seq(A), NEW t \in Seq(A)
    PROVE  /\ Deleted(s, t, Len(s), Len(t)) <=> \E i \in DOMAIN s : t = RemoveAt(s, i)
           /\ Deleted(t, s, Len(t), Len(s)) <=>
                \E i \in 1..Len(s) + 1, c \in A : t = InsertAt(s, i, c)
<1>1. Len(s) \in Nat /\ DOMAIN s = 1..Len(s) /\ Len(t) \in Nat
  BY LenProperties
<1>2. ASSUME NEW i \in 1..Len(s), OneLess(t, s, i)
      PROVE  t = RemoveAt(s, i)
  <2> DEFINE r == RemoveAt(s, i)
  <2>1. r \in Seq(A) /\ OneLess(r, s, i)
    BY RemoveAtIs
  <2> HIDE DEF r
  <2>2. Len(r) = Len(t)
    <3>1. Len(r) \in Nat
      BY <2>1, LenProperties
    <3> QED
      BY <1>1, <1>2, <2>1, <3>1 DEF OneLess
  <2>3. \A j \in 1..Len(r) : r[j] = t[j]
    BY <1>2, <2>1, <2>2 DEF OneLess
  <2>4. r = t
    BY <2>1, <2>2, <2>3, SeqEqual
  <2> QED
    BY <2>4 DEF r
<1>3. ASSUME NEW i \in 1..Len(t), OneLess(s, t, i)
      PROVE  i \in 1..Len(s) + 1 /\ t[i] \in A /\ t = InsertAt(s, i, t[i])
  <2> DEFINE c == t[i]
             r == InsertAt(s, i, c)
  <2>0. c \in A
    BY <1>1, ElementOfSeq
  <2>1. i \in 1..Len(s) + 1 /\ Len(t) = Len(s) + 1
    BY <1>3 DEF OneLess
  <2> HIDE DEF c
  <2>2. r \in Seq(A) /\ OneLess(s, r, i) /\ r[i] = c
    BY <2>0, <2>1, InsertAtIs
  <2> HIDE DEF r
  <2>3. Len(r) = Len(t)
    BY <2>1, <2>2 DEF OneLess
  <2>4. ASSUME NEW j \in 1..Len(r)
        PROVE  r[j] = t[j]
    <3>1. CASE j < i
      <4>1. j \in 1..Len(s)
        BY <1>1, <2>1, <2>3, <3>1
      <4>2. s[j] = r[IF j < i THEN j ELSE j + 1]
        BY <2>2, <4>1 DEF OneLess
      <4>3. s[j] = t[IF j < i THEN j ELSE j + 1]
        BY <1>3, <4>1 DEF OneLess
      <4> QED
        BY <3>1, <4>2, <4>3
    <3>2. CASE j = i
      BY <2>2, <3>2 DEF c
    <3>3. CASE j > i
      <4> DEFINE k == j - 1
      <4>1. k \in 1..Len(s) /\ ~(k < i) /\ k + 1 = j
        BY <1>1, <2>1, <2>3, <3>3
      <4> HIDE DEF k
      <4>2. s[k] = r[IF k < i THEN k ELSE k + 1]
        BY <2>2, <4>1 DEF OneLess
      <4>3. s[k] = t[IF k < i THEN k ELSE k + 1]
        BY <1>3, <4>1 DEF OneLess
      <4> QED
        BY <4>1, <4>2, <4>3
    <3> QED
      BY <1>1, <2>1, <3>1, <3>2, <3>3
  <2>5. r = t
    BY <2>2, <2>3, <2>4, SeqEqual
  <2> QED
    BY <2>0, <2>1, <2>5 DEF r, c
<1>4. ASSUME Deleted(s, t, Len(s), Len(t))
      PROVE  \E i \in DOMAIN s : t = RemoveAt(s, i)
  <2>1. PICK i \in 1..Len(s) : OneLess(t, s, i)
    BY <1>4, LessIsDeleted
  <2> QED
    BY <1>1, <1>2, <2>1
<1>5. ASSUME NEW i \in DOMAIN s, t = RemoveAt(s, i)
      PROVE  Deleted(s, t, Len(s), Len(t))
  <2>1. i \in 1..Len(s)
    BY <1>1
  <2>2. OneLess(t, s, i)
    BY <1>5, <2>1, RemoveAtIs
  <2> QED
    BY <2>1, <2>2, LessIsDeleted
<1>6. ASSUME Deleted(t, s, Len(t), Len(s))
      PROVE  \E i \in 1..Len(s) + 1, c \in A : t = InsertAt(s, i, c)
  <2>1. PICK i \in 1..Len(t) : OneLess(s, t, i)
    BY <1>6, LessIsDeleted
  <2> QED
    BY <1>3, <2>1
<1>7. ASSUME NEW i \in 1..Len(s) + 1, NEW c \in A, t = InsertAt(s, i, c)
      PROVE  Deleted(t, s, Len(t), Len(s))
  <2>1. OneLess(s, t, i)
    BY <1>7, InsertAtIs
  <2>2. i \in 1..Len(t)
    BY <1>1, <2>1 DEF OneLess
  <2> QED
    BY <2>1, <2>2, LessIsDeleted
<1> QED
  BY <1>4, <1>5, <1>6, <1>7

\* Another character in a place.
LEMMA ReplacedIs ==
    ASSUME NEW A, NEW s \in Seq(A), NEW t \in Seq(A)
    PROVE  Replaced(s, t, Len(s), Len(t)) <=>
             t # s /\ \E i \in DOMAIN s, c \in A : t = [s EXCEPT ![i] = c]
<1>1. Len(s) \in Nat /\ DOMAIN s = 1..Len(s) /\ Len(t) \in Nat
  BY LenProperties
<1>2. ASSUME Replaced(s, t, Len(s), Len(t))
      PROVE  t # s /\ \E i \in DOMAIN s, c \in A : t = [s EXCEPT ![i] = c]
  <2>1. PICK p \in 1..Len(s) : s[p] # t[p] /\ \A q \in (1..Len(s)) \ {p} : s[q] = t[q]
    BY <1>2 DEF Replaced
  <2>2. Len(s) = Len(t)
    BY <1>2 DEF Replaced
  <2> DEFINE c == t[p]
             r == [s EXCEPT ![p] = c]
  <2>3. c \in A
    BY <2>2, ElementOfSeq
  <2> HIDE DEF c
  <2>4. /\ r \in Seq(A) /\ Len(r) = Len(s)
        /\ \A j \in 1..Len(s) : r[j] = IF j = p THEN c ELSE s[j]
    BY <2>3, ExceptSeq
  <2> HIDE DEF r
  <2>5. \A j \in 1..Len(r) : r[j] = t[j]
    BY <2>1, <2>4 DEF c
  <2>6. Len(r) = Len(t)
    BY <2>2, <2>4
  <2>7. r = t
    BY <2>4, <2>5, <2>6, SeqEqual
  <2>8. t = [s EXCEPT ![p] = c]
    BY <2>7 DEF r
  <2> QED
    BY <1>1, <2>1, <2>3, <2>8
<1>3. ASSUME t # s, NEW i \in DOMAIN s, NEW c \in A, t = [s EXCEPT ![i] = c]
      PROVE  Replaced(s, t, Len(s), Len(t))
  <2>1. i \in 1..Len(s)
    BY <1>1
  <2>2. /\ Len(t) = Len(s)
        /\ \A j \in 1..Len(s) : t[j] = IF j = i THEN c ELSE s[j]
    BY <1>3, <2>1, ExceptSeq
  <2>3. \A q \in (1..Len(s)) \ {i} : s[q] = t[q]
    BY <2>2
  <2>4. s[i] # t[i]
    <3> SUFFICES ASSUME s[i] = t[i]
                 PROVE  FALSE
      OBVIOUS
    <3>1. \A q \in 1..Len(s) : s[q] = t[q]
      BY <2>3
    <3>2. s = t
      BY <2>2, <3>1, SeqEqual
    <3> QED
      BY <1>3, <3>2
  <2> QED
    BY <2>1, <2>2, <2>3, <2>4 DEF Replaced
<1> QED
  BY <1>2, <1>3

\* Two neighbours exchanged.
LEMMA ExchangedIs ==
    ASSUME NEW A, NEW s \in Seq(A), NEW t \in Seq(A)
    PROVE  Exchanged(s, t, Len(s), Len(t)) <=>
             /\ t # s
             /\ \E i \in 1..Len(s) - 1 : t = [s EXCEPT ![i] = s[i + 1], ![i + 1] = s[i]]
<1> DEFINE n == Len(s)
           R(i) == [s EXCEPT ![i] = s[i + 1], ![i + 1] = s[i]]
<1>1. n \in Nat /\ Len(t) \in Nat
  BY LenProperties
<1>2. ASSUME NEW i \in 1..n - 1
      PROVE  /\ R(i) \in Seq(A) /\ Len(R(i)) = n
             /\ R(i)[i] = s[i + 1] /\ R(i)[i + 1] = s[i]
             /\ \A j \in (1..n) \ {i, i + 1} : R(i)[j] = s[j]
  <2> DEFINE k == i + 1
             x == s[k]
             y == s[i]
             a == [s EXCEPT ![i] = x]
             b == [a EXCEPT ![k] = y]
  <2>1. i \in 1..n /\ k \in 1..n /\ k # i
    BY <1>1
  <2>2. x \in A /\ y \in A
    BY <2>1, ElementOfSeq
  <2>3. R(i) = b
    OBVIOUS
  <2> HIDE DEF x, y, k
  <2>4. /\ a \in Seq(A) /\ Len(a) = n
        /\ \A j \in 1..n : a[j] = IF j = i THEN x ELSE s[j]
    BY <2>1, <2>2, ExceptSeq
  <2> HIDE DEF a
  <2>5. k \in 1..Len(a)
    BY <2>1, <2>4
  <2>6. /\ b \in Seq(A) /\ Len(b) = Len(a)
        /\ \A j \in 1..Len(a) : b[j] = IF j = k THEN y ELSE a[j]
    BY <2>2, <2>4, <2>5, ExceptSeq
  <2> HIDE DEF b, n
  <2>7. b[i] = x /\ b[k] = y /\ \A j \in (1..n) \ {i, k} : b[j] = s[j]
    BY <2>1, <2>4, <2>6
  <2> QED
    BY <2>3, <2>4, <2>6, <2>7 DEF k, x, y
<1> HIDE DEF R
<1>3. ASSUME Exchanged(s, t, n, Len(t))
      PROVE  t # s /\ \E i \in 1..n - 1 : t = R(i)
  <2>1. PICK p \in 1..n - 1 : /\ s[p] # t[p] /\ s[p] = t[p + 1] /\ s[p + 1] = t[p]
                              /\ \A q \in (1..n) \ {p, p + 1} : s[q] = t[q]
    BY <1>3 DEF Exchanged
  <2>2. n = Len(t)
    BY <1>3 DEF Exchanged
  <2> DEFINE r == R(p)
  <2>3. /\ r \in Seq(A) /\ Len(r) = n
        /\ r[p] = s[p + 1] /\ r[p + 1] = s[p]
        /\ \A j \in (1..n) \ {p, p + 1} : r[j] = s[j]
    BY <1>2
  <2> HIDE DEF r, n
  <2>4. \A j \in 1..n : r[j] = t[j]
    BY <2>1, <2>3
  <2>5. r = t
    BY <2>2, <2>3, <2>4, SeqEqual
  <2> QED
    BY <2>1, <2>5 DEF r
<1>4. ASSUME t # s, NEW i \in 1..n - 1, t = R(i)
      PROVE  Exchanged(s, t, n, Len(t))
  <2>1. /\ Len(t) = n
        /\ t[i] = s[i + 1] /\ t[i + 1] = s[i]
        /\ \A j \in (1..n) \ {i, i + 1} : t[j] = s[j]
    BY <1>2, <1>4
  <2>2. s[i] # t[i]
    <3> SUFFICES ASSUME s[i] = t[i]
                 PROVE  FALSE
      OBVIOUS
    <3>1. \A q \in 1..n : s[q] = t[q]
      BY <2>1
    <3>2. s = t
      BY <2>1, <3>1, SeqEqual
    <3> QED
      BY <1>4, <3>2
  <2> QED
    BY <2>1, <2>2 DEF Exchanged
<1>5. (Exchanged(s, t, n, Len(t))) <=> (t # s /\ \E i \in 1..n - 1 : t = R(i))
  BY <1>3, <1>4
<1> QED
  BY <1>5 DEF R

\* The edits as a set, and as what the strings have in common.
LEMMA EditsAre ==
    ASSUME NEW A, NEW s \in Seq(A), NEW t \in Seq(A)
    PROVE  t \in Edits(s, A) \ {s} <=> OneEdit(s, t, Len(s), Len(t))
<1> DEFINE n == Len(s)
           m == Len(t)
           Rm == \E i \in DOMAIN s : t = RemoveAt(s, i)
           In == \E i \in 1..n + 1, c \in A : t = InsertAt(s, i, c)
           Rp == \E i \in DOMAIN s, c \in A : t = [s EXCEPT ![i] = c]
           Ex == \E i \in 1..n - 1 : t = [s EXCEPT ![i] = s[i + 1], ![i + 1] = s[i]]
           S1 == {RemoveAt(s, i) : i \in DOMAIN s}
           S2 == {InsertAt(s, i, a) : i \in 1..n + 1, a \in A}
           S3 == {[s EXCEPT ![i] = a] : i \in DOMAIN s, a \in A}
           S4 == {[s EXCEPT ![i] = s[i + 1], ![i + 1] = s[i]] : i \in 1..n - 1}
<1>1. t \in Edits(s, A) <=> Rm \/ In \/ Rp \/ Ex
  <2>1. t \in S1 <=> Rm
    BY Zenon
  <2>2. t \in S2 <=> In
    OBVIOUS
  <2>3. t \in S3 <=> Rp
    OBVIOUS
  <2>4. t \in S4 <=> Ex
    BY Zenon
  <2>5. Edits(s, A) = S1 \cup S2 \cup S3 \cup S4
    BY DEF Edits
  <2> HIDE DEF S1, S2, S3, S4, Rm, In, Rp, Ex
  <2> QED
    BY <2>1, <2>2, <2>3, <2>4, <2>5
<1>2. Deleted(s, t, n, m) <=> Rm
  BY DeletedIs
<1>3. Deleted(t, s, m, n) <=> In
  BY DeletedIs
<1>4. Replaced(s, t, n, m) <=> t # s /\ Rp
  BY ReplacedIs
<1>5. Exchanged(s, t, n, m) <=> t # s /\ Ex
  BY ExchangedIs
<1>6. Deleted(s, t, n, m) => t # s
  <2>1. Len(s) \in Nat
    BY LenProperties
  <2> QED
    BY <2>1 DEF Deleted
<1>7. Deleted(t, s, m, n) => t # s
  <2>1. Len(s) \in Nat
    BY LenProperties
  <2> QED
    BY <2>1 DEF Deleted
<1> HIDE DEF Rm, In, Rp, Ex
<1>8. t \in Edits(s, A) \ {s} <=> t \in Edits(s, A) /\ t # s
  OBVIOUS
<1> QED
  BY <1>1, <1>2, <1>3, <1>4, <1>5, <1>6, <1>7, <1>8 DEF OneEdit

\* The distance as the algorithm of distance.hpp gives it: the same in both
\* directions, 0 for equal strings only, 1 exactly for strings one
\* insertion, deletion, substitution or transposition apart, between the
\* difference of the lengths and the longer one, and a character behind both
\* adds nothing.
LEMMA DistanceSays ==
    ASSUME NEW A, NEW s \in Seq(A), NEW t \in Seq(A)
    PROVE  /\ distance(s, t) \in Nat
           /\ distance(s, t) = distance(t, s)
           /\ distance(s, t) = 0 <=> s = t
           /\ distance(s, t) = 1 <=> OneEdit(s, t, Len(s), Len(t))
           /\ Between(distance(s, t), Len(s), Len(t))
           /\ \A a \in A : distance(Append(s, a), Append(t, a)) = distance(s, t)
<1> DEFINE n == Len(s)
           m == Len(t)
<1>1. n \in Nat /\ m \in Nat
  BY LenProperties
<1>2. n \in 0..n /\ m \in 0..m
  BY <1>1
<1>3. PICK D : Table(D, s, t, n, m) /\ distance(s, t) = D[n][m]
  BY DistanceIs
<1>4. D[n][m] \in Nat
  BY <1>1, <1>2, <1>3, TableCell
<1>5. distance(s, t) = distance(t, s)
  <2>1. PICK E : Table(E, t, s, m, n) /\ distance(t, s) = E[m][n]
    BY DistanceIs
  <2> DEFINE F == [j \in 0..m |-> [i \in 0..n |-> D[i][j]]]
  <2>2. Table(F, t, s, m, n)
    BY <1>1, <1>3, TableTurned
  <2>3. F[m][n] = D[n][m]
    BY <1>2
  <2> HIDE DEF F, n, m
  <2>4. Agree(F, E, m, n)
    <3>1. m <= m /\ n <= n /\ Alike(t, t, m) /\ Alike(s, s, n)
      BY <1>1 DEF Alike
    <3> QED
      BY <1>1, <2>1, <2>2, <3>1, TablesAgree
  <2> QED
    BY <1>2, <1>3, <2>1, <2>3, <2>4 DEF Agree
<1>6. distance(s, t) = 0 <=> s = t
  <2>1. ZeroAlike(D, s, t, n, m)
    BY <1>1, <1>3, TableZero
  <2>2. D[n][m] = 0 <=> n = m /\ Alike(s, t, n)
    BY <1>2, <2>1 DEF ZeroAlike
  <2>3. n = m /\ Alike(s, t, n) => s = t
    BY SeqEqual DEF Alike
  <2>4. s = t => n = m /\ Alike(s, t, n)
    BY DEF Alike
  <2> HIDE DEF n, m
  <2> QED
    BY <1>3, <2>2, <2>3, <2>4
<1>7. distance(s, t) = 1 <=> OneEdit(s, t, n, m)
  <2>1. D[n][m] = 1 => OneEdit(s, t, n, m)
    <3>1. \A i \in 0..n, j \in 0..m : D[i][j] = 1 => OneEdit(s, t, i, j)
      BY <1>1, <1>3, TableOneEdit
    <3> QED
      BY <1>2, <3>1
  <2>2. OneEdit(s, t, n, m) => D[n][m] = 1
    BY <1>1, <1>3, TableEditOne
  <2> QED
    BY <1>3, <2>1, <2>2
<1>8. Between(distance(s, t), n, m)
  <2>1. \A i \in 0..n, j \in 0..m : Between(D[i][j], i, j)
    BY <1>1, <1>3, TableBounds
  <2>2. Between(D[n][m], n, m)
    BY <1>2, <2>1
  <2> QED
    BY <1>3, <2>2
<1>9. ASSUME NEW a \in A
      PROVE  distance(Append(s, a), Append(t, a)) = distance(s, t)
  <2> DEFINE x == Append(s, a)
             y == Append(t, a)
             i == n + 1
             j == m + 1
  <2>1. x \in Seq(A) /\ Len(x) = i /\ x[i] = a /\ \A q \in 1..n : x[q] = s[q]
    BY AppendProperties
  <2>2. y \in Seq(A) /\ Len(y) = j /\ y[j] = a /\ \A q \in 1..m : y[q] = t[q]
    BY AppendProperties
  <2>3. i \in Nat /\ j \in Nat /\ n <= i /\ m <= j /\ i \in 1..i /\ j \in 1..j /\ i - 1 = n /\ j - 1 = m
    BY <1>1
  <2> HIDE DEF x, y, i, j, n, m
  <2>4. PICK E : Table(E, x, y, i, j) /\ distance(x, y) = E[i][j]
    BY <2>1, <2>2, DistanceIs
  <2>5. E[i][j] = E[i - 1][j - 1]
    <3>1. x[i] = y[j]
      BY <2>1, <2>2
    <3> QED
      BY <2>3, <2>4, <3>1, TableSame, SMTT(40)
  <2>6. Agree(D, E, n, m)
    <3>1. Alike(x, s, n) /\ Alike(y, t, m)
      BY <2>1, <2>2 DEF Alike
    <3> QED
      BY <1>1, <1>3, <2>3, <2>4, <3>1, TablesAgree
  <2>7. distance(x, y) = distance(s, t)
    BY <1>2, <1>3, <2>3, <2>4, <2>5, <2>6 DEF Agree
  <2> QED
    BY <2>7 DEF x, y
<1> QED
  BY <1>3, <1>4, <1>5, <1>6, <1>7, <1>8, <1>9

-----------------------------------------------------------------------------
(***************************************************************************)
(* The code points of UTF-16 units.                                        *)
(***************************************************************************)

\* The units of characters of S.
Units(S) == [c : S, half : 0..2]

\* What a unit adds.
UnitTaken(y, x) == IF x.half = 2 THEN y ELSE Append(y, x.c)

\* w holds the characters of the beginnings of s.
Scans(w, s, S) ==
    /\ w \in [0..Len(s) -> Seq(S)] /\ w[0] = <<>>
    /\ \A n \in 1..Len(s) : w[n] = UnitTaken(w[n - 1], s[n])

\* to_codepoints scans the units.
LEMMA CodepointsScanned ==
    ASSUME NEW S, NEW s \in Seq(Units(S))
    PROVE  \E w : Scans(w, s, S) /\ to_codepoints(s) = w[Len(s)]
<1> DEFINE X == Seq(S)
           m == Len(s)
           Is(g) == g = [n \in 0..m |-> IF n = 0 THEN <<>>
                                        ELSE UnitTaken(g[n - 1], s[n])]
           w == CHOOSE g : Is(g)
           G == [x \in (1..m) \X X |-> UnitTaken(x[2], s[x[1]])]
<1>1. m \in Nat /\ \A n \in 1..m : s[n] \in Units(S)
  OBVIOUS
<1>2. <<>> \in X
  OBVIOUS
<1>3. \A v \in X, c \in Units(S) : UnitTaken(v, c) \in X
  BY AppendProperties DEF UnitTaken, Units
<1>4. to_codepoints(s) = w[Len(s)]
  BY DEF to_codepoints, UnitTaken, char32At
<1> HIDE DEF X, m, w
<1>5. ASSUME NEW n \in 1..m, NEW v \in X
      PROVE  G[<<n, v>>] = UnitTaken(v, s[n])
  <2>1. <<n, v>> \in (1..m) \X X
    OBVIOUS
  <2> QED
    BY <2>1
<1>6. G \in [(1..m) \X X -> X]
  <2>1. ASSUME NEW x \in (1..m) \X X
        PROVE  UnitTaken(x[2], s[x[1]]) \in X
    BY <1>1, <1>3
  <2> QED
    BY <2>1
<1> HIDE DEF G
<1>7. PICK g \in [0..m -> X] : RecursFrom(g, m, <<>>, G)
  <2> DEFINE r == <<>>
  <2>1. r \in X
    BY <1>2
  <2> HIDE DEF r
  <2>2. \E g \in [0..m -> X] : RecursFrom(g, m, r, G)
    BY <1>1, <1>6, <2>1, IndexedRecursionExists
  <2> QED
    BY <2>2 DEF r
<1>8. Is(g)
  <2>1. g[0] = <<>>
    BY <1>7 DEF RecursFrom
  <2>2. ASSUME NEW n \in 1..m
        PROVE  g[n] = UnitTaken(g[n - 1], s[n])
    <3>1. n - 1 \in 0..m
      BY <1>1
    <3>2. g[n - 1] \in X
      BY <1>7, <3>1
    <3> QED
      BY <1>5, <1>7, <3>2 DEF RecursFrom
  <2>3. ASSUME NEW n \in 0..m
        PROVE  g[n] = IF n = 0 THEN <<>> ELSE UnitTaken(g[n - 1], s[n])
    <3>1. n = 0 \/ n \in 1..m
      BY <1>1
    <3>2. n \in 1..m => n # 0
      BY <1>1
    <3> QED
      BY <2>1, <2>2, <3>1, <3>2, Zenon
  <2> QED
    BY <1>7, <2>3
<1>9. Is(w)
  BY <1>8 DEF w
<1>10. w[0] = <<>> /\ \A n \in 1..m : w[n] = UnitTaken(w[n - 1], s[n])
  BY <1>1, <1>9
<1>11. \A n \in 0..m : w[n] \in X
  <2> DEFINE T == {n \in Nat : n <= m => w[n] \in X}
  <2>1. 0 \in T
    BY <1>2, <1>10
  <2>2. ASSUME NEW n \in Nat, n \in T
        PROVE  n + 1 \in T
    <3> SUFFICES ASSUME n + 1 <= m
                 PROVE  w[n + 1] \in X
      OBVIOUS
    <3> DEFINE k == n + 1
    <3>1. k \in 1..m /\ k - 1 = n /\ w[n] \in X
      BY <1>1, <2>2
    <3> HIDE DEF k
    <3>2. w[k] = UnitTaken(w[n], s[k]) /\ s[k] \in Units(S)
      BY <1>1, <1>10, <3>1
    <3> QED
      BY <1>3, <3>1, <3>2 DEF k
  <2>3. Nat \subseteq T
    <3> HIDE DEF T
    <3> QED
      BY <2>1, <2>2, NatInductive
  <2> QED
    BY <1>1, <2>3
<1>12. w \in [0..m -> X]
  BY <1>9, <1>11
<1> QED
  BY <1>4, <1>10, <1>12 DEF X, m, Scans

\* The code points of nothing, and of one unit more.
LEMMA CodepointsEmpty == to_codepoints(<<>>) = <<>>
<1> DEFINE s == <<>>
<1>1. s \in Seq(Units({})) /\ Len(s) = 0
  OBVIOUS
<1> HIDE DEF s
<1>2. PICK w : Scans(w, s, {}) /\ to_codepoints(s) = w[Len(s)]
  BY <1>1, CodepointsScanned
<1>3. to_codepoints(s) = <<>>
  BY <1>1, <1>2 DEF Scans
<1> QED
  BY <1>3 DEF s

\* One unit more.
LEMMA CodepointsAppend ==
    ASSUME NEW S, NEW s \in Seq(Units(S)), NEW c \in Units(S)
    PROVE  /\ to_codepoints(s) \in Seq(S)
           /\ to_codepoints(Append(s, c)) = UnitTaken(to_codepoints(s), c)
<1> DEFINE t == Append(s, c)
           m == Len(s)
<1>1. /\ t \in Seq(Units(S)) /\ Len(t) = m + 1 /\ t[m + 1] = c /\ m \in Nat
      /\ \A i \in 1..m : t[i] = s[i]
  BY AppendProperties
<1> HIDE DEF t
<1>2. PICK w : Scans(w, s, S) /\ to_codepoints(s) = w[m]
  BY CodepointsScanned
<1>3. PICK v : Scans(v, t, S) /\ to_codepoints(t) = v[Len(t)]
  BY <1>1, CodepointsScanned
<1> HIDE DEF m
<1>4. \A n \in 0..m : v[n] = w[n]
  <2> DEFINE T == {n \in Nat : n <= m => v[n] = w[n]}
  <2>1. 0 \in T
    BY <1>2, <1>3 DEF Scans
  <2>2. ASSUME NEW n \in Nat, n \in T
        PROVE  n + 1 \in T
    <3> SUFFICES ASSUME n + 1 <= m
                 PROVE  v[n + 1] = w[n + 1]
      OBVIOUS
    <3> DEFINE k == n + 1
    <3>1. k \in 1..m /\ k \in 1..Len(t) /\ k - 1 = n /\ v[n] = w[n]
      BY <1>1, <2>2
    <3> HIDE DEF k
    <3>2. w[k] = UnitTaken(w[n], s[k])
      BY <1>2, <3>1 DEF Scans, m
    <3>3. v[k] = UnitTaken(v[n], t[k])
      BY <1>3, <3>1 DEF Scans
    <3>4. t[k] = s[k]
      BY <1>1, <3>1
    <3> QED
      BY <3>1, <3>2, <3>3, <3>4 DEF k
  <2>3. Nat \subseteq T
    <3> HIDE DEF T
    <3> QED
      BY <2>1, <2>2, NatInductive
  <2> QED
    BY <1>1, <2>3
<1>5. v[m + 1] = UnitTaken(v[m], c)
  <2> DEFINE k == m + 1
  <2>1. k \in 1..Len(t) /\ k - 1 = m /\ t[k] = c
    BY <1>1
  <2> HIDE DEF k
  <2> QED
    BY <1>3, <2>1 DEF Scans, k
<1>6. v[m] = w[m] /\ w[m] \in Seq(S)
  <2>1. m \in 0..m
    BY <1>1
  <2> QED
    BY <1>2, <1>4, <2>1 DEF Scans, m
<1> QED
  BY <1>1, <1>2, <1>3, <1>5, <1>6 DEF t

\* The units of one character.
UnitsOfChar(c, Wide) ==
    IF c \in Wide THEN <<[c |-> c, half |-> 1], [c |-> c, half |-> 2]>>
    ELSE <<[c |-> c, half |-> 0]>>

\* The units of nothing, and of one character more.
LEMMA UnitsAppend ==
    ASSUME NEW S, NEW Wide
    PROVE  /\ UnitsOf(<<>>, Wide) = <<>>
           /\ \A s \in Seq(S), c \in S :
                /\ UnitsOfChar(c, Wide) \in Seq(Units(S))
                /\ UnitsOf(Append(s, c), Wide) = UnitsOf(s, Wide) \o UnitsOfChar(c, Wide)
                /\ UnitsOf(s, Wide) \in Seq(Units(S))
<1> DEFINE U == Units(S)
           W(c) == UnitsOfChar(c, Wide)
           All(s) == [k \in DOMAIN s |-> W(s[k])]
<1>1. \A c \in S : W(c) \in Seq(U)
  <2>1. ASSUME NEW c \in S
        PROVE  W(c) \in Seq(U)
    <3> DEFINE x == [c |-> c, half |-> 0]
               y == [c |-> c, half |-> 1]
               z == [c |-> c, half |-> 2]
    <3>1. x \in U /\ y \in U /\ z \in U
      BY DEF Units
    <3>2. W(c) = IF c \in Wide THEN <<y, z>> ELSE <<x>>
      BY DEF UnitsOfChar
    <3> HIDE DEF x, y, z, U, W
    <3>3. <<y, z>> \in Seq(U) /\ <<x>> \in Seq(U)
      BY <3>1
    <3> QED
      BY <3>2, <3>3
  <2> QED
    BY <2>1
<1>2. \A s : UnitsOf(s, Wide) = FlattenSeq(All(s))
  BY DEF UnitsOf, UnitsOfChar
<1> HIDE DEF W, U
<1>3. UnitsOf(<<>>, Wide) = <<>>
  <2>1. All(<<>>) = <<>>
    OBVIOUS
  <2>2. FlattenSeq(<<>>) = <<>>
    BY FlattenAppend
  <2>3. UnitsOf(<<>>, Wide) = FlattenSeq(All(<<>>))
    BY <1>2
  <2> HIDE DEF All
  <2> QED
    BY <2>1, <2>2, <2>3
<1>4. ASSUME NEW s \in Seq(S)
      PROVE  All(s) \in Seq(Seq(U))
  <2>1. Len(s) \in Nat /\ DOMAIN s = 1..Len(s) /\ \A k \in 1..Len(s) : s[k] \in S
    BY LenProperties, ElementOfSeq
  <2>2. \A k \in 1..Len(s) : W(s[k]) \in Seq(U)
    BY <1>1, <2>1
  <2> DEFINE X == Seq(U)
             n == Len(s)
             D == DOMAIN s
  <2>3. [k \in 1..n |-> W(s[k])] \in [1..n -> X]
    BY <2>2
  <2>4. All(s) = [k \in D |-> W(s[k])] /\ D = 1..n /\ n \in Nat
    BY <2>1
  <2> HIDE DEF X, n, D, All
  <2>5. All(s) \in [1..n -> X]
    BY <2>3, <2>4
  <2>6. All(s) \in Seq(X)
    BY <2>4, <2>5, SeqDef
  <2> QED
    BY <2>6 DEF X
<1>5. ASSUME NEW s \in Seq(S), NEW c \in S
      PROVE  All(Append(s, c)) = Append(All(s), W(c))
  <2> DEFINE t == Append(s, c)
             n == Len(s)
             X == Seq(U)
             a == All(s)
             b == All(t)
             x == W(c)
             r == Append(a, x)
  <2>1. t \in Seq(S) /\ Len(t) = n + 1 /\ t[n + 1] = c /\ \A k \in 1..n : t[k] = s[k]
    BY AppendProperties
  <2>2. n \in Nat /\ DOMAIN s = 1..n
    BY LenProperties
  <2> HIDE DEF t
  <2>3. DOMAIN t = 1..Len(t)
    BY <2>1, LenProperties
  <2>4. a \in Seq(X) /\ b \in Seq(X) /\ x \in X
    BY <1>1, <1>4, <2>1
  <2>5. (\A k \in 1..n : a[k] = W(s[k])) /\ (\A k \in 1..n + 1 : b[k] = W(t[k]))
    BY <2>1, <2>2, <2>3
  <2>6. Len(a) = n /\ Len(b) = n + 1
    <3>1. DOMAIN a = 1..n /\ DOMAIN b = 1..(n + 1)
      BY <2>1, <2>2, <2>3
    <3>2. DOMAIN a = 1..Len(a) /\ Len(a) \in Nat /\ DOMAIN b = 1..Len(b) /\ Len(b) \in Nat
      <4> HIDE DEF a, b, X
      <4> QED
        BY <2>4, LenProperties
    <3> HIDE DEF a, b, n
    <3>3. ASSUME NEW p \in Nat, NEW q \in Nat, 1..p = 1..q
          PROVE  p = q
      <4>1. p \in 1..p \/ p = 0
        OBVIOUS
      <4>2. q \in 1..q \/ q = 0
        OBVIOUS
      <4> QED
        BY <3>3, <4>1, <4>2
    <3>4. n + 1 \in Nat
      BY <2>2
    <3> QED
      BY <2>2, <3>1, <3>2, <3>3, <3>4
  <2> HIDE DEF a, b, n, X, x
  <2>7. /\ r \in Seq(X) /\ Len(r) = Len(a) + 1
        /\ \A k \in 1..Len(a) : r[k] = a[k]
        /\ r[Len(a) + 1] = x
    BY <2>4, AppendProperties
  <2> HIDE DEF r
  <2>8. ASSUME NEW k \in 1..Len(b)
        PROVE  b[k] = r[k]
    <3>0. b[k] = W(t[k])
      BY <2>5, <2>6
    <3>1. CASE k \in 1..n
      BY <2>1, <2>5, <2>6, <2>7, <3>0, <3>1
    <3>2. CASE k = n + 1
      BY <2>1, <2>6, <2>7, <3>0, <3>2 DEF x
    <3> QED
      BY <2>2, <2>6, <3>1, <3>2
  <2>9. b = r
    <3>1. Len(b) = Len(r)
      BY <2>6, <2>7
    <3> QED
      BY <2>4, <2>7, <2>8, <3>1, SeqEqual
  <2> QED
    BY <2>9 DEF t, a, b, r, x
<1> HIDE DEF All
<1>6. ASSUME NEW s \in Seq(S), NEW c \in S
      PROVE  UnitsOf(Append(s, c), Wide) = UnitsOf(s, Wide) \o W(c)
  <2> DEFINE a == All(s)
             x == W(c)
  <2>1. a \in Seq(Seq(U)) /\ x \in Seq(U)
    BY <1>1, <1>4
  <2> HIDE DEF a, x
  <2>2. FlattenSeq(Append(a, x)) = FlattenSeq(a) \o x
    BY <2>1, FlattenAppend
  <2> QED
    BY <1>2, <1>5, <2>2 DEF a, x
<1>7. ASSUME NEW s \in Seq(S)
      PROVE  UnitsOf(s, Wide) \in Seq(U)
  BY <1>2, <1>4, FlattenType
<1> QED
  BY <1>1, <1>3, <1>6, <1>7 DEF U, W

\* to_codepoints gives every character of a text once, whatever takes two units.
THEOREM CodepointsKept ==
    ASSUME NEW S, NEW Wide
    PROVE  \A s \in Seq(S) : to_codepoints(UnitsOf(s, Wide)) = s
<1> DEFINE P == {s \in Seq(S) : to_codepoints(UnitsOf(s, Wide)) = s}
<1>1. <<>> \in P
  <2>1. UnitsOf(<<>>, Wide) = <<>>
    BY UnitsAppend
  <2>2. to_codepoints(<<>>) = <<>>
    BY CodepointsEmpty
  <2>3. <<>> \in Seq(S)
    OBVIOUS
  <2> QED
    BY <2>1, <2>2, <2>3
<1>2. ASSUME NEW s \in Seq(S), NEW c \in S, s \in P
      PROVE  Append(s, c) \in P
  <2> DEFINE u == UnitsOf(s, Wide)
             x == [c |-> c, half |-> 0]
             y == [c |-> c, half |-> 1]
             z == [c |-> c, half |-> 2]
  <2>1. u \in Seq(Units(S)) /\ UnitsOf(Append(s, c), Wide) = u \o UnitsOfChar(c, Wide)
    BY UnitsAppend
  <2>2. x \in Units(S) /\ y \in Units(S) /\ z \in Units(S)
    BY DEF Units
  <2>3. x.c = c /\ y.c = c /\ z.c = c /\ x.half = 0 /\ y.half = 1 /\ z.half = 2
    OBVIOUS
  <2>4. UnitsOfChar(c, Wide) = IF c \in Wide THEN <<y, z>> ELSE <<x>>
    BY DEF UnitsOfChar
  <2>5. to_codepoints(u) = s
    BY <1>2
  <2>6. Append(s, c) \in Seq(S)
    BY AppendProperties
  <2> HIDE DEF u, x, y, z
  <2>7. CASE c \in Wide
    <3>1. u \o <<y, z>> = Append(Append(u, y), z)
      BY <2>1, <2>2
    <3>2. Append(u, y) \in Seq(Units(S))
      BY <2>1, <2>2, AppendProperties
    <3>3. to_codepoints(Append(u, y)) = Append(s, c)
      BY <2>1, <2>2, <2>3, <2>5, CodepointsAppend DEF UnitTaken
    <3>4. to_codepoints(Append(Append(u, y), z)) = Append(s, c)
      <4> DEFINE v == Append(u, y)
      <4>1. v \in Seq(Units(S)) /\ to_codepoints(v) = Append(s, c)
        BY <3>2, <3>3
      <4> HIDE DEF v
      <4>2. to_codepoints(Append(v, z)) = Append(s, c)
        BY <2>2, <2>3, <4>1, CodepointsAppend DEF UnitTaken
      <4> QED
        BY <4>2 DEF v
    <3> QED
      BY <2>1, <2>4, <2>6, <2>7, <3>1, <3>4
  <2>8. CASE c \notin Wide
    <3>1. u \o <<x>> = Append(u, x)
      BY <2>1, <2>2
    <3>2. to_codepoints(Append(u, x)) = Append(s, c)
      BY <2>1, <2>2, <2>3, <2>5, CodepointsAppend DEF UnitTaken
    <3> QED
      BY <2>1, <2>4, <2>6, <2>8, <3>1, <3>2
  <2> QED
    BY <2>7, <2>8
<1>3. Seq(S) \subseteq P
  <2> HIDE DEF P
  <2> QED
    BY <1>1, <1>2, SeqInductive
<1> QED
  BY <1>3

\* The distance of any two strings is what it should be: DistanceExact for
\* strings of any characters and any length.
THEOREM DistancesCorrect ==
    ASSUME NEW A, NEW s \in Seq(A), NEW t \in Seq(A)
    PROVE  DistanceExact(s, t, A)
<1> DEFINE d == distance(s, t)
           n == Len(s)
           m == Len(t)
<1>1. /\ d \in Nat /\ d = distance(t, s)
      /\ d = 0 <=> s = t
      /\ d = 1 <=> OneEdit(s, t, n, m)
      /\ Between(d, n, m)
      /\ \A a \in A : distance(Append(s, a), Append(t, a)) = d
  BY DistanceSays
<1>2. n \in Nat /\ m \in Nat
  BY LenProperties
<1>3. (d = 1) = (t \in Edits(s, A) \ {s})
  <2>1. t \in Edits(s, A) \ {s} <=> OneEdit(s, t, n, m)
    BY EditsAre
  <2> HIDE DEF d, n, m
  <2> QED
    BY <1>1, <2>1
<1>4. (d = 0) = (s = t)
  <2> HIDE DEF d
  <2> QED
    BY <1>1
<1>5. d <= Max({n, m}) /\ d >= Max({n - m, m - n})
  <2> HIDE DEF d, n, m
  <2>1. Max({n, m}) = IF n >= m THEN n ELSE m
    BY <1>2, MaxOfTwo
  <2>2. n - m \in Int /\ m - n \in Int
    BY <1>2
  <2>3. Max({n - m, m - n}) = IF n - m >= m - n THEN n - m ELSE m - n
    BY <2>2, MaxOfTwo
  <2> QED
    BY <1>1, <1>2, <2>1, <2>3 DEF Between
<1>6. ASSUME NEW a \in A
      PROVE  icu_distance(UnitsOf(s, {a}), UnitsOf(t, {a})) = d
  <2>1. to_codepoints(UnitsOf(s, {a})) = s /\ to_codepoints(UnitsOf(t, {a})) = t
    <3> DEFINE W == {a}
    <3> HIDE DEF W
    <3>1. \A x \in Seq(A) : to_codepoints(UnitsOf(x, W)) = x
      BY CodepointsKept
    <3> QED
      BY <3>1 DEF W
  <2> QED
    BY <2>1 DEF icu_distance
<1> HIDE DEF d, n, m
<1>7. /\ d = distance(t, s)
      /\ (d = 0) = (s = t)
      /\ (d = 1) = (t \in Edits(s, A) \ {s})
      /\ d <= Max({n, m})
      /\ d >= Max({n - m, m - n})
      /\ \A a \in A : distance(Append(s, a), Append(t, a)) = d
      /\ \A a \in A : icu_distance(UnitsOf(s, {a}), UnitsOf(t, {a})) = d
  BY <1>1, <1>3, <1>4, <1>5, <1>6
<1> QED
  BY <1>7 DEF DistanceExact, d, n, m

\* c[i] is the first of the first k elements of c that is nearest to s.
FirstNearest(s, c, i, k) ==
    /\ i \in 1..k
    /\ \A j \in 1..k : distance(c[i], s) <= distance(c[j], s)
    /\ \A j \in 1..i - 1 : distance(c[j], s) > distance(c[i], s)

\* min_distance finds the first of the nearest.
LEMMA MinDistanceFirst ==
    ASSUME NEW A, NEW s \in Seq(A), NEW c \in Seq(Seq(A)), c # <<>>
    PROVE  \E i \in 1..Len(c) : FirstNearest(s, c, i, Len(c)) /\ min_distance(s, c) = c[i]
<1> DEFINE n == Len(c)
           X == Seq(A)
           r == c[1]
           G == [p \in (1..n) \X X |-> Nearer(s, p[2], c[p[1]])]
           Is(g) == g = [k \in 0..n |-> IF k = 0 THEN r ELSE Nearer(s, g[k - 1], c[k])]
           w == CHOOSE g : Is(g)
           dist(x) == distance(x, s)
<1>1. n \in Nat /\ n > 0 /\ \A k \in 1..n : c[k] \in X
  BY LenProperties, ElementOfSeq, EmptySeq
<1>2. r \in X
  BY <1>1
<1>3. \A x \in X : dist(x) \in Nat
  BY DistanceSays
<1>4. \A x, y \in X : Nearer(s, x, y) \in X /\ Nearer(s, x, y) = IF dist(y) < dist(x) THEN y ELSE x
  BY DEF Nearer
<1>5. min_distance(s, c) = w[n]
  BY DEF min_distance
<1> HIDE DEF n, X, r, w, dist
<1>6. ASSUME NEW k \in 1..n, NEW y \in X
      PROVE  G[<<k, y>>] = Nearer(s, y, c[k])
  <2>1. <<k, y>> \in (1..n) \X X
    OBVIOUS
  <2> QED
    BY <2>1
<1>7. G \in [(1..n) \X X -> X]
  <2>1. ASSUME NEW p \in (1..n) \X X
        PROVE  Nearer(s, p[2], c[p[1]]) \in X
    BY <1>1, <1>4
  <2> QED
    BY <2>1
<1> HIDE DEF G
<1>8. PICK g \in [0..n -> X] : RecursFrom(g, n, r, G)
  BY <1>1, <1>2, <1>7, IndexedRecursionExists
<1>9. g[0] = r /\ \A k \in 1..n : g[k - 1] \in X /\ g[k] = Nearer(s, g[k - 1], c[k])
  <2>1. \A k \in 1..n : k - 1 \in 0..n
    BY <1>1
  <2> QED
    BY <1>6, <1>8, <2>1 DEF RecursFrom
<1>10. Is(g)
  <2>1. ASSUME NEW k \in 0..n
        PROVE  g[k] = IF k = 0 THEN r ELSE Nearer(s, g[k - 1], c[k])
    <3>1. k = 0 \/ (k # 0 /\ k \in 1..n)
      BY <1>1
    <3> QED
      BY <1>9, <3>1
  <2> QED
    BY <1>8, <2>1
<1>11. Is(w)
  <2> HIDE DEF Is
  <2> QED
    BY <1>10 DEF w
<1>12. w[0] = r /\ \A k \in 1..n : w[k] = Nearer(s, w[k - 1], c[k])
  <2>1. 0 \in 0..n /\ \A k \in 1..n : k \in 0..n /\ k # 0
    BY <1>1
  <2> QED
    BY <1>11, <2>1
<1> DEFINE Good(k) == \E i \in 1..k : FirstNearest(s, c, i, k) /\ w[k] = c[i]
           P == {k \in Nat : k + 1 <= n => Good(k + 1)}
<1>13. 0 \in P
  <2>1. 1 \in 1..n /\ 1 - 1 = 0
    BY <1>1
  <2>2. w[1] = Nearer(s, r, r)
    BY <1>12, <2>1 DEF r
  <2>3. w[1] = c[1]
    BY <1>2, <1>4, <2>2 DEF r
  <2>4. dist(r) \in Nat
    BY <1>2, <1>3
  <2>5. FirstNearest(s, c, 1, 1)
    BY <2>4 DEF FirstNearest, dist, r
  <2> QED
    BY <2>3, <2>5
<1>14. ASSUME NEW h \in Nat, h \in P
       PROVE  h + 1 \in P
  <2> DEFINE m == h + 1
             k == m + 1
  <2> SUFFICES ASSUME k <= n
               PROVE  Good(k)
    OBVIOUS
  <2>1. k \in 1..n /\ k - 1 = m /\ m \in 1..n /\ m <= n
    BY <1>1
  <2>2. Good(m)
    BY <1>14, <2>1
  <2> HIDE DEF m, k
  <2>3. PICK i \in 1..m : FirstNearest(s, c, i, m) /\ w[m] = c[i]
    BY <2>2
  <2>4. i \in 1..n /\ i \in 1..k /\ c[i] \in X /\ c[k] \in X /\ k \in 1..k
    BY <1>1, <2>1
  <2>5. w[k] = IF dist(c[k]) < dist(c[i]) THEN c[k] ELSE c[i]
    BY <1>4, <1>12, <2>1, <2>3, <2>4
  <2>6. dist(c[k]) \in Nat /\ dist(c[i]) \in Nat
    BY <1>3, <2>4
  <2>7. \A j \in 1..m : dist(c[j]) \in Nat
    BY <1>1, <1>3, <2>1
  <2>8. (\A j \in 1..m : dist(c[i]) <= dist(c[j])) /\ \A j \in 1..i - 1 : dist(c[j]) > dist(c[i])
    BY <2>3 DEF FirstNearest, dist
  <2>9. \A j \in 1..k : j \in 1..m \/ j = k
    BY <2>1
  <2>10. CASE dist(c[k]) < dist(c[i])
    <3>1. \A j \in 1..m : dist(c[k]) < dist(c[j])
      BY <2>6, <2>7, <2>8, <2>10
    <3>2. ASSUME NEW j \in 1..k
          PROVE  dist(c[k]) <= dist(c[j])
      <4>1. CASE j \in 1..m
        BY <2>6, <2>7, <3>1, <4>1
      <4>2. CASE j = k
        BY <2>6, <4>2
      <4> QED
        BY <2>9, <4>1, <4>2
    <3>3. \A j \in 1..k - 1 : dist(c[j]) > dist(c[k])
      BY <2>1, <2>6, <2>7, <3>1
    <3>4. FirstNearest(s, c, k, k)
      BY <2>4, <3>2, <3>3 DEF FirstNearest, dist
    <3> QED
      BY <2>4, <2>5, <2>10, <3>4
  <2>11. CASE ~(dist(c[k]) < dist(c[i]))
    <3>1. \A j \in 1..k : dist(c[i]) <= dist(c[j])
      BY <2>6, <2>7, <2>8, <2>9, <2>11
    <3>2. FirstNearest(s, c, i, k)
      BY <2>4, <2>8, <3>1 DEF FirstNearest, dist
    <3> QED
      BY <2>4, <2>5, <2>11, <3>2
  <2> QED
    BY <2>10, <2>11
<1>15. Nat \subseteq P
  <2> HIDE DEF P
  <2> QED
    BY <1>13, <1>14, NatInductive
<1>16. Good(n)
  <2> DEFINE h == n - 1
  <2>1. h \in Nat /\ h + 1 = n /\ h + 1 <= n
    BY <1>1
  <2>2. h \in P
    BY <1>15, <2>1
  <2> QED
    BY <2>1, <2>2
<1> QED
  BY <1>5, <1>16 DEF n

\* min_distance gives the first of the nearest elements of any container
\* that is not empty, and min_distance_map_key gives none exactly when all
\* are too far: NearestExact.
THEOREM NearestFound ==
    ASSUME NEW A, NEW s \in Seq(A), NEW c \in Seq(Seq(A)), c # <<>>, NoMatch \notin ToSet(c)
    PROVE  NearestExact(s, c)
<1> DEFINE n == Len(c)
           dist(x) == distance(x, s)
           First(i) == /\ \A j \in DOMAIN c : distance(c[i], s) <= distance(c[j], s)
                       /\ \A j \in 1..i - 1 : distance(c[j], s) > distance(c[i], s)
           k == CHOOSE i \in DOMAIN c : First(i)
<1>1. n \in Nat /\ DOMAIN c = 1..n /\ \A i \in 1..n : c[i] \in Seq(A)
  BY LenProperties, ElementOfSeq
<1>2. \A i \in 1..n : dist(c[i]) \in Nat
  BY <1>1, DistanceSays
<1>3. PICK i \in 1..n : FirstNearest(s, c, i, n) /\ min_distance(s, c) = c[i]
  BY MinDistanceFirst
<1>4. First(i)
  BY <1>1, <1>3 DEF FirstNearest
<1>5. k \in DOMAIN c /\ First(k)
  BY <1>1, <1>4
<1> HIDE DEF k, n
<1>6. k = i
  <2>1. k \in 1..n /\ k \in Nat /\ i \in Nat
    BY <1>1, <1>5
  <2>2. dist(c[k]) \in Nat /\ dist(c[i]) \in Nat /\ dist(c[k]) <= dist(c[i]) /\ dist(c[i]) <= dist(c[k])
    BY <1>1, <1>2, <1>4, <1>5, <2>1
  <2>3. ~(k \in 1..i - 1)
    <3>1. k \in 1..i - 1 => dist(c[k]) > dist(c[i])
      BY <1>4
    <3> HIDE DEF dist
    <3> QED
      BY <2>2, <3>1
  <2>4. ~(i \in 1..k - 1)
    <3>1. i \in 1..k - 1 => dist(c[i]) > dist(c[k])
      BY <1>5
    <3> HIDE DEF dist
    <3> QED
      BY <2>2, <3>1
  <2> QED
    BY <2>1, <2>3, <2>4
<1>7. min_distance(s, c) = c[k]
  BY <1>3, <1>6
<1>8. ASSUME NEW d \in 0..2
      PROVE  (min_distance_map_key(s, c, d) = NoMatch) = (\A x \in ToSet(c) : distance(x, s) > d)
  <2> DEFINE m == c[i]
  <2>1. min_distance_map_key(s, c, d) = IF dist(m) <= d THEN m ELSE NoMatch
    BY <1>3 DEF min_distance_map_key
  <2>2. ToSet(c) = {c[j] : j \in 1..n}
    BY <1>1 DEF ToSet
  <2>3. m \in ToSet(c) /\ m # NoMatch
    <3>1. m \in ToSet(c)
      BY <2>2
    <3> QED
      BY <3>1
  <2>4. \A j \in 1..n : dist(m) <= dist(c[j])
    BY <1>1, <1>4
  <2>5. dist(m) \in Nat
    BY <1>2
  <2>6. (dist(m) > d) <=> (\A x \in ToSet(c) : dist(x) > d)
    <3>1. ASSUME dist(m) > d, NEW x \in ToSet(c)
          PROVE  dist(x) > d
      <4>1. PICK j \in 1..n : x = c[j]
        BY <2>2
      <4>2. dist(c[j]) \in Nat /\ dist(m) <= dist(c[j])
        BY <1>2, <2>4
      <4> HIDE DEF dist, m
      <4> QED
        BY <2>5, <3>1, <4>1, <4>2
    <3> HIDE DEF dist
    <3> QED
      BY <2>3, <3>1
  <2>7. (dist(m) <= d) <=> ~(dist(m) > d)
    <3> HIDE DEF dist, m
    <3> QED
      BY <2>5
  <2>8. (min_distance_map_key(s, c, d) = NoMatch) <=> (\A x \in ToSet(c) : dist(x) > d)
    <3> HIDE DEF dist, m
    <3> QED
      BY <2>1, <2>3, <2>6, <2>7
  <2> QED
    BY <2>8
<1> QED
  BY <1>7, <1>8 DEF NearestExact, k

-----------------------------------------------------------------------------
(***************************************************************************)
(* Accents and marks.                                                      *)
(***************************************************************************)

\* The characters of units, one for each unit.
CharsOf(u) == [i \in DOMAIN u |-> char32At(u, i)]

\* They are a sequence, and one more unit is one more character.
LEMMA CharsAppend ==
    ASSUME NEW S, NEW u \in Seq(Units(S)), NEW x \in Units(S)
    PROVE  /\ CharsOf(u) \in Seq(S) /\ Len(CharsOf(u)) = Len(u)
           /\ CharsOf(Append(u, x)) = Append(CharsOf(u), x.c)
<1> DEFINE n == Len(u)
           v == Append(u, x)
<1>1. n \in Nat /\ DOMAIN u = 1..n /\ \A i \in 1..n : u[i] \in Units(S)
  BY LenProperties, ElementOfSeq
<1>2. v \in Seq(Units(S)) /\ Len(v) = n + 1 /\ v[n + 1] = x /\ \A i \in 1..n : v[i] = u[i]
  BY AppendProperties
<1>3. \A y \in Units(S) : y.c \in S
  BY DEF Units
<1> HIDE DEF v, n
<1>4. DOMAIN v = 1..(n + 1)
  BY <1>2, LenProperties
<1> DEFINE a == CharsOf(u)
           b == CharsOf(v)
<1>5. a = [i \in 1..n |-> u[i].c]
  BY <1>1 DEF CharsOf, char32At
<1>6. b = [i \in 1..(n + 1) |-> v[i].c]
  BY <1>4 DEF CharsOf, char32At
<1> HIDE DEF a, b
<1>7. a \in [1..n -> S]
  BY <1>1, <1>3, <1>5
<1>8. a \in Seq(S) /\ Len(a) = n
  BY <1>1, <1>7
<1>9. b \in [1..(n + 1) -> S]
  <2>1. \A i \in 1..(n + 1) : v[i] \in Units(S)
    BY <1>1, <1>2
  <2> QED
    BY <1>3, <1>6, <2>1
<1>10. b \in Seq(S) /\ Len(b) = n + 1
  BY <1>1, <1>9
<1>11. \A i \in 1..n : b[i] = a[i]
  BY <1>1, <1>2, <1>5, <1>6
<1>12. b[n + 1] = x.c
  BY <1>1, <1>2, <1>6
<1> DEFINE d == Append(a, x.c)
<1>13. d \in Seq(S) /\ Len(d) = n + 1 /\ d[n + 1] = x.c /\ \A i \in 1..n : d[i] = a[i]
  BY <1>1, <1>3, <1>8, AppendProperties
<1> HIDE DEF d
<1>14. \A i \in 1..Len(b) : b[i] = d[i]
  BY <1>1, <1>10, <1>11, <1>12, <1>13
<1>15. b = d
  BY <1>10, <1>13, <1>14, SeqEqual
<1> QED
  BY <1>8, <1>15 DEF a, b, d, n, v

\* Without a character that takes two units, the characters of the units
\* are the characters.
LEMMA CharsOfUnits ==
    ASSUME NEW S, NEW Wide
    PROVE  \A s \in Seq(S) : ToSet(s) \cap Wide = {} => CharsOf(UnitsOf(s, Wide)) = s
<1> DEFINE P == {s \in Seq(S) : ToSet(s) \cap Wide = {} => CharsOf(UnitsOf(s, Wide)) = s}
<1>1. <<>> \in P
  <2>1. UnitsOf(<<>>, Wide) = <<>>
    BY UnitsAppend
  <2>2. CharsOf(<<>>) = <<>>
    BY DEF CharsOf
  <2> QED
    BY <2>1, <2>2
<1>2. ASSUME NEW s \in Seq(S), NEW c \in S, s \in P
      PROVE  Append(s, c) \in P
  <2> DEFINE t == Append(s, c)
             u == UnitsOf(s, Wide)
             x == [c |-> c, half |-> 0]
  <2>1. t \in Seq(S)
    OBVIOUS
  <2> SUFFICES ASSUME ToSet(t) \cap Wide = {}
               PROVE  CharsOf(UnitsOf(t, Wide)) = t
    BY <2>1
  <2>2. c \notin Wide /\ ToSet(s) \cap Wide = {}
    <3>1. \A i \in 1..Len(s) : i \in DOMAIN t /\ t[i] = s[i]
      OBVIOUS
    <3>2. Len(t) \in DOMAIN t /\ t[Len(t)] = c
      OBVIOUS
    <3> HIDE DEF t
    <3> QED
      BY <3>1, <3>2 DEF ToSet
  <2>3. CharsOf(u) = s
    BY <1>2, <2>2
  <2>4. /\ UnitsOfChar(c, Wide) \in Seq(Units(S)) /\ u \in Seq(Units(S))
        /\ UnitsOf(t, Wide) = u \o UnitsOfChar(c, Wide)
    BY UnitsAppend
  <2>5. UnitsOfChar(c, Wide) = <<x>>
    BY <2>2 DEF UnitsOfChar
  <2>6. x \in Units(S) /\ x.c = c
    BY DEF Units
  <2> HIDE DEF u, x
  <2>7. u \o <<x>> = Append(u, x)
    BY <2>4, <2>6
  <2>8. CharsOf(Append(u, x)) = Append(CharsOf(u), x.c)
    BY <2>4, <2>6, CharsAppend
  <2> QED
    BY <2>3, <2>4, <2>5, <2>6, <2>7, <2>8
<1>3. Seq(S) \subseteq P
  <2> HIDE DEF P
  <2> QED
    BY <1>1, <1>2, SeqInductive
<1> QED
  BY <1>3

\* The first of s that is not in D is at k.
FirstOut(s, k, D) ==
    k \in 1..Len(s) /\ s[k] \notin D /\ \A j \in 1..(k - 1) : s[j] \in D

\* It is the first of what is left without D.
LEMMA WithoutFirst ==
    ASSUME NEW S, NEW D
    PROVE  \A s \in Seq(S) : \A k \in Nat :
              FirstOut(s, k, D) => Without(s, D) # <<>> /\ Without(s, D)[1] = s[k]
<1> DEFINE Tells(s) == \A k \in Nat :
              FirstOut(s, k, D) => Without(s, D) # <<>> /\ Without(s, D)[1] = s[k]
           P == {s \in Seq(S) : Tells(s)}
<1>1. <<>> \in P
  BY DEF FirstOut
<1>2. ASSUME NEW s \in Seq(S), NEW c \in S, s \in P
      PROVE  Append(s, c) \in P
  <2> DEFINE t == Append(s, c)
             w == Without(s, D)
             n == Len(s)
  <2>1. t \in Seq(S) /\ Len(t) = n + 1 /\ t[n + 1] = c /\ n \in Nat /\ \A i \in 1..n : t[i] = s[i]
    BY AppendProperties
  <2>2. w \in Seq(S) /\ Without(t, D) = KeptWith(w, c, D)
    BY WithoutAppend
  <2> HIDE DEF t
  <2> SUFFICES ASSUME NEW k \in Nat, FirstOut(t, k, D)
               PROVE  Without(t, D) # <<>> /\ Without(t, D)[1] = t[k]
    BY <2>1 DEF t
  <2>3. k \in 1..(n + 1) /\ t[k] \notin D /\ \A j \in 1..(k - 1) : t[j] \in D
    BY <2>1 DEF FirstOut
  <2>4. CASE k \in 1..n
    <3>1. FirstOut(s, k, D)
      <4>1. \A j \in 1..(k - 1) : j \in 1..n
        BY <2>1, <2>4
      <4> QED
        BY <2>1, <2>3, <2>4, <4>1 DEF FirstOut
    <3>2. w # <<>> /\ w[1] = s[k]
      BY <1>2, <3>1
    <3> HIDE DEF w
    <3>3. Append(w, c) # <<>> /\ Append(w, c)[1] = w[1]
      BY <2>2, <3>2
    <3> QED
      BY <2>1, <2>2, <2>4, <3>2, <3>3 DEF KeptWith
  <2>5. CASE k = n + 1
    <3>1. \A j \in 1..n : s[j] \in D
      BY <2>1, <2>3, <2>5
    <3>2. w = <<>>
      BY <3>1, WithoutBlanks
    <3>3. c \notin D
      BY <2>1, <2>3, <2>5
    <3>4. Without(t, D) = Append(<<>>, c)
      BY <2>2, <3>2, <3>3 DEF KeptWith
    <3> QED
      BY <2>1, <2>5, <3>4
  <2> QED
    BY <2>1, <2>3, <2>4, <2>5
<1>3. Seq(S) \subseteq P
  <2> HIDE DEF P
  <2> QED
    BY <1>1, <1>2, SeqInductive
<1> QED
  BY <1>3

\* What is left of a character beyond ASCII is the first of what is left of
\* its normal form, and of an ASCII character itself.
LEMMA AccentGone ==
    ASSUME NEW S, NEW u \in Seq(Units(S)), NEW N, NEW c \in Int
    PROVE  remove_accent_char(c, u, N) =
              IF c < 128 THEN c ELSE Head(remove_marks(u, N) \o <<c>>)
<1> DEFINE t == CharsOf(u)
           n == Len(u)
           base == {i \in 1..n : t[i] \notin N}
           w == Without(t, N)
           A == S \cup {c}
<1>0. n \in Nat /\ DOMAIN u = 1..n
  BY LenProperties
<1>1. t \in Seq(S) /\ Len(t) = n
  <2>1. CASE u = <<>>
    BY <2>1 DEF CharsOf
  <2>2. CASE u # <<>>
    <3>1. u[1] \in Units(S)
      BY <2>2
    <3> QED
      BY <3>1, CharsAppend
  <2> QED
    BY <2>1, <2>2
<1>2. \A i \in 1..n : char32At(u, i) = t[i]
  BY <1>0 DEF CharsOf
<1>3. remove_marks(u, N) = w
  BY DEF remove_marks, CharsOf
<1>4. {i \in DOMAIN u : char32At(u, i) \notin N} = base
  BY <1>0, <1>2
<1> HIDE DEF t, n
<1>5. remove_accent_char(c, u, N) = IF c < 128 \/ base = {} THEN c ELSE char32At(u, Min(base))
  BY <1>4 DEF remove_accent_char
<1>6. w \in Seq(A) /\ c \in A
  <2>1. w \in Seq(S)
    BY <1>1, WithoutHas
  <2> QED
    BY <2>1, SeqMonotonic
<1>7. CASE base = {}
  <2>1. \A i \in 1..Len(t) : t[i] \in N
    BY <1>1, <1>7
  <2>2. w = <<>>
    BY <1>1, <2>1, WithoutBlanks
  <2>3. Head(w \o <<c>>) = c
    BY <2>2
  <2> QED
    BY <1>3, <1>5, <1>7, <2>3
<1>8. CASE base # {}
  <2> DEFINE k == Min(base)
  <2>1. base \in SUBSET Nat /\ base \in SUBSET (1..n)
    BY <1>0
  <2>2. k \in base /\ \A y \in base : k <= y
    <3> HIDE DEF base
    <3> QED
      BY <1>8, <2>1, MinIsIn
  <2> HIDE DEF k
  <2>3. k \in 1..n /\ t[k] \notin N
    BY <2>2
  <2>4. \A j \in 1..(k - 1) : t[j] \in N
    <3> TAKE j \in 1..(k - 1)
    <3>1. j \in 1..n /\ ~(k <= j)
      BY <1>0, <2>3
    <3> QED
      BY <2>2, <3>1
  <2>5. FirstOut(t, k, N) /\ k \in Nat
    BY <1>0, <1>1, <2>3, <2>4 DEF FirstOut
  <2>6. w # <<>> /\ w[1] = t[k]
    BY <1>1, <2>5, WithoutFirst
  <2> HIDE DEF w
  <2>7. Head(w \o <<c>>) = w[1]
    <3>1. <<c>> \in Seq(A)
      BY <1>6, UnitIs
    <3> DEFINE x == <<c>>
    <3> HIDE DEF x
    <3>2. Joint(w \o x, w, x, A)
      BY <1>6, <3>1, ConcatIs DEF x
    <3>3. 1 \in 1..Len(w)
      BY <1>6, <2>6, EmptySeq
    <3>4. (w \o x)[1] = w[1] /\ w \o x \in Seq(A)
      BY <3>2, <3>3 DEF Joint
    <3>5. \A y \in Seq(A) : Head(y) = y[1]
      OBVIOUS
    <3>6. Head(w \o x) = w[1]
      BY <3>4, <3>5
    <3> QED
      BY <3>6 DEF x
  <2>8. char32At(u, k) = t[k]
    BY <1>2, <2>3
  <2> QED
    BY <1>3, <1>5, <1>8, <2>6, <2>7, <2>8 DEF k, w
<1> QED
  BY <1>7, <1>8

\* Code points and the removal of accents, for texts of any length: each
\* character once, without the marks if no character takes two units, and
\* for a single wchar_t beyond ASCII the first of them.
THEOREM AccentsRemoved ==
    ASSUME NEW S, NEW cps \in Seq(S), NEW Wide, NEW NonSpacing
    PROVE  CodepointsExact(cps, Wide, NonSpacing)
<1> DEFINE u == UnitsOf(cps, Wide)
           N == NonSpacing
<1>1. u \in Seq(Units(S))
  <2>1. CASE cps = <<>>
    <3>1. UnitsOf(<<>>, Wide) = <<>>
      BY UnitsAppend
    <3>2. <<>> \in Seq(Units(S))
      BY EmptySeq
    <3> QED
      BY <2>1, <3>1, <3>2
  <2>2. CASE cps # <<>>
    <3>1. cps[1] \in S
      BY <2>2
    <3> QED
      BY <3>1, UnitsAppend
  <2> QED
    BY <2>1, <2>2
<1>2. to_codepoints(u) = cps
  BY CodepointsKept
<1>3. ASSUME ToSet(cps) \cap Wide = {}
      PROVE  remove_marks(u, N) = Without(cps, N)
  <2>1. CharsOf(u) = cps
    BY <1>3, CharsOfUnits
  <2>2. remove_marks(u, N) = Without(CharsOf(u), N)
    BY DEF remove_marks, CharsOf
  <2> QED
    BY <2>1, <2>2
<1> HIDE DEF u
<1>4. ASSUME NEW c \in {-31, 127, 128}
      PROVE  remove_accent_char(c, u, N) =
                IF c # 128 THEN c ELSE Head(remove_marks(u, N) \o <<c>>)
  <2>1. c \in Int /\ (c < 128 <=> c # 128)
    OBVIOUS
  <2>2. remove_accent_char(c, u, N) =
           IF c < 128 THEN c ELSE Head(remove_marks(u, N) \o <<c>>)
    BY <1>1, <2>1, AccentGone
  <2> QED
    BY <2>1, <2>2
<1> QED
  BY <1>2, <1>3, <1>4 DEF CodepointsExact, u
\* A buffer begins with two, three or four given bytes.
Begins2(b, x, y)       == Len(b) >= 2 /\ b[1] = x /\ b[2] = y
Begins3(b, x, y, z)    == Len(b) >= 3 /\ b[1] = x /\ b[2] = y /\ b[3] = z
Begins4(b, x, y, z, v) == Len(b) >= 4 /\ b[1] = x /\ b[2] = y /\ b[3] = z /\ b[4] = v

\* When a buffer begins with the mark of an encoding.
LEMMA MarkBegins ==
    ASSUME NEW b \in Seq(Nat)
    PROVE  /\ IsPrefix(Mark["UTF_8_BOM"], b) <=> Begins3(b, 239, 187, 191)
           /\ IsPrefix(Mark["UTF_16_BE_BOM"], b) <=> Begins2(b, 254, 255)
           /\ IsPrefix(Mark["UTF_16_LE_BOM"], b) <=> Begins2(b, 255, 254)
           /\ IsPrefix(Mark["UTF_32_BE_BOM"], b) <=> Begins4(b, 0, 0, 254, 255)
           /\ IsPrefix(Mark["UTF_32_LE_BOM"], b) <=> Begins4(b, 255, 254, 0, 0)
<1>0. Len(b) \in Nat
  OBVIOUS
<1>1. ASSUME NEW x \in Nat, NEW y \in Nat
      PROVE  IsPrefix(<<x, y>>, b) <=> Begins2(b, x, y)
  <2> DEFINE p == <<x, y>>
  <2>1. p \in Seq(Nat) /\ Len(p) = 2 /\ p[1] = x /\ p[2] = y
    OBVIOUS
  <2> HIDE DEF p
  <2>2. IsPrefix(p, b) <=> Len(p) <= Len(b) /\ \A i \in 1..Len(p) : p[i] = b[i]
    <3>1. p \in Seq(Nat) /\ b \in Seq(Nat)
      BY <2>1
    <3> QED
      BY ONLY <3>1, PrefixIs, ZenonT(60)
  <2>3. (\A i \in 1..2 : p[i] = b[i]) <=> p[1] = b[1] /\ p[2] = b[2]
    OBVIOUS
  <2>4. IsPrefix(p, b) <=> Begins2(b, x, y)
    BY <1>0, <2>1, <2>2, <2>3 DEF Begins2
  <2> QED
    BY <2>4 DEF p
<1>2. ASSUME NEW x \in Nat, NEW y \in Nat, NEW z \in Nat
      PROVE  IsPrefix(<<x, y, z>>, b) <=> Begins3(b, x, y, z)
  <2> DEFINE p == <<x, y, z>>
  <2>1. p \in Seq(Nat) /\ Len(p) = 3 /\ p[1] = x /\ p[2] = y /\ p[3] = z
    OBVIOUS
  <2> HIDE DEF p
  <2>2. IsPrefix(p, b) <=> Len(p) <= Len(b) /\ \A i \in 1..Len(p) : p[i] = b[i]
    <3>1. p \in Seq(Nat) /\ b \in Seq(Nat)
      BY <2>1
    <3> QED
      BY ONLY <3>1, PrefixIs, ZenonT(60)
  <2>3. (\A i \in 1..3 : p[i] = b[i]) <=> p[1] = b[1] /\ p[2] = b[2] /\ p[3] = b[3]
    OBVIOUS
  <2>4. IsPrefix(p, b) <=> Begins3(b, x, y, z)
    BY <1>0, <2>1, <2>2, <2>3 DEF Begins3
  <2> QED
    BY <2>4 DEF p
<1>3. ASSUME NEW x \in Nat, NEW y \in Nat, NEW z \in Nat, NEW v \in Nat
      PROVE  IsPrefix(<<x, y, z, v>>, b) <=> Begins4(b, x, y, z, v)
  <2> DEFINE p == <<x, y, z, v>>
  <2>1. p \in Seq(Nat) /\ Len(p) = 4 /\ p[1] = x /\ p[2] = y /\ p[3] = z /\ p[4] = v
    OBVIOUS
  <2> HIDE DEF p
  <2>2. IsPrefix(p, b) <=> Len(p) <= Len(b) /\ \A i \in 1..Len(p) : p[i] = b[i]
    <3>1. p \in Seq(Nat) /\ b \in Seq(Nat)
      BY <2>1
    <3> QED
      BY ONLY <3>1, PrefixIs, ZenonT(60)
  <2>3. (\A i \in 1..4 : p[i] = b[i]) <=>
           p[1] = b[1] /\ p[2] = b[2] /\ p[3] = b[3] /\ p[4] = b[4]
    OBVIOUS
  <2>4. IsPrefix(p, b) <=> Begins4(b, x, y, z, v)
    BY <1>0, <2>1, <2>2, <2>3 DEF Begins4
  <2> QED
    BY <2>4 DEF p
<1>4. /\ Mark["UTF_8_BOM"] = <<239, 187, 191>>
      /\ Mark["UTF_16_BE_BOM"] = <<254, 255>> /\ Mark["UTF_16_LE_BOM"] = <<255, 254>>
      /\ Mark["UTF_32_BE_BOM"] = <<0, 0, 254, 255>>
      /\ Mark["UTF_32_LE_BOM"] = <<255, 254, 0, 0>>
  BY DEF Mark
<1>5. IsPrefix(<<239, 187, 191>>, b) <=> Begins3(b, 239, 187, 191)
  BY <1>2
<1>6. IsPrefix(<<254, 255>>, b) <=> Begins2(b, 254, 255)
  BY <1>1
<1>7. IsPrefix(<<255, 254>>, b) <=> Begins2(b, 255, 254)
  BY <1>1
<1>8. IsPrefix(<<0, 0, 254, 255>>, b) <=> Begins4(b, 0, 0, 254, 255)
  BY <1>3
<1>9. IsPrefix(<<255, 254, 0, 0>>, b) <=> Begins4(b, 255, 254, 0, 0)
  BY <1>3
<1> QED
  BY <1>4, <1>5, <1>6, <1>7, <1>8, <1>9

\* check_bom names the longest mark that a buffer of any bytes and length
\* begins with if it is of UTF-32 or the whole buffer, and none otherwise.
THEOREM MarksFound ==
    ASSUME NEW b \in Seq(Nat)
    PROVE  BomExact(b)
<1> DEFINE n == Len(b)
           e8 == "UTF_8_BOM"
           b16 == "UTF_16_BE_BOM"
           l16 == "UTF_16_LE_BOM"
           b32 == "UTF_32_BE_BOM"
           l32 == "UTF_32_LE_BOM"
           All == {e8, b16, l16, b32, l32}
           Is(e) == IsPrefix(Mark[e], b)
           marks == {e \in DOMAIN Mark : Is(e)}
           longest == {e \in marks : \A f \in marks : Len(Mark[f]) <= Len(Mark[e])}
           found == {e \in Sought(n) : Is(e)}
           name == check_bom(b).encoding
           size(e) == Len(Mark[e])
<1>1. n \in Nat
  OBVIOUS
<1>2. DOMAIN Mark = All
  BY DEF Mark
<1>3. size(e8) = 3 /\ size(b16) = 2 /\ size(l16) = 2 /\ size(b32) = 4 /\ size(l32) = 4
  BY DEF Mark
<1>4. name = IF found = {} THEN NoName ELSE CHOOSE e \in found : TRUE
  BY DEF check_bom
<1>5. /\ Is(e8) <=> Begins3(b, 239, 187, 191)
      /\ Is(b16) <=> Begins2(b, 254, 255)
      /\ Is(l16) <=> Begins2(b, 255, 254)
      /\ Is(b32) <=> Begins4(b, 0, 0, 254, 255)
      /\ Is(l32) <=> Begins4(b, 255, 254, 0, 0)
  BY MarkBegins
<1>6. /\ n >= 4 => Sought(n) = {b32, l32}
      /\ n = 3 => Sought(n) = {e8}
      /\ n = 2 => Sought(n) = {b16, l16}
      /\ n < 2 => Sought(n) = {}
  <2> HIDE DEF n
  <2> QED
    BY <1>1 DEF Sought
<1>7. /\ Is(e8) => n >= 3 /\ ~Is(b16) /\ ~Is(l16) /\ ~Is(b32) /\ ~Is(l32)
      /\ Is(b16) => n >= 2 /\ ~Is(l16) /\ ~Is(b32) /\ ~Is(l32)
      /\ Is(l16) => n >= 2 /\ ~Is(b32)
      /\ Is(b32) => n >= 4 /\ ~Is(l32)
      /\ Is(l32) => n >= 4 /\ Is(l16)
  BY <1>1, <1>5 DEF Begins2, Begins3, Begins4
<1> HIDE DEF Is, size, n
<1> DEFINE sure == \E e \in longest : size(e) \in {4, n}
<1> SUFFICES {name} = IF sure THEN longest ELSE {NoName}
  BY DEF BomExact, Is, size, n
<1>8. \A e : e \in longest <=> e \in All /\ Is(e) /\ \A f \in All : Is(f) => size(f) <= size(e)
  BY <1>2 DEF size
<1>9. \A e : found = {e} => name = e
  BY <1>4
<1>10. found = {} => name = NoName
  BY <1>4
<1> HIDE DEF longest, found, name
<1>11. CASE Is(b32) \/ Is(l32)
  <2> DEFINE e == IF Is(b32) THEN b32 ELSE l32
  <2>1. longest = {e}
    BY <1>3, <1>7, <1>8, <1>11
  <2>2. found = {e}
    BY <1>6, <1>7, <1>11 DEF found
  <2>3. size(e) = 4
    BY <1>3
  <2> QED
    BY <1>9, <2>1, <2>2, <2>3
<1>12. CASE ~Is(b32) /\ ~Is(l32) /\ Is(e8)
  <2>1. longest = {e8}
    BY <1>3, <1>7, <1>8, <1>12
  <2>2. CASE n = 3
    <3>1. found = {e8}
      BY <1>6, <1>12, <2>2 DEF found
    <3> QED
      BY <1>3, <1>9, <2>1, <2>2, <3>1
  <2>3. CASE n # 3
    <3>1. n >= 4
      BY <1>1, <1>7, <1>12, <2>3
    <3>2. found = {}
      BY <1>6, <1>12, <3>1 DEF found
    <3>3. ~sure
      BY <1>1, <1>3, <2>1, <2>3
    <3> QED
      BY <1>10, <3>2, <3>3
  <2> QED
    BY <2>2, <2>3
<1>13. CASE ~Is(b32) /\ ~Is(l32) /\ ~Is(e8) /\ (Is(b16) \/ Is(l16))
  <2> DEFINE e == IF Is(b16) THEN b16 ELSE l16
  <2>1. longest = {e}
    BY <1>3, <1>7, <1>8, <1>13
  <2>2. size(e) = 2
    BY <1>3
  <2>3. CASE n = 2
    <3>1. found = {e}
      BY <1>6, <1>7, <1>13, <2>3 DEF found
    <3> QED
      BY <1>9, <2>1, <2>2, <2>3, <3>1
  <2>4. CASE n # 2
    <3>1. n >= 3
      BY <1>1, <1>7, <1>13, <2>4
    <3>2. found = {}
      <4>1. CASE n = 3
        BY <1>6, <1>13, <4>1 DEF found
      <4>2. CASE n >= 4
        BY <1>6, <1>13, <4>2 DEF found
      <4> QED
        BY <1>1, <3>1, <4>1, <4>2
    <3>3. ~sure
      BY <1>1, <2>1, <2>2, <2>4
    <3> QED
      BY <1>10, <3>2, <3>3
  <2> QED
    BY <2>3, <2>4
<1>14. CASE \A e \in All : ~Is(e)
  <2>1. longest = {} /\ ~sure
    BY <1>8, <1>14
  <2>2. Sought(n) \subseteq All
    BY <1>1, <1>6
  <2>3. found = {}
    BY <1>14, <2>2 DEF found
  <2> QED
    BY <1>10, <2>1, <2>3
<1> QED
  BY <1>11, <1>12, <1>13, <1>14

-----------------------------------------------------------------------------
(***************************************************************************)
(* Patterns.                                                               *)
(***************************************************************************)

\* What the signs of a pattern may have stood for.
Matches == [reached : SUBSET Nat, escaped : BOOLEAN]

\* Before the first sign.
Unmatched == [reached |-> {0}, escaped |-> FALSE]

\* g has it after each sign of p.
Matching(g, s, p) ==
    /\ g \in [0..Len(p) -> Matches] /\ g[0] = Unmatched
    /\ \A j \in 1..Len(p) : g[j] = LikeSign(s, g[j - 1], p[j], j = Len(p))

\* A sign leads to such a state again.
LEMMA SignMatches ==
    ASSUME NEW S, NEW s \in Seq(S), NEW st \in Matches, NEW c, NEW last
    PROVE  LikeSign(s, st, c, last) \in Matches
<1> DEFINE n == Len(s)
           literal == {k \in 1..n : k - 1 \in st.reached /\ c = s[k]}
           single  == {k \in 1..n : k - 1 \in st.reached /\ c \in {"_", s[k]}}
           any     == {k \in 0..n : \E i \in st.reached : i <= k}
<1>1. n \in Nat /\ st.reached \in SUBSET Nat
  BY DEF Matches
<1>2. literal \in SUBSET Nat /\ single \in SUBSET Nat /\ any \in SUBSET Nat
  <2>1. \A k \in 0..n : k \in Nat
    BY <1>1
  <2>2. \A k \in 1..n : k \in Nat
    BY <1>1
  <2> HIDE DEF n
  <2>3. literal \in SUBSET Nat
    BY <2>2
  <2>4. single \in SUBSET Nat
    BY <2>2
  <2>5. any \in SUBSET Nat
    BY <2>1
  <2> QED
    BY <2>3, <2>4, <2>5
<1>3. LikeSign(s, st, c, last) =
         IF st.escaped THEN [reached |-> literal, escaped |-> FALSE]
         ELSE IF c = "%" THEN [reached |-> any, escaped |-> FALSE]
         ELSE IF c = "\\" /\ ~last THEN [reached |-> st.reached, escaped |-> TRUE]
         ELSE [reached |-> single, escaped |-> FALSE]
  BY DEF LikeSign
<1> HIDE DEF literal, single, any
<1>4. \A R \in SUBSET Nat, e \in BOOLEAN : [reached |-> R, escaped |-> e] \in Matches
  BY DEF Matches
<1>5. /\ [reached |-> literal, escaped |-> FALSE] \in Matches
      /\ [reached |-> any, escaped |-> FALSE] \in Matches
      /\ [reached |-> st.reached, escaped |-> TRUE] \in Matches
      /\ [reached |-> single, escaped |-> FALSE] \in Matches
  BY <1>1, <1>2, <1>4
<1> QED
  BY <1>3, <1>5

\* Like goes through the pattern from its beginning.
LEMMA LikeMatches ==
    ASSUME NEW S, NEW s \in Seq(S), NEW P, NEW p \in Seq(P)
    PROVE  \E g : Matching(g, s, p) /\ (Like(s, p) <=> Len(s) \in g[Len(p)].reached)
<1> DEFINE X == Matches
           m == Len(p)
           r == Unmatched
           Sign(st, j) == LikeSign(s, st, p[j], j = m)
           Is(g) == g = [j \in 0..m |-> IF j = 0 THEN r ELSE Sign(g[j - 1], j)]
           w == CHOOSE g : Is(g)
           G == [x \in (1..m) \X X |-> Sign(x[2], x[1])]
<1>1. m \in Nat
  OBVIOUS
<1>2. r \in X
  BY DEF Unmatched, Matches
<1>3. ASSUME NEW st \in X, NEW j \in 1..m
      PROVE  Sign(st, j) \in X
  BY SignMatches
<1>4. Like(s, p) <=> Len(s) \in w[m].reached
  BY DEF Like, Unmatched
<1> HIDE DEF X, m, r, w, Sign
<1>5. ASSUME NEW j \in 1..m, NEW st \in X
      PROVE  G[<<j, st>>] = Sign(st, j)
  <2>1. <<j, st>> \in (1..m) \X X
    OBVIOUS
  <2> QED
    BY <2>1
<1>6. G \in [(1..m) \X X -> X]
  <2>1. ASSUME NEW x \in (1..m) \X X
        PROVE  Sign(x[2], x[1]) \in X
    BY <1>3
  <2> QED
    BY <2>1
<1> HIDE DEF G
<1>7. PICK g \in [0..m -> X] : RecursFrom(g, m, r, G)
  BY <1>1, <1>2, <1>6, IndexedRecursionExists
<1>8. Is(g)
  <2>1. g[0] = r
    BY <1>7 DEF RecursFrom
  <2>2. ASSUME NEW j \in 1..m
        PROVE  g[j] = Sign(g[j - 1], j)
    <3>1. j - 1 \in 0..m
      BY <1>1
    <3>2. g[j - 1] \in X
      BY <1>7, <3>1
    <3> QED
      BY <1>5, <1>7, <3>2 DEF RecursFrom
  <2>3. ASSUME NEW j \in 0..m
        PROVE  g[j] = IF j = 0 THEN r ELSE Sign(g[j - 1], j)
    <3>1. j = 0 \/ j \in 1..m
      BY <1>1
    <3>2. j \in 1..m => j # 0
      BY <1>1
    <3> QED
      BY <2>1, <2>2, <3>1, <3>2, Zenon
  <2> QED
    BY <1>7, <2>3
<1>9. Is(w)
  BY <1>8 DEF w
<1>10. w[0] = r /\ \A j \in 1..m : w[j] = Sign(w[j - 1], j)
  BY <1>1, <1>9
<1>11. \A j \in 0..m : w[j] \in X
  <2> DEFINE T == {j \in Nat : j <= m => w[j] \in X}
  <2>1. 0 \in T
    BY <1>2, <1>10
  <2>2. ASSUME NEW j \in Nat, j \in T
        PROVE  j + 1 \in T
    <3> SUFFICES ASSUME j + 1 <= m
                 PROVE  w[j + 1] \in X
      OBVIOUS
    <3> DEFINE k == j + 1
    <3>1. k \in 1..m /\ k - 1 = j /\ w[j] \in X
      BY <1>1, <2>2
    <3> HIDE DEF k
    <3>2. w[k] = Sign(w[j], k)
      BY <1>10, <3>1
    <3> QED
      BY <1>3, <3>1, <3>2 DEF k
  <2>3. Nat \subseteq T
    <3> HIDE DEF T
    <3> QED
      BY <2>1, <2>2, NatInductive
  <2> QED
    BY <1>1, <2>3
<1>12. w \in [0..m -> X]
  BY <1>9, <1>11
<1>13. \A j \in 1..m : w[j] = LikeSign(s, w[j - 1], p[j], j = m)
  BY <1>10 DEF Sign
<1>14. Matching(w, s, p)
  BY <1>10, <1>12, <1>13 DEF Matching, X, m, r
<1> QED
  BY <1>4, <1>14 DEF m

\* Where a pattern that ends in a sign for one character reaches.
Singles(s, st, c) == {k \in 1..Len(s) : k - 1 \in st.reached /\ c \in {"_", s[k]}}


\* What a sign that is not escaped stands for.
LEMMA SignIs ==
    ASSUME NEW S, NEW s \in Seq(S), NEW st, ~st.escaped, NEW c, NEW last
    PROVE  /\ c = "%" => LikeSign(s, st, c, last) =
                 [reached |-> {k \in 0..Len(s) : \E i \in st.reached : i <= k}, escaped |-> FALSE]
           /\ c # "%" /\ c # "\\" => LikeSign(s, st, c, last) =
                 [reached |-> Singles(s, st, c), escaped |-> FALSE]
  BY DEF LikeSign, Singles
\* The pattern between two percent signs.
LEMMA PatternIs ==
    ASSUME NEW S, NEW q \in Seq(S), "%" \in S
    PROVE  /\ LikePattern(q) \in Seq(S) /\ Len(LikePattern(q)) = Len(q) + 2
           /\ LikePattern(q)[1] = "%" /\ LikePattern(q)[Len(q) + 2] = "%"
           /\ \A k \in 1..Len(q) : LikePattern(q)[k + 1] = q[k]
<1> DEFINE b == <<"%">>
           x == b \o q
           p == x \o b
           m == Len(q)
<1>1. b \in Seq(S) /\ Len(b) = 1 /\ b[1] = "%"
  BY UnitIs
<1>2. LikePattern(q) = p
  BY DEF LikePattern
<1> HIDE DEF b
<1>3. Joint(x, b, q, S)
  BY <1>1, ConcatIs
<1> HIDE DEF x
<1>4. /\ x \in Seq(S) /\ m \in Nat /\ Len(x) = m + 1 /\ x[1] = "%"
      /\ \A k \in 1..m : x[1 + k] = q[k]
  BY <1>1, <1>3 DEF Joint
<1>5. Joint(p, x, b, S)
  BY <1>1, <1>4, ConcatIs
<1> HIDE DEF p
<1>6. /\ p \in Seq(S) /\ Len(p) = m + 2
      /\ \A k \in 1..(m + 1) : p[k] = x[k]
      /\ p[(m + 1) + 1] = "%"
  BY <1>1, <1>4, <1>5 DEF Joint
<1> HIDE DEF m
<1>7. (m + 1) + 1 = m + 2 /\ 1 \in 1..(m + 1)
  BY <1>4
<1>8. ASSUME NEW k \in 1..m
      PROVE  p[k + 1] = q[k]
  <2>1. k + 1 \in 1..(m + 1) /\ 1 + k = k + 1
    BY <1>4
  <2> QED
    BY <1>4, <1>6, <2>1
<1> QED
  BY <1>2, <1>4, <1>6, <1>7, <1>8 DEF m

\* e is where a part of s that is the first k characters of q ends.
FoundAt(e, k, s, q) ==
    e \in k..Len(s) /\ \A h \in 1..k : s[(e - k) + h] = q[h]

\* One character more of q is found where the next character of s is it.
EndsOn(e, k, s, q) ==
    FoundAt(e, k + 1, s, q) <=> FoundAt(e - 1, k, s, q) /\ q[k + 1] = s[e]

\* One character more.
LEMMA EndsNext ==
    ASSUME NEW s, Len(s) \in Nat, NEW q, NEW k \in Nat, NEW e \in 1..Len(s)
    PROVE  EndsOn(e, k, s, q)
<1> SUFFICES FoundAt(e, k + 1, s, q) <=> FoundAt(e - 1, k, s, q) /\ q[k + 1] = s[e]
  BY DEF EndsOn
<1>1. ASSUME FoundAt(e, k + 1, s, q)
      PROVE  FoundAt(e - 1, k, s, q) /\ q[k + 1] = s[e]
  <2>1. e \in (k + 1)..Len(s) /\ \A h \in 1..(k + 1) : s[(e - (k + 1)) + h] = q[h]
    BY <1>1 DEF FoundAt
  <2>2. e - 1 \in k..Len(s)
    BY <2>1
  <2>3. ASSUME NEW h \in 1..k
        PROVE  s[((e - 1) - k) + h] = q[h]
    <3>1. h \in 1..(k + 1) /\ ((e - 1) - k) + h = (e - (k + 1)) + h
      OBVIOUS
    <3> QED
      BY <2>1, <3>1
  <2>4. s[e] = q[k + 1]
    <3>1. k + 1 \in 1..(k + 1) /\ (e - (k + 1)) + (k + 1) = e
      OBVIOUS
    <3> QED
      BY <2>1, <3>1
  <2> QED
    BY <2>2, <2>3, <2>4 DEF FoundAt
<1>2. ASSUME FoundAt(e - 1, k, s, q), q[k + 1] = s[e]
      PROVE  FoundAt(e, k + 1, s, q)
  <2>1. e - 1 \in k..Len(s) /\ \A h \in 1..k : s[((e - 1) - k) + h] = q[h]
    BY <1>2 DEF FoundAt
  <2>2. e \in (k + 1)..Len(s)
    BY <2>1
  <2>3. ASSUME NEW h \in 1..(k + 1)
        PROVE  s[(e - (k + 1)) + h] = q[h]
    <3>1. CASE h \in 1..k
      <4>1. ((e - 1) - k) + h = (e - (k + 1)) + h
        OBVIOUS
      <4> QED
        BY <2>1, <3>1, <4>1
    <3>2. CASE h = k + 1
      <4>1. (e - (k + 1)) + h = e
        BY <3>2
      <4> QED
        BY <1>2, <3>2, <4>1
    <3> QED
      BY <3>1, <3>2
  <2> QED
    BY <2>2, <2>3 DEF FoundAt
<1> QED
  BY <1>1, <1>2

\* A part of s is q if it ends somewhere.
LEMMA HasEnds ==
    ASSUME NEW S, NEW s \in Seq(S), NEW q \in Seq(S)
    PROVE  Has(s, q) <=> \E e \in Nat : FoundAt(e, Len(q), s, q)
<1> DEFINE n == Len(s)
           m == Len(q)
<1>1. n \in Nat /\ m \in Nat
  OBVIOUS
<1>2. CASE q = <<>>
  <2>1. m = 0
    BY <1>2
  <2>2. FoundAt(n, 0, s, q)
    BY <1>1 DEF FoundAt
  <2>3. SubSeq(s, 1, 0) = <<>>
    OBVIOUS
  <2>4. 1 \in Occurrences(s, q)
    <3>1. 1 \in 1..(n - m + 1) /\ 1 + m - 1 = 0
      BY <1>1, <2>1
    <3>2. SubSeq(s, 1, 1 + m - 1) = q
      BY <1>2, <2>3, <3>1
    <3> QED
      BY <3>1, <3>2 DEF Occurrences
  <2> QED
    BY <1>1, <2>1, <2>2, <2>4 DEF Has
<1>3. CASE q # <<>>
  <2>1. Occurrences(s, q) = {i \in 1..(n - m + 1) : \A k \in 1..m : s[i + k - 1] = q[k]}
    BY <1>3, OccursIs
  <2>2. m >= 1
    BY <1>1, <1>3, EmptySeq
  <2> HIDE DEF n, m
  <2>3. ASSUME NEW i \in 1..(n - m + 1), \A k \in 1..m : s[i + k - 1] = q[k]
        PROVE  FoundAt(i - 1 + m, m, s, q) /\ i - 1 + m \in Nat
    <3>1. i - 1 + m \in m..n /\ i - 1 + m \in Nat
      BY <1>1, <2>2
    <3>2. ASSUME NEW h \in 1..m
          PROVE  s[((i - 1 + m) - m) + h] = q[h]
      <4>1. ((i - 1 + m) - m) + h = i + h - 1
        BY <1>1
      <4> QED
        BY <2>3, <4>1
    <3> QED
      BY <3>1, <3>2 DEF FoundAt, n
  <2>4. ASSUME NEW e \in Nat, FoundAt(e, m, s, q)
        PROVE  e - m + 1 \in Occurrences(s, q)
    <3>1. e \in m..n /\ \A h \in 1..m : s[(e - m) + h] = q[h]
      BY <2>4 DEF FoundAt, n
    <3>2. e - m + 1 \in 1..(n - m + 1)
      BY <1>1, <3>1
    <3>3. ASSUME NEW k \in 1..m
          PROVE  s[(e - m + 1) + k - 1] = q[k]
      <4>1. (e - m + 1) + k - 1 = (e - m) + k
        BY <1>1
      <4> QED
        BY <3>1, <4>1
    <3> QED
      BY <2>1, <3>2, <3>3
  <2>5. ASSUME Has(s, q)
        PROVE  \E e \in Nat : FoundAt(e, m, s, q)
    <3>1. PICK i \in 1..(n - m + 1) : \A k \in 1..m : s[i + k - 1] = q[k]
      BY <2>1, <2>5 DEF Has
    <3> QED
      BY <2>3, <3>1
  <2>6. ASSUME NEW e \in Nat, FoundAt(e, m, s, q)
        PROVE  Has(s, q)
    BY <2>4, <2>6 DEF Has
  <2> QED
    BY <2>5, <2>6 DEF m
<1> QED
  BY <1>2, <1>3

\* find_by_last_name for texts and patterns of any length: without LIKE's
\* own signs it finds what contains the pattern, with percent signs and
\* underscores at least that.
THEOREM PatternsFind ==
    ASSUME NEW C, NEW s \in Seq(C), NEW q \in Seq(C)
    PROVE  FindsContaining(s, q)
<1> DEFINE S == C \cup {"%"}
           p == LikePattern(q)
           n == Len(s)
           m == Len(q)
           l == m + 2
           found == find_by_last_name([i \in {1} |-> s], q) = {1}
           signs == ToSet(q)
<1>1. s \in Seq(S) /\ q \in Seq(S) /\ "%" \in S
  BY SeqMonotonic
<1>2. n \in Nat /\ m \in Nat
  OBVIOUS
<1>3. found <=> Like(s, p)
  BY DEF find_by_last_name
<1>4. \A k \in 1..m : q[k] \in signs
  BY DEF ToSet
<1> HIDE DEF S, p, signs
<1>5. /\ p \in Seq(S) /\ Len(p) = l /\ p[1] = "%" /\ p[l] = "%"
      /\ \A k \in 1..m : p[k + 1] = q[k]
  BY <1>1, PatternIs DEF p
<1>6. PICK g : Matching(g, s, p) /\ (Like(s, p) <=> n \in g[Len(p)].reached)
  BY <1>1, <1>5, LikeMatches
<1>7. g[0] = Unmatched /\ \A j \in 1..l : g[j] = LikeSign(s, g[j - 1], p[j], j = l)
  BY <1>5, <1>6 DEF Matching
<1>8. ASSUME NEW j \in 1..l, ~g[j - 1].escaped, p[j] = "%"
      PROVE  /\ g[j].reached = {k \in 0..n : \E i \in g[j - 1].reached : i <= k}
             /\ ~g[j].escaped
  <2> DEFINE st == g[j - 1]
             c == p[j]
             last == j = l
  <2>1. g[j] = LikeSign(s, st, c, last) /\ ~st.escaped /\ c = "%"
    BY <1>7, <1>8
  <2> HIDE DEF st, c, last
  <2>2. g[j] = [reached |-> {k \in 0..n : \E i \in st.reached : i <= k}, escaped |-> FALSE]
    BY <2>1, SignIs
  <2> QED
    BY <2>2 DEF st
<1>9. ASSUME NEW j \in 1..l, ~g[j - 1].escaped, p[j] # "%", p[j] # "\\"
      PROVE  /\ g[j].reached = Singles(s, g[j - 1], p[j])
             /\ ~g[j].escaped
  <2> DEFINE st == g[j - 1]
             c == p[j]
             last == j = l
  <2>1. g[j] = LikeSign(s, st, c, last) /\ ~st.escaped /\ c # "%" /\ c # "\\"
    BY <1>7, <1>9
  <2> HIDE DEF st, c, last
  <2>2. g[j] = [reached |-> Singles(s, st, c), escaped |-> FALSE]
    BY <2>1, SignIs
  <2> QED
    BY <2>2 DEF st, c
<1>10. /\ ~g[1].escaped /\ \A k \in Nat : k \in g[1].reached <=> k \in 0..n
  <2>1. g[1 - 1].reached = {0} /\ ~g[1 - 1].escaped
    BY <1>7 DEF Unmatched
  <2>2. 1 \in 1..l
    BY <1>2
  <2>3. /\ g[1].reached = {k \in 0..n : \E i \in g[1 - 1].reached : i <= k}
        /\ ~g[1].escaped
    BY <1>5, <1>8, <2>1, <2>2
  <2> QED
    BY <1>2, <2>1, <2>3
<1>11. ASSUME ~g[m + 1].escaped
       PROVE  n \in g[l].reached <=> \E i \in g[m + 1].reached : i <= n
  <2>1. l \in 1..l /\ l - 1 = m + 1 /\ n \in 0..n
    BY <1>2
  <2>2. g[l].reached = {k \in 0..n : \E i \in g[l - 1].reached : i <= k}
    BY <1>5, <1>8, <1>11, <2>1
  <2> QED
    BY <2>1, <2>2
<1>12. Like(s, p) <=> n \in g[l].reached
  BY <1>5, <1>6
<1> HIDE DEF found, l
<1>13. ASSUME signs \cap {"%", "_", "\\"} = {}
       PROVE  found <=> Has(s, q)
  <2> DEFINE Ok(k) == /\ ~g[k + 1].escaped
                      /\ \A e \in Nat : e \in g[k + 1].reached <=> FoundAt(e, k, s, q)
             T == {k \in Nat : k <= m => Ok(k)}
  <2>1. 0 \in T
    <3>1. \A e \in Nat : FoundAt(e, 0, s, q) <=> e \in 0..n
      BY DEF FoundAt
    <3> QED
      BY <1>10, <3>1
  <2>2. ASSUME NEW k \in Nat, k \in T
        PROVE  k + 1 \in T
    <3> SUFFICES ASSUME k + 1 <= m
                 PROVE  Ok(k + 1)
      OBVIOUS
    <3> DEFINE j == k + 2
               c == q[k + 1]
    <3>1. /\ j \in 1..l /\ j - 1 = k + 1 /\ (k + 1) + 1 = j /\ k + 1 \in 1..m
      BY <1>2 DEF l
    <3>2. Ok(k)
      BY <2>2
    <3>3. p[j] = c
      BY <1>5, <3>1
    <3>4. c # "%" /\ c # "_" /\ c # "\\"
      BY <1>4, <1>13, <3>1
    <3> HIDE DEF j, c
    <3>5. ~g[j - 1].escaped
      BY <3>1, <3>2
    <3>6. /\ g[j].reached = {e \in 1..n : e - 1 \in g[j - 1].reached /\ p[j] \in {"_", s[e]}}
          /\ ~g[j].escaped
      <4>1. /\ g[j].reached = Singles(s, g[j - 1], p[j])
            /\ ~g[j].escaped
        BY <1>9, <3>1, <3>3, <3>4, <3>5
      <4> QED
        BY <4>1 DEF Singles
    <3>7. ASSUME NEW e \in Nat
          PROVE  e \in g[j].reached <=> FoundAt(e, k + 1, s, q)
      <4>1. CASE e \in 1..n
        <5>1. e \in g[j].reached <=> e - 1 \in g[j - 1].reached /\ c = s[e]
          BY <3>3, <3>4, <3>6, <4>1
        <5>2. e - 1 \in Nat
          BY <1>2, <4>1
        <5>3. e - 1 \in g[j - 1].reached <=> FoundAt(e - 1, k, s, q)
          BY <3>1, <3>2, <5>2
        <5>4. FoundAt(e, k + 1, s, q) <=> FoundAt(e - 1, k, s, q) /\ q[k + 1] = s[e]
          <6>1. Len(s) \in Nat /\ k \in Nat /\ e \in 1..Len(s)
            BY <4>1
          <6>2. EndsOn(e, k, s, q)
            BY ONLY <6>1, EndsNext
          <6> QED
            BY <6>2 DEF EndsOn
        <5> QED
          BY <5>1, <5>3, <5>4 DEF c
      <4>2. CASE e \notin 1..n
        <5>1. e \notin g[j].reached
          BY <3>6, <4>2
        <5>2. ~FoundAt(e, k + 1, s, q)
          BY <1>2, <4>2 DEF FoundAt
        <5> QED
          BY <5>1, <5>2
      <4> QED
        BY <4>1, <4>2
    <3> QED
      BY <3>1, <3>6, <3>7
  <2>3. m \in T
    <3> HIDE DEF T
    <3>1. Nat \subseteq T
      BY <2>1, <2>2, NatInductive
    <3> QED
      BY <1>2, <3>1
  <2>4. Ok(m)
    BY <1>2, <2>3
  <2>5. n \in g[l].reached <=> \E i \in g[m + 1].reached : i <= n
    BY <1>11, <2>4
  <2>6. g[m + 1].reached \in SUBSET Nat
    <3>1. m + 1 \in 0..l
      BY <1>2 DEF l
    <3>2. g[m + 1] \in Matches
      BY <1>5, <1>6, <3>1 DEF Matching
    <3> QED
      BY <3>2 DEF Matches
  <2>7. (\E i \in g[m + 1].reached : i <= n) <=> \E e \in Nat : FoundAt(e, m, s, q)
    <3>1. ASSUME NEW i \in g[m + 1].reached
          PROVE  i \in Nat /\ FoundAt(i, m, s, q)
      BY <2>4, <2>6
    <3>2. ASSUME NEW e \in Nat, FoundAt(e, m, s, q)
          PROVE  e \in g[m + 1].reached /\ e <= n
      <4>1. e <= n
        BY <1>2, <3>2 DEF FoundAt
      <4> QED
        BY <2>4, <3>2, <4>1
    <3> QED
      BY <3>1, <3>2
  <2>8. Has(s, q) <=> \E e \in Nat : FoundAt(e, m, s, q)
    BY HasEnds
  <2> QED
    BY <1>3, <1>12, <2>5, <2>7, <2>8
<1>14. ASSUME "\\" \notin signs, Has(s, q)
       PROVE  found
  <2>1. PICK e \in Nat : FoundAt(e, m, s, q)
    BY <1>14, HasEnds
  <2> DEFINE o == e - m
             Ok(k) == ~g[k + 1].escaped /\ o + k \in g[k + 1].reached
             T == {k \in Nat : k <= m => Ok(k)}
  <2>2. /\ o \in Nat /\ o + m = e /\ e <= n
        /\ \A h \in 1..m : s[o + h] = q[h]
    BY <1>2, <2>1 DEF FoundAt
  <2> HIDE DEF o
  <2>3. 0 \in T
    <3>1. o + 0 \in 0..n /\ o + 0 \in Nat
      BY <1>2, <2>2
    <3> QED
      BY <1>10, <3>1
  <2>4. ASSUME NEW k \in Nat, k \in T
        PROVE  k + 1 \in T
    <3> SUFFICES ASSUME k + 1 <= m
                 PROVE  Ok(k + 1)
      OBVIOUS
    <3> DEFINE j == k + 2
               c == q[k + 1]
               x == o + (k + 1)
    <3>1. /\ j \in 1..l /\ j - 1 = k + 1 /\ (k + 1) + 1 = j /\ k + 1 \in 1..m
          /\ x \in 1..n /\ x \in 0..n /\ x - 1 = o + k /\ o + k <= x /\ x \in Nat
      BY <1>2, <2>2 DEF l
    <3>2. Ok(k)
      BY <2>4
    <3>3. p[j] = c /\ s[x] = c
      BY <1>5, <2>2, <3>1
    <3>4. c # "\\"
      BY <1>4, <1>14, <3>1
    <3> HIDE DEF j, c, x
    <3>5. ~g[j - 1].escaped /\ o + k \in g[j - 1].reached
      BY <3>1, <3>2
    <3>6. CASE c = "%"
      <4>1. /\ g[j].reached = {h \in 0..n : \E i \in g[j - 1].reached : i <= h}
            /\ ~g[j].escaped
        BY <1>8, <3>1, <3>3, <3>5, <3>6
      <4>2. x \in g[j].reached
        BY <3>1, <3>5, <4>1
      <4> QED
        BY <3>1, <4>1, <4>2 DEF x
    <3>7. CASE c # "%"
      <4>1. /\ g[j].reached = Singles(s, g[j - 1], p[j])
            /\ ~g[j].escaped
        BY <1>9, <3>1, <3>3, <3>4, <3>5, <3>7
      <4>2. x \in g[j].reached
        BY <3>1, <3>3, <3>5, <4>1 DEF Singles
      <4> QED
        BY <3>1, <4>1, <4>2 DEF x
    <3> QED
      BY <3>6, <3>7
  <2>5. m \in T
    <3> HIDE DEF T
    <3>1. Nat \subseteq T
      BY <2>3, <2>4, NatInductive
    <3> QED
      BY <1>2, <3>1
  <2>6. Ok(m)
    BY <1>2, <2>5
  <2>7. o + m \in g[m + 1].reached /\ o + m <= n
    BY <2>2, <2>6
  <2>8. n \in g[l].reached
    BY <1>11, <2>6, <2>7
  <2> QED
    BY <1>3, <1>12, <2>8
<1>15. signs \cap {"%", "_", "\\"} = {} => found = Has(s, q)
  BY <1>13 DEF found, Has
<1> QED
  BY <1>14, <1>15 DEF FindsContaining, found, signs

-----------------------------------------------------------------------------
(***************************************************************************)
(* The run of MCValues: the arguments of each algorithm are among those    *)
(* that its theorem is about.                                              *)
(***************************************************************************)

\* Sequences of a bounded length are sequences.
LEMMA UpToIs ==
    ASSUME NEW n \in Nat, NEW A
    PROVE  UpTo(n, A) \subseteq Seq(A)
<1> SUFFICES ASSUME NEW s \in UpTo(n, A)
             PROVE  s \in Seq(A)
  OBVIOUS
<1>1. PICK k \in 0..n : s \in [1..k -> A]
  BY DEF UpTo
<1>2. k \in Nat
  OBVIOUS
<1> QED
  BY <1>1, <1>2, IsASeq

\* The numbers.
LEMMA NumbersAre == \A a \in Args["numbers"] : NumberExact(a)
<1>1. Args["numbers"] = (0..12) \cup {99, 100, 101, 128, 384, 999, 1000, 1023, 1234, 1664, 2047, 9999}
  BY DEF Args
<1>2. Args["numbers"] \subseteq Nat
  BY <1>1
<1> QED
  BY <1>2, NumbersExact

\* The names: their parts are words of some characters.
LEMMA NamesAre == \A a \in Args["names"] : NameRoundTrip(a) /\ FullNameExact(a)
<1> DEFINE S == UNION {Range(p) : p \in NameParts}
<1>1. Args["names"] = [first : NameParts, middle : NameParts, last : NameParts]
  BY DEF Args, Names
<1>2. NameParts \subseteq Seq(S)
  BY NameAssumption
<1> HIDE DEF S
<1>3. Args["names"] \subseteq [first : Seq(S), middle : Seq(S), last : Seq(S)]
  BY <1>1, <1>2
<1> QED
  BY <1>3, FullNamesExact, NamesReadBack

\* The draws are enough for two strings, and have no dot.
LEMMA DrawsAre == \A a \in Args["draws"] : FileNameExact(a)
<1> DEFINE A == {"0", "a"}
           C == A \cup Range(Extension) \cup Range(CustomExt)
           n == 2 * (MaxTries + NameLength)
<1>1. Args["draws"] = [1..n -> A]
  BY DEF Args
<1>2. /\ MaxTries \in Nat /\ NameLength \in Nat \ {0}
      /\ Extension \in Seq(Range(Extension)) /\ CustomExt \in Seq(Range(CustomExt))
  BY FileNameAssumption
<1>3. Dot \notin C
  BY FileNameAssumption DEF Dot
<1>4. A \subseteq C /\ Range(Extension) \subseteq C /\ Range(CustomExt) \subseteq C
  OBVIOUS
<1>5. n \in Nat
  BY <1>2
<1> HIDE DEF A, C
<1>6. Extension \in Seq(C) /\ CustomExt \in Seq(C)
  BY <1>2, <1>4, SeqMonotonic
<1>7. ASSUME NEW d \in [1..n -> A]
      PROVE  FileNameExact(d)
  <2> HIDE DEF n
  <2>1. d \in Seq(A) /\ Len(d) = n
    BY <1>5, IsASeq
  <2>2. d \in Seq(C)
    BY <1>4, <2>1, SeqMonotonic
  <2>3. Len(d) >= 2 * (MaxTries + NameLength)
    BY <1>5, <2>1 DEF n
  <2>4. /\ Dot \notin C /\ d \in Seq(C) /\ Extension \in Seq(C) /\ CustomExt \in Seq(C)
        /\ MaxTries \in Nat /\ NameLength \in Nat \ {0}
        /\ Len(d) >= 2 * (MaxTries + NameLength)
    BY <1>2, <1>3, <1>6, <2>2, <2>3
  <2> QED
    BY ONLY <2>4, FilesNamed
<1> QED
  BY <1>1, <1>7

\* The persons to be listed are finitely many.
LEMMA PagesAre == \A a \in Args["pages"] : PagesExact(a)
<1>1. Args["pages"] = UNION {[1..n -> 1..3] : n \in 1..3}
  BY DEF Args
<1>2. ASSUME NEW n \in 1..3, NEW name \in [1..n -> 1..3]
      PROVE  PagesExact(name)
  <2> DEFINE S == 1..n
  <2>1. name \in [S -> Int]
    OBVIOUS
  <2>2. IsFiniteSet(S)
    BY FS_Interval
  <2> HIDE DEF S
  <2> QED
    BY <2>1, <2>2, PagesCorrect
<1> QED
  BY <1>1, <1>2

\* The texts and patterns.
LEMMA PatternsAre == \A a \in Args["patterns"] : FindsContaining(a[1], a[2])
<1> DEFINE A == {"a", "_", "\\"}
           B == {"a", "_", "%", "\\"}
           n == 3
<1>1. Args["patterns"] = UpTo(n, A) \X UpTo(n, B)
  BY DEF Args
<1>2. A \subseteq B /\ n \in Nat
  OBVIOUS
<1> HIDE DEF A, B, n
<1>3. UpTo(n, A) \subseteq Seq(A) /\ UpTo(n, B) \subseteq Seq(B) /\ Seq(A) \subseteq Seq(B)
  BY <1>2, UpToIs, SeqMonotonic
<1>4. ASSUME NEW a \in Args["patterns"]
      PROVE  FindsContaining(a[1], a[2])
  <2>1. a[1] \in Seq(B) /\ a[2] \in Seq(B)
    BY <1>1, <1>3
  <2> QED
    BY <2>1, PatternsFind
<1> QED
  BY <1>4

\* The pairs of strings.
LEMMA DistancesAre == \A a \in Args["distances"] : DistanceExact(a[1], a[2], {"a", "b", "c"})
<1> DEFINE A == {"a", "b", "c"}
           n == 3
<1>1. Args["distances"] = UpTo(n, A) \X UpTo(n, A)
  BY DEF Args, Strings3
<1>2. n \in Nat
  OBVIOUS
<1> HIDE DEF A, n
<1>3. UpTo(n, A) \subseteq Seq(A)
  BY <1>2, UpToIs
<1>4. ASSUME NEW a \in Args["distances"]
      PROVE  DistanceExact(a[1], a[2], A)
  <2>1. a[1] \in Seq(A) /\ a[2] \in Seq(A)
    BY <1>1, <1>3
  <2> QED
    BY <2>1, DistancesCorrect
<1> QED
  BY <1>4 DEF A

\* The strings and the containers to be searched.
LEMMA NearestAre == \A a \in Args["nearest"] : NearestExact(a[1], a[2])
<1> DEFINE A == {"a", "b"}
           n == 3
           U == Strings2
<1>1. Args["nearest"] = U \X (UpTo(n, U) \ {<<>>})
  BY DEF Args
<1>2. U \subseteq Seq(A)
  <2> DEFINE m == 2
  <2>1. U = UpTo(m, A) /\ m \in Nat
    BY DEF Strings2
  <2> HIDE DEF m, A, U
  <2> QED
    BY <2>1, UpToIs
<1>3. n \in Nat /\ NoMatch \notin U
  BY NoMatchAssumption
<1> HIDE DEF A, n, U
<1>4. UpTo(n, U) \subseteq Seq(U) /\ Seq(U) \subseteq Seq(Seq(A))
  BY <1>2, <1>3, UpToIs, SeqMonotonic
<1>5. ASSUME NEW a \in Args["nearest"]
      PROVE  NearestExact(a[1], a[2])
  <2> DEFINE s == a[1]
             c == a[2]
  <2>1. s \in U /\ c \in Seq(U) /\ c # <<>>
    BY <1>1, <1>4
  <2> HIDE DEF s, c
  <2>2. NoMatch \notin ToSet(c)
    BY <1>3, <2>1 DEF ToSet
  <2>3. s \in Seq(A) /\ c \in Seq(Seq(A)) /\ c # <<>> /\ NoMatch \notin ToSet(c)
    BY <1>2, <1>4, <2>1, <2>2
  <2>4. NearestExact(s, c)
    BY ONLY <2>3, NearestFound
  <2> QED
    BY <2>4 DEF s, c
<1> QED
  BY <1>5

\* The structures, each with the members that are listed.
LEMMA LayoutsAre == \A a \in Args["layouts"] : VerifyExact(a[1], a[2])
<1> DEFINE B == Members
           n == 3
           m == 4
<1>1. /\ Structs = UpTo(n, B) \ {<<>>}
      /\ Args["layouts"] = UNION {{<<T, a>> : a \in UpTo(m, DOMAIN T) \ {<<>>}} : T \in Structs}
  BY DEF Args, Structs
<1>2. n \in Nat /\ m \in Nat /\ B \subseteq MembersOf
  BY DEF Members, MembersOf
<1> HIDE DEF B, n, m
<1>3. UpTo(n, B) \subseteq Seq(B) /\ Seq(B) \subseteq Seq(MembersOf)
  BY <1>2, UpToIs, SeqMonotonic
<1>4. Structs \subseteq StructsOf
  BY <1>1, <1>3 DEF StructsOf
<1>5. ASSUME NEW x \in Args["layouts"]
      PROVE  VerifyExact(x[1], x[2])
  <2>1. PICK T \in Structs : \E a \in UpTo(m, DOMAIN T) \ {<<>>} : x = <<T, a>>
    BY <1>1
  <2>2. PICK a \in UpTo(m, DOMAIN T) \ {<<>>} : x = <<T, a>>
    BY <2>1
  <2>3. UpTo(m, DOMAIN T) \subseteq Seq(DOMAIN T)
    BY <1>2, UpToIs
  <2>4. T \in StructsOf /\ a \in Seq(DOMAIN T) /\ a # <<>>
    BY <1>4, <2>3
  <2>5. VerifyExact(T, a)
    BY ONLY <2>4, PaddingFound
  <2>6. x[1] = T /\ x[2] = a
    BY <2>2
  <2> QED
    BY <2>5, <2>6
<1> QED
  BY <1>5

\* The numbers that are sent.
LEMMA WireIs ==
    \A a \in Args["wire"] : WirePortable(a) /\ \A v \in WireValues : HashAgrees(a, v)
<1>1. Args["wire"] = WireValues
  BY DEF Args
<1> QED
  BY <1>1, ValuesPortable, HashesAgree

\* The arrays, with less than a number behind them.
LEMMA ArraysConvert ==
    \A a \in Args["arrays"] : \A from, to \in ByteOrders : ConvertExact(a[1], a[2], from, to)
<1> DEFINE V == WireValues
           u == <<1>>
           n == 2
           R == {rest \in {<<>>, u} : Len(rest) < Width}
<1>1. Args["arrays"] = UpTo(n, V) \X R
  BY DEF Args
<1>2. n \in Nat
  OBVIOUS
<1>3. \A rest \in {<<>>, u} : rest \in Seq(0..Base - 1)
  <2> DEFINE D == 0..Base - 1
             one == 1
  <2>1. one \in D
    BY WireAssumption
  <2>2. u = <<one>>
    OBVIOUS
  <2> HIDE DEF D, one, u
  <2>3. <<one>> \in Seq(D) /\ <<>> \in Seq(D)
    BY <2>1, UnitIs
  <2>4. \A rest \in {<<>>, u} : rest \in Seq(D)
    BY <2>2, <2>3
  <2> QED
    BY <2>4 DEF D
<1> HIDE DEF V, n, u
<1>4. UpTo(n, V) \subseteq Seq(V)
  BY <1>2, UpToIs
<1>5. ASSUME NEW a \in Args["arrays"], NEW from \in ByteOrders, NEW to \in ByteOrders
      PROVE  ConvertExact(a[1], a[2], from, to)
  <2> DEFINE values == a[1]
             rest == a[2]
  <2>1. values \in Seq(V) /\ rest \in R
    BY <1>1, <1>4
  <2> HIDE DEF values, rest
  <2>2. values \in Seq(WireValues) /\ rest \in Seq(0..Base - 1) /\ Len(rest) < Width
    BY <1>3, <2>1 DEF V
  <2>3. ConvertExact(values, rest, from, to)
    BY <2>2, ConvertsExactly
  <2> QED
    BY <2>3 DEF values, rest
<1> QED
  BY <1>5

\* The beginnings of files.
LEMMA MarksAre == \A a \in Args["marks"] : BomExact(a)
<1> DEFINE B == {0, 187, 191, 239, 254, 255}
           n == 4
<1>1. Args["marks"] = UpTo(n, B)
  BY DEF Args
<1>2. n \in Nat /\ B \subseteq Nat
  OBVIOUS
<1> HIDE DEF B, n
<1>3. UpTo(n, B) \subseteq Seq(B) /\ Seq(B) \subseteq Seq(Nat)
  BY <1>2, UpToIs, SeqMonotonic
<1> QED
  BY <1>1, <1>3, MarksFound

\* The texts with accents.
LEMMA UnitsAre == \A a \in Args["units"] : CodepointsExact(a, {3, 4}, {2, 4})
<1> DEFINE B == 1..4
           n == 3
           W == {3, 4}
           M == {2, 4}
<1>1. Args["units"] = UpTo(n, B)
  BY DEF Args
<1>2. n \in Nat
  OBVIOUS
<1> HIDE DEF B, n, W, M
<1>3. UpTo(n, B) \subseteq Seq(B)
  BY <1>2, UpToIs
<1>4. \A a \in Args["units"] : CodepointsExact(a, W, M)
  BY <1>1, <1>3, AccentsRemoved
<1> QED
  BY <1>4 DEF W, M

\* The subject and its argument stay.
AlgorithmsInd ==
    /\ subject \in Machines \cup DOMAIN Args
    /\ subject \notin Machines => arg \in Args[subject]

\* It holds at first.
LEMMA AlgorithmsInit == Init => AlgorithmsInd
  BY DEF Init, AlgorithmsInd

\* No step of a machine changes them.
LEMMA AlgorithmsNext == AlgorithmsInd /\ [Next]_allVars => AlgorithmsInd'
<1> SUFFICES ASSUME AlgorithmsInd, [Next]_allVars
             PROVE  UNCHANGED <<subject, arg>>
  BY DEF AlgorithmsInd
<1> QED
  BY DEF Next, allVars, TextMoves, CSMoves, EmailMoves, IcuMoves

\* What is shown of each algorithm for its arguments is what the run says.
LEMMA AlgorithmsImplied == AlgorithmsInd => AlgorithmsExact
<1> SUFFICES ASSUME AlgorithmsInd
             PROVE  AlgorithmsExact
  OBVIOUS
<1>1. ASSUME NEW x, subject = x, x \notin Machines
      PROVE  arg \in Args[x]
  BY <1>1 DEF AlgorithmsInd
<1>2. \A x \in {"numbers", "names", "draws", "pages", "patterns", "distances", "nearest",
                "layouts", "wire", "arrays", "marks", "units"} : x \notin Machines
  BY DEF Machines
<1>3. \A x \in {"numbers", "names", "draws", "pages", "patterns", "distances", "nearest",
                "layouts", "wire", "arrays", "marks", "units"} :
         subject = x => arg \in Args[x]
  BY <1>1, <1>2
<1>4. subject = "numbers" => NumberExact(arg)
  BY <1>3, NumbersAre
<1>5. subject = "names" => NameRoundTrip(arg) /\ FullNameExact(arg)
  BY <1>3, NamesAre
<1>6. subject = "draws" => FileNameExact(arg)
  BY <1>3, DrawsAre
<1>7. subject = "pages" => PagesExact(arg)
  BY <1>3, PagesAre
<1>8. subject = "patterns" => FindsContaining(arg[1], arg[2])
  BY <1>3, PatternsAre
<1>9. subject = "distances" => DistanceExact(arg[1], arg[2], {"a", "b", "c"})
  BY <1>3, DistancesAre
<1>10. subject = "nearest" => NearestExact(arg[1], arg[2])
  BY <1>3, NearestAre
<1>11. subject = "layouts" => VerifyExact(arg[1], arg[2])
  BY <1>3, LayoutsAre
<1>12. subject = "wire" => WirePortable(arg) /\ \A v \in WireValues : HashAgrees(arg, v)
  BY <1>3, WireIs
<1>13. subject = "arrays" =>
         \A from, to \in ByteOrders : ConvertExact(arg[1], arg[2], from, to)
  BY <1>3, ArraysConvert
<1>14. subject = "marks" => BomExact(arg)
  BY <1>3, MarksAre
<1>15. subject = "units" => CodepointsExact(arg, {3, 4}, {2, 4})
  BY <1>3, UnitsAre
<1> QED
  BY <1>4, <1>5, <1>6, <1>7, <1>8, <1>9, <1>10, <1>11, <1>12, <1>13, <1>14, <1>15, LessOrders
     DEF AlgorithmsExact

\* Every algorithm agrees with its reference definition for the arguments of
\* the run, whatever its constants are.
THEOREM AlgorithmsCorrect == Spec => []AlgorithmsExact
<1>1. Init => AlgorithmsInd
  BY AlgorithmsInit
<1>2. AlgorithmsInd /\ [Next]_allVars => AlgorithmsInd'
  BY AlgorithmsNext
<1>3. AlgorithmsInd => AlgorithmsExact
  BY AlgorithmsImplied
<1> QED
  BY <1>1, <1>2, <1>3, PTL DEF Spec
=============================================================================
