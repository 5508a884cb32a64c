------------------------- MODULE LabelPipelineProofs --------------------------
(***************************************************************************)
(* What is proved of the label tools, whatever game, options, chance, lost *)
(* ends and edits: the samples are those that were asked for, and every    *)
(* label is the label of the sample its id names.                          *)
(*                                                                         *)
(* Two invariants: SamplerInv of the sampler, of which the rest only needs *)
(* that its samples are as many as were asked for when it is done, and     *)
(* FilesInv of the two files and the dump between them.                    *)
(***************************************************************************)
EXTENDS LabelPipeline, GameTreeProofs

(***************************************************************************)
(* Samples (sample_positions).                                             *)
(***************************************************************************)
Samplers ==
  [pc : {"next", "attempt", "done", "failed", "exited"}, board : Positions, ply : Nat,
   samples : Seq(Positions), attempts : Nat, duplicates : Nat, discarded_terminal : Nat,
   discarded_max_plies : Nat]

TargetOf(o, attempts) == o.target_empties[((attempts - 1) % Len(o.target_empties)) + 1]

MadeByMove(p) == p = Initial \/ \E q \in Positions : \E m \in Moves[q] : Play[q][m] = p

Asked(o, p) ==
  /\ Empties[p] \in Range(o.target_empties)
  /\ ~o.allow_terminal => ~Terminal(p)
  /\ MadeByMove(p)

AllAsked(o, samples) ==
  /\ \A i \in DOMAIN samples : Asked(o, samples[i])
  /\ o.unique => IsInjective(samples)

Discarded(s) == s.duplicates + s.discarded_terminal + s.discarded_max_plies

\* A pass is only taken on the way to a position of another size, and keeps the
\* size it has, so a board of the size that is wanted was made by a move.
SamplerOk(o, s) ==
  /\ s \in Samplers /\ AllAsked(o, s.samples)
  /\ s.pc = "done" => Len(s.samples) = o.count
  /\ s.attempts = Len(s.samples) + Discarded(s) + (IF s.pc = "attempt" THEN 1 ELSE 0)
  /\ s.pc = "attempt" =>
       s.attempts > 0 /\ (MadeByMove(s.board) \/ Empties[s.board] # TargetOf(o, s.attempts))

SamplerInv == job \in Jobs /\ SamplerOk(options, sampler)

LEMMA OptionsType ==
  ASSUME job \in Jobs
  PROVE  options \in SamplerOptions /\ options.target_empties # << >> /\ Initial \in Positions
BY JobSampler DEF options

LEMMA TargetIsAsked ==
  ASSUME NEW o \in SamplerOptions, o.target_empties # << >>, NEW a \in Nat, a > 0
  PROVE  TargetOf(o, a) \in Range(o.target_empties)
<1> DEFINE t == o.target_empties
           n == Len(t)
           b == a - 1
           i == (b % n) + 1
<1>1. t \in Seq(0 .. 64) /\ n \in Nat /\ n > 0
  BY EmptySeq, LenProperties DEF SamplerOptions
<1>2. b \in Nat
  OBVIOUS
<1>3. TargetOf(o, a) = t[i]
  BY DEF TargetOf
<1>4. DOMAIN t = 1 .. n
  BY <1>1, LenProperties
<1> HIDE DEF t, n, b
<1>5. b % n \in 0 .. n - 1
  BY <1>1, <1>2
<1>6. i \in 1 .. n
  BY <1>1, <1>5
<1> HIDE DEF i
<1> QED
  BY <1>3, <1>4, <1>6 DEF Range, t

LEMMA AppendDistinct ==
  ASSUME NEW S, NEW s \in Seq(S), NEW e \in S, IsInjective(s), e \notin Range(s)
  PROVE  IsInjective(Append(s, e))
BY AppendInjective DEF IsInjective, Range

LEMMA AppendAsked ==
  ASSUME NEW o, NEW s \in Seq(Positions), NEW p \in Positions, AllAsked(o, s), Asked(o, p),
         o.unique => p \notin Range(s)
  PROVE  AllAsked(o, Append(s, p))
<1> DEFINE n == Len(s)
           t == Append(s, p)
<1>1. n \in Nat /\ DOMAIN s = 1 .. n /\ DOMAIN t = 1 .. n + 1
      /\ t[n + 1] = p /\ \A i \in 1 .. n : t[i] = s[i]
  BY AppendProperties, LenProperties
<1>2. o.unique => IsInjective(t)
  BY AppendDistinct DEF AllAsked
<1> HIDE DEF n, t
<1>3. ASSUME NEW i \in 1 .. n + 1
      PROVE  Asked(o, t[i])
  <2>1. i \in 1 .. n \/ i = n + 1
    BY <1>1
  <2> QED
    BY <1>1, <2>1 DEF AllAsked
<1>4. AllAsked(o, t)
  BY <1>1, <1>2, <1>3 DEF AllAsked
<1> QED
  BY <1>4 DEF t

LEMMA SamplerParts ==
  ASSUME NEW s \in Samplers
  PROVE  /\ s.samples \in Seq(Positions) /\ Len(s.samples) \in Nat /\ s.board \in Positions
         /\ s.attempts \in Nat /\ s.duplicates \in Nat /\ s.ply \in Nat
         /\ s.discarded_terminal \in Nat /\ s.discarded_max_plies \in Nat
BY LenProperties DEF Samplers

LEMMA SamplerCounts ==
  ASSUME NEW s \in Samplers
  PROVE  /\ s.attempts + 1 \in Nat /\ s.ply + 1 \in Nat /\ s.duplicates + 1 \in Nat
         /\ s.discarded_terminal + 1 \in Nat /\ s.discarded_max_plies + 1 \in Nat
BY SamplerParts

LEMMA DiscardedType ==
  ASSUME NEW s \in Samplers
  PROVE  Discarded(s) \in Nat
BY SamplerParts DEF Discarded

\* What one more of the attempts' ends does to their count.
LEMMA OneMoreDiscarded ==
  ASSUME NEW s \in Samplers, NEW t,
         \/ /\ t.duplicates = s.duplicates + 1 /\ t.discarded_terminal = s.discarded_terminal
            /\ t.discarded_max_plies = s.discarded_max_plies
         \/ /\ t.duplicates = s.duplicates /\ t.discarded_terminal = s.discarded_terminal + 1
            /\ t.discarded_max_plies = s.discarded_max_plies
         \/ /\ t.duplicates = s.duplicates /\ t.discarded_terminal = s.discarded_terminal
            /\ t.discarded_max_plies = s.discarded_max_plies + 1
  PROVE  Discarded(t) = Discarded(s) + 1
<1> DEFINE a == s.duplicates
           b == s.discarded_terminal
           c == s.discarded_max_plies
<1>1. a \in Nat /\ b \in Nat /\ c \in Nat
  BY SamplerParts
<1>2. Discarded(s) = a + b + c
  BY DEF Discarded
<1>3. Discarded(t) = t.duplicates + t.discarded_terminal + t.discarded_max_plies
  BY DEF Discarded
<1> HIDE DEF a, b, c
<1>4. (a + 1) + b + c = (a + b + c) + 1 /\ a + (b + 1) + c = (a + b + c) + 1
      /\ a + b + (c + 1) = (a + b + c) + 1
  BY <1>1
<1> QED
  BY <1>2, <1>3, <1>4 DEF a, b, c

\* An attempt ends with a sample, or is counted.
LEMMA AttemptEnds ==
  ASSUME NEW o, NEW s, NEW t \in Samplers, SamplerOk(o, s), s.pc = "attempt", t.pc = "next",
         t.attempts = s.attempts,
         \/ t.samples = s.samples /\ Discarded(t) = Discarded(s) + 1
         \/ /\ t.samples = Append(s.samples, s.board) /\ Discarded(t) = Discarded(s)
            /\ Asked(o, s.board) /\ (o.unique => s.board \notin Range(s.samples))
  PROVE  SamplerOk(o, t)
<1>1. s \in Samplers /\ AllAsked(o, s.samples) /\ s.attempts = Len(s.samples) + Discarded(s) + 1
  BY DEF SamplerOk
<1>2. Discarded(s) \in Nat /\ Discarded(t) \in Nat
  BY <1>1, DiscardedType
<1>3. s.samples \in Seq(Positions) /\ Len(s.samples) \in Nat /\ s.board \in Positions
  BY <1>1, SamplerParts
<1>4. CASE t.samples = s.samples /\ Discarded(t) = Discarded(s) + 1
  <2>1. t.attempts = Len(t.samples) + Discarded(t) + 0
    BY <1>1, <1>2, <1>3, <1>4
  <2> QED
    BY <1>1, <1>4, <2>1 DEF SamplerOk
<1>5. CASE /\ t.samples = Append(s.samples, s.board) /\ Discarded(t) = Discarded(s)
           /\ Asked(o, s.board) /\ (o.unique => s.board \notin Range(s.samples))
  <2>1. AllAsked(o, t.samples)
    BY <1>1, <1>3, <1>5, AppendAsked
  <2>2. Len(t.samples) = Len(s.samples) + 1
    BY <1>3, <1>5, AppendProperties
  <2>3. t.attempts = Len(t.samples) + Discarded(t) + 0
    BY <1>1, <1>2, <1>3, <1>5, <2>2
  <2> QED
    BY <2>1, <2>3 DEF SamplerOk
<1> QED
  BY <1>4, <1>5

LEMMA SamplerBegins ==
  ASSUME SamplerInv, BeginAttempt
  PROVE  SamplerOk(options, sampler')
<1> DEFINE t == sampler'
<1>1. sampler \in Samplers /\ AllAsked(options, sampler.samples) /\ Initial \in Positions
      /\ sampler.attempts = Len(sampler.samples) + Discarded(sampler) + 0
  BY OptionsType DEF SamplerInv, SamplerOk, BeginAttempt
<1>2. t = [sampler EXCEPT !.pc = "attempt", !.board = Initial, !.ply = 0, !.attempts = @ + 1]
  BY DEF BeginAttempt
<1> HIDE DEF t
<1>3. t \in Samplers
  BY <1>1, <1>2, SamplerCounts DEF Samplers
<1>4. /\ t.pc = "attempt" /\ t.samples = sampler.samples /\ t.board = Initial
      /\ t.attempts = sampler.attempts + 1 /\ Discarded(t) = Discarded(sampler)
  BY <1>1, <1>2 DEF Samplers, Discarded
<1>5. Len(sampler.samples) \in Nat /\ Discarded(sampler) \in Nat
  BY <1>1, SamplerParts, DiscardedType
<1>6. t.attempts > 0 /\ t.attempts = Len(t.samples) + Discarded(t) + 1
  BY <1>1, <1>4, <1>5
<1>7. SamplerOk(options, t)
  BY <1>1, <1>3, <1>4, <1>6 DEF SamplerOk, MadeByMove
<1> QED
  BY <1>7 DEF t

LEMMA SamplerSamples ==
  ASSUME SamplerInv, Sample
  PROVE  SamplerOk(options, sampler')
<1> DEFINE t == sampler'
           s == sampler
           o == options
<1>1. /\ s \in Samplers /\ SamplerOk(o, s) /\ s.pc = "attempt" /\ t = Sampled
      /\ Empties[s.board] = Target /\ s.attempts > 0 /\ s.attempts \in Nat
      /\ o \in SamplerOptions /\ o.target_empties # << >> /\ s.board \in Positions
  BY OptionsType, SamplerParts DEF SamplerInv, SamplerOk, Sample, AtTarget
<1>2. Target = TargetOf(o, s.attempts)
  BY DEF Target, TargetOf
<1>3. Empties[s.board] \in Range(o.target_empties)
  BY <1>1, <1>2, TargetIsAsked
<1>4. MadeByMove(s.board)
  BY <1>1, <1>2 DEF SamplerOk
<1> HIDE DEF o
<1>5. CASE ~o.allow_terminal /\ Terminal(s.board)
  <2>1. t = [s EXCEPT !.pc = "next", !.discarded_terminal = @ + 1]
    BY <1>1, <1>5 DEF Sampled, o
  <2> HIDE DEF t, s
  <2>2. t \in Samplers
    BY <1>1, <2>1, SamplerCounts DEF Samplers
  <2>5. t.pc = "next" /\ t.attempts = s.attempts /\ t.samples = s.samples
    BY <1>1, <2>1 DEF Samplers
  <2>3. Discarded(t) = Discarded(s) + 1
    <3>1. t.duplicates = s.duplicates /\ t.discarded_terminal = s.discarded_terminal + 1
          /\ t.discarded_max_plies = s.discarded_max_plies
      BY <1>1, <2>1 DEF Samplers
    <3> QED
      BY <1>1, <3>1, OneMoreDiscarded
  <2>4. SamplerOk(o, t)
    BY <1>1, <2>2, <2>3, <2>5, AttemptEnds
  <2> QED
    BY <2>4 DEF t, o
<1>6. CASE ~(~o.allow_terminal /\ Terminal(s.board)) /\ Duplicate
  <2>1. t = [s EXCEPT !.pc = "next", !.duplicates = @ + 1]
    BY <1>1, <1>6 DEF Sampled, o
  <2> HIDE DEF t, s
  <2>2. t \in Samplers
    BY <1>1, <2>1, SamplerCounts DEF Samplers
  <2>5. t.pc = "next" /\ t.attempts = s.attempts /\ t.samples = s.samples
    BY <1>1, <2>1 DEF Samplers
  <2>3. Discarded(t) = Discarded(s) + 1
    <3>1. t.duplicates = s.duplicates + 1 /\ t.discarded_terminal = s.discarded_terminal
          /\ t.discarded_max_plies = s.discarded_max_plies
      BY <1>1, <2>1 DEF Samplers
    <3> QED
      BY <1>1, <3>1, OneMoreDiscarded
  <2>4. SamplerOk(o, t)
    BY <1>1, <2>2, <2>3, <2>5, AttemptEnds
  <2> QED
    BY <2>4 DEF t, o
<1>7. CASE ~(~o.allow_terminal /\ Terminal(s.board)) /\ ~Duplicate
  <2>1. t = [s EXCEPT !.pc = "next", !.samples = Append(@, s.board)]
    BY <1>1, <1>7 DEF Sampled, o
  <2>2. Asked(o, s.board)
    BY <1>3, <1>4, <1>7 DEF Asked
  <2>3. o.unique => s.board \notin Range(s.samples)
    BY <1>7 DEF Duplicate, o
  <2> HIDE DEF t, s
  <2>7. s.samples \in Seq(Positions)
    BY <1>1, SamplerParts
  <2>8. Append(s.samples, s.board) \in Seq(Positions)
    BY <1>1, <2>7, AppendProperties
  <2>9. t \in Samplers
    BY <1>1, <2>1, <2>8 DEF Samplers
  <2>4. t.pc = "next" /\ t.attempts = s.attempts /\ t.samples = Append(s.samples, s.board)
    BY <1>1, <2>1 DEF Samplers
  <2>5. Discarded(t) = Discarded(s)
    BY <1>1, <2>1 DEF Discarded, Samplers
  <2>6. SamplerOk(o, t)
    BY <1>1, <2>2, <2>3, <2>4, <2>5, <2>9, AttemptEnds
  <2> QED
    BY <2>6 DEF t, o
<1> QED
  BY <1>5, <1>6, <1>7

LEMMA SamplerGivesUp ==
  ASSUME SamplerInv, TerminalBeforeTarget \/ MaxPliesReached
  PROVE  SamplerOk(options, sampler')
<1> DEFINE t == sampler'
           s == sampler
           o == options
<1>1. s \in Samplers /\ SamplerOk(o, s) /\ s.pc = "attempt"
  BY DEF SamplerInv, SamplerOk, TerminalBeforeTarget, MaxPliesReached, ShortOfTarget
<1>2. \/ t = [s EXCEPT !.pc = "next", !.discarded_terminal = @ + 1]
      \/ t = [s EXCEPT !.pc = "next", !.discarded_max_plies = @ + 1]
  BY DEF TerminalBeforeTarget, MaxPliesReached
<1> HIDE DEF t, s, o
<1>3. t \in Samplers
  BY <1>1, <1>2, SamplerCounts DEF Samplers
<1>6. t.pc = "next" /\ t.attempts = s.attempts /\ t.samples = s.samples
  BY <1>1, <1>2 DEF Samplers
<1>4. Discarded(t) = Discarded(s) + 1
  <2>1. CASE t = [s EXCEPT !.pc = "next", !.discarded_terminal = @ + 1]
    <3>1. t.duplicates = s.duplicates /\ t.discarded_terminal = s.discarded_terminal + 1
          /\ t.discarded_max_plies = s.discarded_max_plies
      BY <1>1, <2>1 DEF Samplers
    <3> QED
      BY <1>1, <3>1, OneMoreDiscarded
  <2>2. CASE t = [s EXCEPT !.pc = "next", !.discarded_max_plies = @ + 1]
    <3>1. t.duplicates = s.duplicates /\ t.discarded_terminal = s.discarded_terminal
          /\ t.discarded_max_plies = s.discarded_max_plies + 1
      BY <1>1, <2>2 DEF Samplers
    <3> QED
      BY <1>1, <3>1, OneMoreDiscarded
  <2> QED
    BY <1>2, <2>1, <2>2
<1>5. SamplerOk(o, t)
  BY <1>1, <1>3, <1>4, <1>6, AttemptEnds
<1> QED
  BY <1>5 DEF t, o

LEMMA SamplerPlays ==
  ASSUME SamplerInv, RandomPly
  PROVE  SamplerOk(options, sampler')
<1> DEFINE t == sampler'
           s == sampler
           o == options
<1>1. /\ s \in Samplers /\ SamplerOk(o, s) /\ s.pc = "attempt" /\ s.board \in Positions
      /\ Empties[s.board] # Target
  BY SamplerParts DEF SamplerInv, SamplerOk, RandomPly, ShortOfTarget
<1>2. PICK next \in IF Moves[s.board] # {} THEN { Play[s.board][m] : m \in Moves[s.board] }
                    ELSE {Pass[s.board]} :
        t = [s EXCEPT !.board = next, !.ply = @ + 1]
  BY DEF RandomPly
<1>3. Target = TargetOf(o, s.attempts)
  BY DEF Target, TargetOf
<1> HIDE DEF t, s, o
<1>4. next \in Positions /\ (MadeByMove(next) \/ Empties[next] = Empties[s.board])
  BY <1>1, <1>2, GameTypes, GameProgress DEF MadeByMove
<1>5. /\ t \in Samplers /\ t.pc = "attempt" /\ t.attempts = s.attempts /\ t.samples = s.samples
      /\ t.board = next /\ Discarded(t) = Discarded(s)
  <2>1. t \in Samplers
    BY <1>1, <1>2, <1>4, SamplerCounts DEF Samplers
  <2> QED
    BY <1>1, <1>2, <2>1 DEF Samplers, Discarded
<1>6. SamplerOk(o, t)
  BY <1>1, <1>3, <1>4, <1>5 DEF SamplerOk
<1> QED
  BY <1>6 DEF t, o

LEMMA SamplerEnds ==
  ASSUME SamplerInv, EndSampling
  PROVE  SamplerOk(options, sampler')
<1> DEFINE t == sampler'
           s == sampler
           o == options
<1>1. s \in Samplers /\ SamplerOk(o, s) /\ s.pc = "next"
  BY DEF SamplerInv, SamplerOk, EndSampling
<1>2. t = [s EXCEPT !.pc = IF Len(s.samples) = o.count THEN "done" ELSE "failed"]
  BY DEF EndSampling
<1> HIDE DEF t, s, o
<1>3. t \in Samplers /\ t.pc = (IF Len(s.samples) = o.count THEN "done" ELSE "failed")
      /\ t.attempts = s.attempts /\ t.samples = s.samples
  BY <1>1, <1>2 DEF Samplers
<1>4. Discarded(t) = Discarded(s)
  BY <1>1, <1>2 DEF Discarded, Samplers
<1>5. SamplerOk(o, t)
  BY <1>1, <1>3, <1>4 DEF SamplerOk
<1> QED
  BY <1>5 DEF t, o

LEMMA NewSamplerOk ==
  ASSUME job \in Jobs
  PROVE  SamplerOk(options, NewSampler) /\ SamplerOk(options, [NewSampler EXCEPT !.pc = "exited"])
<1>1. Initial \in Positions
  BY OptionsType
<1>2. \A pc \in {"next", "exited"} : SamplerOk(options, [NewSampler EXCEPT !.pc = pc])
  <2> SUFFICES ASSUME NEW pc \in {"next", "exited"}
               PROVE  SamplerOk(options, [NewSampler EXCEPT !.pc = pc])
    OBVIOUS
  <2> DEFINE s == [NewSampler EXCEPT !.pc = pc]
  <2>1. s \in Samplers
    <3>1. s = [pc |-> pc, board |-> Initial, ply |-> 0, samples |-> << >>, attempts |-> 0,
               duplicates |-> 0, discarded_terminal |-> 0, discarded_max_plies |-> 0]
      BY DEF NewSampler
    <3>2. << >> \in Seq(Positions) /\ 0 \in Nat
      OBVIOUS
    <3>3. pc \in {"next", "attempt", "done", "failed", "exited"}
      OBVIOUS
    <3> QED
      BY <1>1, <3>1, <3>2, <3>3, Zenon DEF Samplers
  <2>2. s.pc = pc /\ s.samples = << >> /\ s.attempts = 0 /\ Discarded(s) = 0 + 0 + 0
    BY DEF NewSampler, Discarded
  <2> HIDE DEF s
  <2>3. AllAsked(options, << >>) /\ Len(<< >>) = 0
    BY DEF AllAsked, IsInjective
  <2>4. SamplerOk(options, s)
    BY <2>1, <2>2, <2>3 DEF SamplerOk
  <2> QED
    BY <2>4 DEF s
<1>3. NewSampler = [NewSampler EXCEPT !.pc = "next"]
  BY DEF NewSampler
<1> QED
  BY <1>2, <1>3

LEMMA SamplerInit == Init => SamplerInv
BY NewSamplerOk DEF Init, SamplerInv

LEMMA SamplerKept == SamplerInv /\ [Next]_vars => SamplerInv'
<1> SUFFICES ASSUME SamplerInv, [Next]_vars
             PROVE  SamplerInv'
  OBVIOUS
<1>1. UNCHANGED job => options' = options
  BY DEF options
<1>2. CASE Sampling
  <2>1. SamplerStep /\ UNCHANGED job
    BY <1>2 DEF Sampling, SamplerStep
  <2>2. SamplerOk(options, sampler')
    BY <2>1, SamplerBegins, SamplerSamples, SamplerGivesUp, SamplerPlays, SamplerEnds DEF SamplerStep
  <2> QED
    BY <1>1, <2>1, <2>2 DEF SamplerInv
<1>3. CASE WritePositions
  <2>1. UNCHANGED job /\ sampler' = [NewSampler EXCEPT !.pc = "exited"] /\ job \in Jobs
    BY <1>3 DEF WritePositions, SamplerInv
  <2> QED
    BY <1>1, <2>1, NewSamplerOk DEF SamplerInv
<1>4. CASE UNCHANGED <<job, sampler>>
  BY <1>1, <1>4 DEF SamplerInv
<1>5. [Next]_vars => Sampling \/ WritePositions \/ UNCHANGED <<job, sampler>>
  BY DEF Next, vars, Sampler, Dump, Analyzer, LosePositionsTail, StartDump, SkipTooManyEmpties, LabelPosition,
     EndDump, LoseLabelsTail, EditLine, StartAnalyzer, ReadLine, WriteReport
<1> QED
  BY <1>2, <1>3, <1>4, <1>5

\* The samples are those that were asked for, and every attempt is accounted
\* for, whatever game, options and chance (sample_positions).
THEOREM SamplesAreAsAsked == Spec => []SamplesAsAsked
<1>1. SamplerInv => SamplesAsAsked
  <2> SUFFICES ASSUME SamplerInv
               PROVE  SamplesAsAsked
    OBVIOUS
  <2>1. SamplerOk(options, sampler)
    BY DEF SamplerInv
  <2>2. AttemptsAccountedFor
    <3>1. sampler.attempts = Len(sampler.samples) + Discarded(sampler) + (IF sampler.pc = "attempt" THEN 1 ELSE 0)
      BY <2>1 DEF SamplerOk
    <3>2. /\ Len(sampler.samples) \in Nat /\ sampler.duplicates \in Nat
          /\ sampler.discarded_terminal \in Nat /\ sampler.discarded_max_plies \in Nat
      BY <2>1, SamplerParts DEF SamplerOk
    <3> QED
      BY <3>1, <3>2 DEF AttemptsAccountedFor, Discarded
  <2> QED
    BY <2>1, <2>2 DEF SamplesAsAsked, SamplerOk, AllAsked, Asked, MadeByMove
<1> QED
  BY <1>1, SamplerInit, SamplerKept, PTL DEF Spec
(***************************************************************************)
(* The file of positions (write_positions, parse_position_text).           *)
(***************************************************************************)
LineAt(s, j) == IF j % 10 = 0 THEN BlankLine ELSE RowLine(s[j \div 10 + 1], j % 10)
RowAt(s, r) == RowLine(s[(r - 1) \div 9 + 1], ((r - 1) % 9) + 1)
Rows(s, m) == [r \in 1 .. m |-> RowAt(s, r)]

\* The file of the boards s, or what a lost end leaves of it: its first n lines,
\* and after them the beginning of a line if k is 1.
FileOf(lines, s, n, k) ==
  /\ n \in Nat /\ n <= 10 * Len(s) - 1 /\ k \in {0, 1} /\ Len(lines) = n + k
  /\ \A j \in 1 .. n : lines[j] = LineAt(s, j)
  /\ k = 1 => lines[n + 1] = TornLine

RowsBefore(n) == n - n \div 10

LEMMA LineNumber ==
  ASSUME NEW n \in Nat
  PROVE  \E q \in Nat : \E t \in 0 .. 9 :
           n = 10 * q + t /\ n \div 10 = q /\ n % 10 = t /\ RowsBefore(n) = 9 * q + t
<1> DEFINE q == n \div 10
           t == n % 10
<1>1. q \in Nat /\ t \in 0 .. 9 /\ n = 10 * q + t
  OBVIOUS
<1>2. RowsBefore(n) = n - q
  BY DEF RowsBefore
<1> HIDE DEF q, t
<1>3. n - q = 9 * q + t
  BY <1>1
<1> QED
  BY <1>1, <1>2, <1>3 DEF q, t

LEMMA RowNumber ==
  ASSUME NEW q \in Nat, NEW t \in 1 .. 9
  PROVE  ((9 * q + t) - 1) \div 9 = q /\ ((9 * q + t) - 1) % 9 = t - 1
<1> DEFINE a == (9 * q + t) - 1
           d == a \div 9
           e == a % 9
<1>1. a \in Nat /\ a = 9 * q + (t - 1)
  OBVIOUS
<1> HIDE DEF a
<1>2. d \in Nat /\ e \in 0 .. 8 /\ a = 9 * d + e
  BY <1>1
<1> HIDE DEF d, e
<1>3. d = q /\ e = t - 1
  BY <1>1, <1>2
<1> QED
  BY <1>3 DEF a, d, e

LEMMA RowsGrow ==
  ASSUME NEW s, NEW n \in Nat, n > 0
  PROVE  /\ RowsBefore(n) \in Nat
         /\ n % 10 = 0 => RowsBefore(n) = RowsBefore(n - 1)
         /\ n % 10 # 0 => /\ RowsBefore(n) = RowsBefore(n - 1) + 1
                          /\ RowAt(s, RowsBefore(n)) = LineAt(s, n)
<1>1. PICK q \in Nat, t \in 0 .. 9 :
        n = 10 * q + t /\ n \div 10 = q /\ n % 10 = t /\ RowsBefore(n) = 9 * q + t
  BY LineNumber
<1>2. PICK r \in Nat, u \in 0 .. 9 :
        n - 1 = 10 * r + u /\ (n - 1) \div 10 = r /\ (n - 1) % 10 = u /\ RowsBefore(n - 1) = 9 * r + u
  <2>1. n - 1 \in Nat
    OBVIOUS
  <2> QED
    BY <2>1, LineNumber
<1>3. CASE t = 0
  <2>1. u = 9 /\ r = q - 1
    BY <1>1, <1>2, <1>3
  <2> QED
    BY <1>1, <1>2, <1>3, <2>1
<1>4. CASE t # 0
  <2>1. u = t - 1 /\ r = q
    BY <1>1, <1>2, <1>4
  <2>2. RowsBefore(n) = RowsBefore(n - 1) + 1 /\ n % 10 # 0
    BY <1>1, <1>2, <1>4, <2>1
  <2>3. RowAt(s, 9 * q + t) = RowLine(s[q + 1], (t - 1) + 1)
    <3>1. t \in 1 .. 9
      BY <1>4
    <3> QED
      BY <3>1, RowNumber DEF RowAt
  <2>4. LineAt(s, n) = RowLine(s[q + 1], t)
    BY <1>1, <1>4 DEF LineAt
  <2>5. (t - 1) + 1 = t
    OBVIOUS
  <2> QED
    BY <1>1, <2>2, <2>3, <2>4, <2>5
<1> QED
  BY <1>3, <1>4

LEMMA RowsAppend ==
  ASSUME NEW s, NEW m \in Nat
  PROVE  Append(Rows(s, m), RowAt(s, m + 1)) = Rows(s, m + 1)
<1> DEFINE R == { RowAt(s, r) : r \in 1 .. m + 1 }
           a == Append(Rows(s, m), RowAt(s, m + 1))
           b == Rows(s, m + 1)
<1>1. Rows(s, m) \in Seq(R) /\ Len(Rows(s, m)) = m /\ RowAt(s, m + 1) \in R
  BY DEF Rows
<1>2. b \in Seq(R) /\ Len(b) = m + 1
  BY DEF Rows
<1> HIDE DEF R
<1>3. /\ a \in Seq(R) /\ Len(a) = m + 1 /\ a[m + 1] = RowAt(s, m + 1)
      /\ \A i \in 1 .. m : a[i] = Rows(s, m)[i]
  BY <1>1, AppendProperties
<1>4. \A i \in 1 .. m + 1 : a[i] = b[i]
  <2> SUFFICES ASSUME NEW i \in 1 .. m + 1
               PROVE  a[i] = b[i]
    OBVIOUS
  <2>1. b[i] = RowAt(s, i)
    BY DEF Rows
  <2>2. CASE i = m + 1
    BY <1>3, <2>1, <2>2
  <2>3. CASE i # m + 1
    <3>1. i \in 1 .. m
      BY <2>3
    <3>2. Rows(s, m)[i] = RowAt(s, i)
      BY <3>1 DEF Rows
    <3> QED
      BY <1>3, <2>1, <3>1, <3>2
  <2> QED
    BY <2>2, <2>3
<1> HIDE DEF a, b
<1>5. a = b
  BY <1>2, <1>3, <1>4, SeqEqual
<1> QED
  BY <1>5 DEF a, b

\* What is kept of a line list is what any function says that begins with
\* nothing and goes on as the reading does.
KeepsOn(g, lines, n) ==
  /\ g[0] = << >>
  /\ \A i \in 1 .. n :
       g[i] = IF lines[i].kind = "blank" THEN g[i - 1] ELSE Append(g[i - 1], lines[i])

LEMMA KeptIs ==
  ASSUME NEW lines, NEW n \in Nat, Len(lines) = n, NEW g, KeepsOn(g, lines, n)
  PROVE  Kept(lines) = g[n]
<1> DEFINE Body(f) == [i \in 0 .. Len(lines) |->
                         IF i = 0 THEN << >>
                         ELSE IF lines[i].kind = "blank" THEN f[i - 1] ELSE Append(f[i - 1], lines[i])]
           at == CHOOSE f : f = Body(f)
           h == [i \in 0 .. n |-> g[i]]
<1>1. h = Body(h)
  <2>1. ASSUME NEW i \in 0 .. n
        PROVE  h[i] = Body(h)[i]
    <3>1. CASE i = 0
      BY <3>1 DEF KeepsOn
    <3>2. CASE i # 0
      <4>1. i \in 1 .. n /\ i - 1 \in 0 .. n
        BY <3>2
      <4>2. h[i] = g[i] /\ h[i - 1] = g[i - 1]
        BY <4>1
      <4>3. Body(h)[i] = IF lines[i].kind = "blank" THEN h[i - 1] ELSE Append(h[i - 1], lines[i])
        BY <3>2
      <4> QED
        BY <4>1, <4>2, <4>3 DEF KeepsOn
    <3> QED
      BY <3>1, <3>2
  <2>2. h = [i \in 0 .. n |-> h[i]] /\ Body(h) = [i \in 0 .. n |-> Body(h)[i]]
    OBVIOUS
  <2> HIDE DEF h, Body
  <2> QED
    BY <2>1, <2>2
<1>2. at = Body(at)
  <2> HIDE DEF Body, h
  <2> QED
    BY <1>1
<1>3. \A i \in 0 .. n : at[i] = IF i = 0 THEN << >>
                               ELSE IF lines[i].kind = "blank" THEN at[i - 1] ELSE Append(at[i - 1], lines[i])
  <2> HIDE DEF at
  <2> QED
    BY <1>2
<1>4. Kept(lines) = at[n]
  BY DEF Kept, at
<1> HIDE DEF at
<1>5. ContinueAlike(g, at, n)
  <2>1. at[0] = << >>
    BY <1>3
  <2>2. \A i \in 1 .. n : i \in 0 .. n /\ i # 0
    OBVIOUS
  <2> QED
    BY <1>3, <2>1, <2>2 DEF ContinueAlike, KeepsOn
<1>6. Alike(g, at, n)
  BY <1>5, RecursionUnique
<1> QED
  BY <1>4, <1>6 DEF Alike

LEMMA KeptOfFile ==
  ASSUME NEW lines, NEW s, NEW n, NEW k, FileOf(lines, s, n, k)
  PROVE  Kept(lines) = IF k = 0 THEN Rows(s, RowsBefore(n)) ELSE Append(Rows(s, RowsBefore(n)), TornLine)
<1> DEFINE g == [i \in 0 .. n + k |-> IF i <= n THEN Rows(s, RowsBefore(i))
                                      ELSE Append(Rows(s, RowsBefore(n)), TornLine)]
<1>1. /\ n \in Nat /\ k \in {0, 1} /\ Len(lines) = n + k
      /\ \A j \in 1 .. n : lines[j] = LineAt(s, j)
      /\ k = 1 => lines[n + 1] = TornLine
  BY DEF FileOf
<1>2. g[0] = << >>
  <2>1. RowsBefore(0) = 0
    <3>1. 0 \div 10 = 0
      OBVIOUS
    <3> QED
      BY <3>1 DEF RowsBefore
  <2>2. Rows(s, 0) = << >>
    BY DEF Rows
  <2>3. 0 \in 0 .. n + k /\ 0 <= n
    BY <1>1
  <2> QED
    BY <2>1, <2>2, <2>3
<1>3. ASSUME NEW i \in 1 .. n
      PROVE  g[i] = IF lines[i].kind = "blank" THEN g[i - 1] ELSE Append(g[i - 1], lines[i])
  <2>1. i \in Nat /\ i > 0 /\ i - 1 \in Nat /\ i \in 0 .. n + k /\ i - 1 \in 0 .. n + k
    BY <1>1
  <2>2. g[i] = Rows(s, RowsBefore(i)) /\ g[i - 1] = Rows(s, RowsBefore(i - 1))
    BY <1>1, <2>1
  <2>3. lines[i] = LineAt(s, i)
    BY <1>1
  <2> HIDE DEF g
  <2>4. CASE i % 10 = 0
    <3>1. lines[i].kind = "blank"
      BY <2>3, <2>4 DEF LineAt, BlankLine
    <3> QED
      BY <2>1, <2>2, <2>4, <3>1, RowsGrow
  <2>5. CASE i % 10 # 0
    <3>1. lines[i].kind # "blank"
      BY <2>3, <2>5 DEF LineAt, RowLine
    <3>2. RowsBefore(i) = RowsBefore(i - 1) + 1 /\ RowAt(s, RowsBefore(i)) = LineAt(s, i)
      BY <2>1, <2>5, RowsGrow
    <3>3. RowsBefore(i - 1) \in Nat
      <4>1. PICK q \in Nat, t \in 0 .. 9 : RowsBefore(i - 1) = 9 * q + t
        BY <2>1, LineNumber
      <4> QED
        BY <4>1
    <3> QED
      BY <2>2, <2>3, <3>1, <3>2, <3>3, RowsAppend
  <2> QED
    BY <2>4, <2>5
<1>4. k = 1 => g[n + 1] = (IF lines[n + 1].kind = "blank" THEN g[n] ELSE Append(g[n], lines[n + 1]))
  <2> SUFFICES ASSUME k = 1
               PROVE  g[n + 1] = (IF lines[n + 1].kind = "blank" THEN g[n] ELSE Append(g[n], lines[n + 1]))
    OBVIOUS
  <2>1. n + 1 \in 0 .. n + k /\ n \in 0 .. n + k /\ ~(n + 1 <= n) /\ n <= n
    BY <1>1
  <2>2. g[n + 1] = Append(Rows(s, RowsBefore(n)), TornLine) /\ g[n] = Rows(s, RowsBefore(n))
    BY <2>1
  <2>3. lines[n + 1] = TornLine
    BY <1>1
  <2>4. TornLine.kind # "blank"
    BY DEF TornLine
  <2> HIDE DEF g
  <2> QED
    BY <2>2, <2>3, <2>4
<1>5. KeepsOn(g, lines, n + k)
  <2>1. \A i \in 1 .. n + k : i \in 1 .. n \/ (k = 1 /\ i = n + 1 /\ i - 1 = n)
    BY <1>1
  <2> HIDE DEF g
  <2> QED
    BY <1>2, <1>3, <1>4, <2>1 DEF KeepsOn
<1>6. Kept(lines) = g[n + k]
  <2> HIDE DEF g
  <2> QED
    BY <1>1, <1>5, KeptIs
<1>7. g[n + k] = IF k = 0 THEN Rows(s, RowsBefore(n)) ELSE Append(Rows(s, RowsBefore(n)), TornLine)
  BY <1>1
<1> QED
  BY <1>6, <1>7

FirstBoards(s, c) == [i \in 1 .. c |-> s[i]]

LEMMA RowsLength ==
  ASSUME NEW s, NEW m \in Nat
  PROVE  /\ Len(Rows(s, m)) = m /\ \A r \in 1 .. m : Rows(s, m)[r] = RowAt(s, r)
         /\ Rows(s, m) \in Seq({ RowAt(s, r) : r \in 1 .. m })
BY DEF Rows

LEMMA RowsInFile ==
  ASSUME NEW lines, NEW s, NEW n, NEW k, FileOf(lines, s, n, k), NEW l \in Nat, Len(s) = l
  PROVE  /\ RowsBefore(n) \in Nat /\ RowsBefore(n) <= 9 * l
         /\ n = 10 * l - 1 => RowsBefore(n) = 9 * l
<1>1. n \in Nat /\ n <= 10 * l - 1
  BY DEF FileOf
<1>2. PICK q \in Nat, t \in 0 .. 9 : n = 10 * q + t /\ RowsBefore(n) = 9 * q + t
  BY <1>1, LineNumber
<1>3. q <= l - 1
  BY <1>1, <1>2
<1>4. n = 10 * l - 1 => q = l - 1 /\ t = 9
  BY <1>2
<1> QED
  BY <1>2, <1>3, <1>4

\* The nine rows of the i-th board.
LEMMA BlockOfRows ==
  ASSUME NEW s, NEW c \in Nat, NEW i \in 1 .. c
  PROVE  SubSeq(Rows(s, 9 * c), 9 * i - 8, 9 * i) = BoardLines(s[i])
         /\ Rows(s, 9 * c)[9 * i - 8].board = s[i]
<1> DEFINE m == 9 * c
           x == Rows(s, m)
           lo == 9 * i - 8
           hi == 9 * i
           a == SubSeq(x, lo, hi)
           R == { RowAt(s, r) : r \in 1 .. m }
           b == BoardLines(s[i])
<1>1. m \in Nat /\ lo \in 1 .. m /\ hi \in 1 .. m /\ hi - lo + 1 = 9 /\ lo <= hi
  OBVIOUS
<1>2. \A j \in 1 .. 9 : lo + j - 1 \in 1 .. m
  OBVIOUS
<1>3. \A j \in 1 .. 9 : RowAt(s, lo + j - 1) = RowLine(s[i], j)
  <2> SUFFICES ASSUME NEW j \in 1 .. 9
               PROVE  RowAt(s, lo + j - 1) = RowLine(s[i], j)
    OBVIOUS
  <2> DEFINE q == i - 1
  <2>1. q \in Nat /\ q + 1 = i /\ (j - 1) + 1 = j /\ lo + j - 1 = 9 * q + j
    OBVIOUS
  <2> HIDE DEF q, lo
  <2>2. ((9 * q + j) - 1) \div 9 = q /\ ((9 * q + j) - 1) % 9 = j - 1
    BY <2>1, RowNumber
  <2>3. RowAt(s, 9 * q + j) = RowLine(s[q + 1], (j - 1) + 1)
    BY <2>2 DEF RowAt
  <2> QED
    BY <2>1, <2>3
<1>4. \A r \in 1 .. m : x[r] = RowAt(s, r)
  BY <1>1, RowsLength
<1> HIDE DEF m, x, lo, hi
<1>5. \A r \in lo .. hi : x[r] \in R
  BY <1>1, <1>4
<1>6. a \in Seq(R) /\ Len(a) = 9 /\ \A j \in 1 .. 9 : a[j] = x[lo + j - 1]
  <2> HIDE DEF R
  <2>1. /\ a \in Seq(R) /\ Len(a) = IF lo <= hi THEN hi - lo + 1 ELSE 0
        /\ \A j \in 1 .. hi - lo + 1 : a[j] = x[lo + j - 1]
    BY <1>1, <1>5, SubSeqProperties
  <2> QED
    BY <1>1, <2>1
<1>7. \A j \in 1 .. 9 : a[j] = RowLine(s[i], j)
  BY <1>2, <1>3, <1>4, <1>6
<1>8. a = [j \in 1 .. 9 |-> a[j]]
  <2> HIDE DEF a, R
  <2> QED
    BY <1>6, LenProperties
<1>9. a = b
  <2> HIDE DEF a
  <2> QED
    BY <1>7, <1>8 DEF BoardLines
<1>10. x[lo].board = s[i]
  <2>1. x[lo] = RowLine(s[i], 1)
    <3>1. 1 \in 1 .. 9 /\ lo + 1 - 1 = lo
      BY <1>1
    <3> QED
      BY <1>1, <1>3, <1>4, <3>1
  <2> QED
    BY <2>1 DEF RowLine
<1> QED
  BY <1>9, <1>10 DEF m, x, lo, hi

\* What the dump reads of the file is the boards whose rows are whole, and all
\* of them if nothing is lost.
LEMMA RowsParse ==
  ASSUME NEW lines, NEW s \in Seq(Positions), NEW c \in Nat, c <= Len(s), Kept(lines) = Rows(s, 9 * c)
  PROVE  ParsePositions(lines) = {FirstBoards(s, c)}
<1> DEFINE kept == Kept(lines)
           count == Len(kept) \div 9
           block(i) == SubSeq(kept, 9 * i - 8, 9 * i)
<1>1. Len(kept) = 9 * c
  <2>1. 9 * c \in Nat
    OBVIOUS
  <2> QED
    BY <2>1, RowsLength
<1>2. (9 * c) % 9 = 0 /\ (9 * c) \div 9 = c
  OBVIOUS
<1>3. count = c /\ Len(kept) % 9 = 0
  BY <1>1, <1>2
<1>4. \A i \in 1 .. c : block(i) = BoardLines(s[i]) /\ kept[9 * i - 8].board = s[i] /\ s[i] \in Positions
  <2> SUFFICES ASSUME NEW i \in 1 .. c
               PROVE  block(i) = BoardLines(s[i]) /\ kept[9 * i - 8].board = s[i] /\ s[i] \in Positions
    OBVIOUS
  <2>1. s[i] \in Positions
    <3>1. Len(s) \in Nat /\ i \in 1 .. Len(s)
      BY LenProperties
    <3> QED
      BY <3>1, ElementOfSeq
  <2> QED
    BY <2>1, BlockOfRows
<1>5. ParsePositions(lines) = IF /\ Len(kept) % 9 = 0
                                 /\ \A i \in 1 .. count : \E p \in Positions : block(i) = BoardLines(p)
                              THEN {[i \in 1 .. count |-> kept[9 * i - 8].board]} ELSE {}
  BY DEF ParsePositions
<1> HIDE DEF count
<1>6. \A i \in 1 .. count : \E p \in Positions : block(i) = BoardLines(p)
  BY <1>3, <1>4
<1>7. [i \in 1 .. count |-> kept[9 * i - 8].board] = FirstBoards(s, c)
  BY <1>3, <1>4 DEF FirstBoards
<1> HIDE DEF kept, block
<1> QED
  BY <1>3, <1>5, <1>6, <1>7

LEMMA RaggedRowsRefused ==
  ASSUME NEW lines, Len(Kept(lines)) % 9 # 0
  PROVE  ParsePositions(lines) = {}
BY DEF ParsePositions

LEMMA TornRefused ==
  ASSUME NEW lines, NEW s, NEW m \in Nat, Kept(lines) = Append(Rows(s, m), TornLine)
  PROVE  ParsePositions(lines) = {} /\ Len(Kept(lines)) = m + 1
<1> DEFINE kept == Kept(lines)
           count == Len(kept) \div 9
           block(i) == SubSeq(kept, 9 * i - 8, 9 * i)
           R == { RowAt(s, r) : r \in 1 .. m } \cup {TornLine}
<1>1. kept \in Seq(R) /\ Len(kept) = m + 1 /\ kept[m + 1] = TornLine
  <2> DEFINE x == Rows(s, m)
             e == TornLine
  <2>1. x \in Seq(R) /\ Len(x) = m /\ e \in R
    <3>1. x \in Seq({ RowAt(s, r) : r \in 1 .. m }) /\ Len(x) = m
      BY RowsLength
    <3> QED
      BY <3>1, SeqMonotonic
  <2> HIDE DEF x, e, R
  <2>2. Append(x, e) \in Seq(R) /\ Len(Append(x, e)) = m + 1 /\ Append(x, e)[m + 1] = e
    BY <2>1, AppendProperties
  <2> QED
    BY <2>2 DEF x, e
<1> SUFFICES ASSUME Len(kept) % 9 = 0, \A i \in 1 .. count : \E p \in Positions : block(i) = BoardLines(p)
             PROVE  FALSE
  <2> HIDE DEF R
  <2> QED
    BY <1>1 DEF ParsePositions
<1> HIDE DEF R, kept
<1>2. PICK c \in Nat : m + 1 = 9 * c /\ count = c /\ c > 0
  <2> DEFINE d == (m + 1) \div 9
  <2>1. d \in Nat /\ m + 1 = (9 * d) + ((m + 1) % 9)
    OBVIOUS
  <2>2. (m + 1) % 9 = 0 /\ count = d
    BY <1>1
  <2> HIDE DEF d
  <2> QED
    BY <2>1, <2>2
<1>3. c \in 1 .. count
  BY <1>2
<1> HIDE DEF count
<1>4. PICK p \in Positions : SubSeq(kept, 9 * c - 8, 9 * c) = BoardLines(p)
  BY <1>3
<1>5. SubSeq(kept, 9 * c - 8, 9 * c)[9] = TornLine
  <2> DEFINE lo == 9 * c - 8
             hi == 9 * c
  <2>1. lo \in Int /\ hi \in Int /\ hi - lo + 1 = 9 /\ lo + 9 - 1 = m + 1 /\ lo > 0 /\ hi = m + 1
    BY <1>2
  <2> HIDE DEF lo, hi
  <2>2. \A i \in lo .. hi : kept[i] \in R
    <3>1. \A i \in lo .. hi : i \in 1 .. Len(kept)
      BY <1>1, <2>1
    <3> QED
      BY <1>1, <3>1, ElementOfSeq
  <2>3. \A i \in 1 .. hi - lo + 1 : SubSeq(kept, lo, hi)[i] = kept[lo + i - 1]
    BY <2>1, <2>2, SubSeqProperties
  <2>4. 9 \in 1 .. 9
    OBVIOUS
  <2>5. SubSeq(kept, lo, hi)[9] = kept[lo + 9 - 1]
    BY <2>1, <2>3, <2>4
  <2> QED
    BY <1>1, <2>1, <2>5 DEF lo, hi
<1>6. BoardLines(p)[9] = RowLine(p, 9)
  BY DEF BoardLines
<1>7. RowLine(p, 9) # TornLine
  BY DEF RowLine, TornLine
<1> QED
  BY <1>4, <1>5, <1>6, <1>7

LEMMA ReadsBack ==
  ASSUME NEW lines, NEW s \in Seq(Positions), NEW n, NEW k, FileOf(lines, s, n, k)
  PROVE  \/ ParsePositions(lines) = {} /\ (k = 1 \/ n # 10 * Len(s) - 1)
         \/ \E c \in 0 .. Len(s) : /\ ParsePositions(lines) = {FirstBoards(s, c)}
                                   /\ Len(Kept(lines)) = 9 * c
<1> DEFINE m == RowsBefore(n)
           l == Len(s)
<1>1. l \in Nat /\ Len(s) = l
  BY LenProperties
<1> HIDE DEF l
<1>2. k \in {0, 1} /\ m \in Nat /\ m <= 9 * l /\ (n = 10 * l - 1 => m = 9 * l)
  <2>1. k \in {0, 1}
    BY DEF FileOf
  <2> QED
    BY <1>1, <2>1, RowsInFile
<1>3. Kept(lines) = IF k = 0 THEN Rows(s, m) ELSE Append(Rows(s, m), TornLine)
  BY KeptOfFile
<1> HIDE DEF m
<1>4. CASE k = 1
  BY <1>2, <1>3, <1>4, TornRefused
<1>5. CASE k = 0
  <2> DEFINE c == m \div 9
             t == m % 9
  <2>1. c \in Nat /\ t \in 0 .. 8 /\ m = 9 * c + t /\ m % 9 = t
    BY <1>2
  <2> HIDE DEF c, t
  <2>2. Len(Kept(lines)) = m
    BY <1>2, <1>3, <1>5, RowsLength
  <2>3. CASE t # 0
    <3>1. m # 9 * l
      BY <1>1, <2>1, <2>3
    <3>2. Len(Kept(lines)) % 9 # 0
      BY <2>1, <2>2, <2>3
    <3> QED
      BY <1>2, <3>1, <3>2, RaggedRowsRefused DEF l
  <2>4. CASE t = 0
    <3>1. m = 9 * c /\ c <= l /\ c \in 0 .. l
      BY <1>1, <1>2, <2>1, <2>4
    <3>2. Kept(lines) = Rows(s, 9 * c)
      BY <1>3, <1>5, <3>1
    <3>3. ParsePositions(lines) = {FirstBoards(s, c)}
      BY <2>1, <3>1, <3>2, RowsParse DEF l
    <3> QED
      BY <2>2, <3>1, <3>3 DEF l
  <2> QED
    BY <2>3, <2>4
<1> QED
  BY <1>2, <1>4, <1>5

(***************************************************************************)
(* The labels of the dump (write_exact_label_jsonl).                       *)
(***************************************************************************)
AnyLabel == UNION { Labels(x[1], x[2], x[3]) : x \in Nat \X Positions \X BOOLEAN }

SmallUpTo(s, max, n) == { i \in 1 .. n : Empties[s[i]] <= max }

\* Labels of the boards before the next one, of each that is small enough, in
\* their order: a label says its board's number, and those before it were
\* labelled if they are small.
MadeOk(made, s, next, max) ==
  /\ made \in Seq(AnyLabel)
  /\ \A k \in 1 .. Len(made) : /\ made[k].position_id \in 1 .. next - 1
                               /\ made[k].board = s[made[k].position_id]
  /\ \A k \in 1 .. Len(made) : \A i \in 1 .. made[k].position_id - 1 :
       (\E j \in 1 .. k - 1 : made[j].position_id = i) <=> Empties[s[i]] <= max
  /\ \A i \in 1 .. next - 1 :
       (\E j \in 1 .. Len(made) : made[j].position_id = i) <=> Empties[s[i]] <= max
  /\ Len(made) = Cardinality(SmallUpTo(s, max, next - 1))

LEMMA LabelOfAny ==
  ASSUME NEW id \in Nat, NEW p \in Positions, NEW include \in BOOLEAN, NEW l \in Labels(id, p, include)
  PROVE  l \in AnyLabel
<1> DEFINE x == <<id, p, include>>
<1>1. x \in Nat \X Positions \X BOOLEAN /\ x[1] = id /\ x[2] = p /\ x[3] = include
  OBVIOUS
<1> HIDE DEF x
<1>2. l \in Labels(x[1], x[2], x[3])
  BY <1>1
<1> QED
  BY <1>1, <1>2, Zenon DEF AnyLabel

LEMMA NoneMade ==
  ASSUME NEW s, NEW max
  PROVE  MadeOk(<< >>, s, 1, max)
<1>1. SmallUpTo(s, max, 1 - 1) = {}
  BY DEF SmallUpTo
<1>2. Cardinality({}) = 0
  BY FS_EmptySet
<1>3. << >> \in Seq(AnyLabel) /\ Len(<< >>) = 0 /\ 1 - 1 = 0
  OBVIOUS
<1>4. 1 .. 0 = {}
  OBVIOUS
<1> QED
  BY <1>1, <1>2, <1>3, <1>4 DEF MadeOk

LEMMA SmallSkipped ==
  ASSUME NEW s, NEW max, NEW n \in Nat, ~(Empties[s[n + 1]] <= max)
  PROVE  SmallUpTo(s, max, n + 1) = SmallUpTo(s, max, n)
<1>1. \A i : i \in 1 .. n + 1 <=> i \in 1 .. n \/ i = n + 1
  OBVIOUS
<1> QED
  BY <1>1, Zenon DEF SmallUpTo

LEMMA SmallCounted ==
  ASSUME NEW s, NEW max, NEW n \in Nat, Empties[s[n + 1]] <= max
  PROVE  Cardinality(SmallUpTo(s, max, n + 1)) = Cardinality(SmallUpTo(s, max, n)) + 1
<1>1. \A i : i \in 1 .. n + 1 <=> i \in 1 .. n \/ i = n + 1
  OBVIOUS
<1>2. SmallUpTo(s, max, n + 1) = SmallUpTo(s, max, n) \cup {n + 1}
  BY <1>1, Zenon DEF SmallUpTo
<1>3. n + 1 \notin SmallUpTo(s, max, n)
  BY DEF SmallUpTo
<1>4. IsFiniteSet(SmallUpTo(s, max, n))
  <2>1. IsFiniteSet(1 .. n)
    BY FS_Interval
  <2> QED
    BY <2>1, FS_Subset DEF SmallUpTo
<1> QED
  BY <1>2, <1>3, <1>4, FS_AddElement

LEMMA MadeSkips ==
  ASSUME NEW made, NEW s, NEW n \in Nat, NEW max, MadeOk(made, s, n + 1, max),
         ~(Empties[s[n + 1]] <= max)
  PROVE  MadeOk(made, s, n + 2, max)
<1>0. n + 1 - 1 = n /\ n + 2 - 1 = n + 1
  OBVIOUS
<1>1. /\ made \in Seq(AnyLabel)
      /\ \A k \in 1 .. Len(made) : /\ made[k].position_id \in 1 .. n
                                   /\ made[k].board = s[made[k].position_id]
  BY <1>0 DEF MadeOk
<1>2. \A i \in 1 .. n : (\E j \in 1 .. Len(made) : made[j].position_id = i) <=> Empties[s[i]] <= max
  BY <1>0 DEF MadeOk
<1>3. \A k \in 1 .. Len(made) : made[k].position_id \in 1 .. n + 1 /\ made[k].position_id # n + 1
  BY <1>1
<1>4. \A i \in 1 .. n + 1 : (\E j \in 1 .. Len(made) : made[j].position_id = i) <=> Empties[s[i]] <= max
  <2>1. \A i \in 1 .. n + 1 : i \in 1 .. n \/ i = n + 1
    OBVIOUS
  <2>2. ~\E j \in 1 .. Len(made) : made[j].position_id = n + 1
    BY <1>3
  <2> QED
    BY <1>2, <2>1, <2>2
<1>5. Len(made) = Cardinality(SmallUpTo(s, max, n + 1))
  BY <1>0, SmallSkipped DEF MadeOk
<1>6. \A k \in 1 .. Len(made) : \A i \in 1 .. made[k].position_id - 1 :
        (\E j \in 1 .. k - 1 : made[j].position_id = i) <=> Empties[s[i]] <= max
  BY DEF MadeOk
<1> QED
  BY <1>0, <1>1, <1>3, <1>4, <1>5, <1>6 DEF MadeOk

LEMMA MadeGrows ==
  ASSUME NEW made, NEW s, NEW n \in Nat, NEW max, MadeOk(made, s, n + 1, max),
         Empties[s[n + 1]] <= max, NEW l \in AnyLabel, l.position_id = n + 1, l.board = s[n + 1]
  PROVE  MadeOk(Append(made, l), s, n + 2, max)
<1> DEFINE t == Append(made, l)
           c == Len(made)
           Small(i) == Empties[s[i]] <= max
<1>0. n + 1 - 1 = n /\ n + 2 - 1 = n + 1
  OBVIOUS
<1>1. made \in Seq(AnyLabel) /\ c \in Nat
  BY LenProperties DEF MadeOk
<1>2. t \in Seq(AnyLabel) /\ Len(t) = c + 1 /\ t[c + 1] = l /\ \A k \in 1 .. c : t[k] = made[k]
  BY <1>1, AppendProperties
<1>3. \A k \in 1 .. c : made[k].position_id \in 1 .. n /\ made[k].board = s[made[k].position_id]
  BY <1>0 DEF MadeOk
<1>4. \A i \in 1 .. n : (\E j \in 1 .. c : made[j].position_id = i) <=> Small(i)
  BY <1>0 DEF MadeOk
<1>5. \A k \in 1 .. c : \A i \in 1 .. made[k].position_id - 1 :
        (\E j \in 1 .. k - 1 : made[j].position_id = i) <=> Small(i)
  BY DEF MadeOk
<1>6. Len(t) = Cardinality(SmallUpTo(s, max, n + 1))
  <2>1. c = Cardinality(SmallUpTo(s, max, n))
    BY <1>0 DEF MadeOk
  <2> HIDE DEF t
  <2> QED
    BY <1>2, <2>1, SmallCounted
<1>7. Small(n + 1)
  OBVIOUS
<1> HIDE DEF t, c, Small
<1>8. \A k \in 1 .. c + 1 : k \in 1 .. c \/ k = c + 1
  BY <1>1
<1>9. 1 .. n \subseteq 1 .. n + 1 /\ n + 1 \in 1 .. n + 1 /\ c + 1 \in 1 .. c + 1
      /\ 1 .. c \subseteq 1 .. c + 1 /\ \A i \in 1 .. n + 1 : i \in 1 .. n \/ i = n + 1
  BY <1>1
<1>10. \A k \in 1 .. c + 1 : t[k].position_id \in 1 .. n + 1 /\ t[k].board = s[t[k].position_id]
  BY <1>2, <1>3, <1>8, <1>9
<1>11. \A i \in 1 .. n + 1 : (\E j \in 1 .. c + 1 : t[j].position_id = i) <=> Small(i)
  <2> SUFFICES ASSUME NEW i \in 1 .. n + 1
               PROVE  (\E j \in 1 .. c + 1 : t[j].position_id = i) <=> Small(i)
    OBVIOUS
  <2>1. CASE i = n + 1
    BY <1>2, <1>7, <1>9, <2>1
  <2>2. CASE i \in 1 .. n
    <3>1. i # n + 1
      BY <2>2
    <3>2. (\E j \in 1 .. c + 1 : t[j].position_id = i) <=> \E j \in 1 .. c : made[j].position_id = i
      BY <1>2, <1>8, <1>9, <3>1
    <3> QED
      BY <1>4, <2>2, <3>2
  <2> QED
    BY <1>9, <2>1, <2>2
<1>12. ASSUME NEW k \in 1 .. c + 1, NEW i \in 1 .. t[k].position_id - 1
       PROVE  (\E j \in 1 .. k - 1 : t[j].position_id = i) <=> Small(i)
  <2>1. CASE k \in 1 .. c
    <3>1. \A j \in 1 .. k - 1 : j \in 1 .. c
      BY <1>1, <2>1
    <3> QED
      BY <1>2, <1>5, <2>1, <3>1
  <2>2. CASE k = c + 1
    <3>1. k - 1 = c /\ t[k].position_id - 1 = n
      BY <1>0, <1>1, <1>2, <2>2
    <3> QED
      BY <1>2, <1>4, <3>1
  <2> QED
    BY <1>8, <2>1, <2>2
<1>13. MadeOk(t, s, n + 2, max)
  BY <1>0, <1>2, <1>6, <1>10, <1>11, <1>12 DEF MadeOk, Small
<1> QED
  BY <1>13 DEF t

(***************************************************************************)
(* The files and the dump.                                                 *)
(***************************************************************************)
Dumps ==
  [pc : {"idle", "refused", "label", "exited"}, positions : Seq(Positions), next : Nat,
   labeled : Nat, skipped : Nat]

DumpReads(j, b, d, made) ==
  /\ \E c \in 0 .. Len(b.sampled) :
       d.positions = FirstBoards(b.sampled, c) /\ Len(Kept(b.lines)) = 9 * c
  /\ d.next \in 1 .. Len(d.positions) + 1
  /\ MadeOk(made, d.positions, d.next, j.dump.max_empties)
  /\ Len(made) = d.labeled /\ \A limit \in j.dump.limit : d.labeled <= limit

DumpEnded(j, d) == d.next > Len(d.positions) \/ \E limit \in j.dump.limit : d.labeled >= limit

DumpOk(j, b, d, made) ==
  /\ d \in Dumps
  /\ d.pc \in {"idle", "refused"} => made = << >>
  /\ d.pc = "idle" => d = IdleDump
  /\ d.pc = "refused" => b.lost
  /\ d.pc \in {"label", "exited"} => DumpReads(j, b, d, made)
  /\ d.pc = "exited" => DumpEnded(j, d)

BoardFile(b) ==
  /\ b = [lines |-> b.lines, sampled |-> b.sampled, lost |-> b.lost]
  /\ b.sampled \in Seq(Positions) /\ b.lost \in BOOLEAN

\* The file of the samples, whole unless its end was lost.
Whole(b) == FileOf(b.lines, b.sampled, 10 * Len(b.sampled) - 1, 0)
PositionsWritten(b) ==
  /\ Len(b.sampled) > 0
  /\ \E n \in Nat : \E k \in {0, 1} : FileOf(b.lines, b.sampled, n, k)
  /\ ~b.lost => Whole(b)

BoardsOk(pc, b, d) ==
  /\ BoardFile(b)
  /\ pc = "exited" => PositionsWritten(b)
  /\ pc # "exited" => b = NoBoards /\ d = IdleDump

LabelFile(l) ==
  l = [lines |-> l.lines, made |-> l.made, closed |-> l.closed, lost |-> l.lost, edit |-> l.edit]

FilesInv ==
  /\ BoardsOk(sampler.pc, boards, dump)
  /\ DumpOk(job, boards, dump, labels.made)
  /\ LabelFile(labels)

LEMMA WrittenWhole ==
  ASSUME NEW s \in Seq(Positions), Len(s) > 0
  PROVE  FileOf(PositionLines(s), s, 10 * Len(s) - 1, 0)
<1> DEFINE l == Len(s)
           n == 10 * l - 1
<1>1. l \in Nat /\ l > 0
  BY LenProperties
<1>2. PositionLines(s) = [j \in 1 .. n |-> LineAt(s, j)]
  BY DEF PositionLines, LineAt
<1>3. n \in Nat
  BY <1>1
<1> HIDE DEF n
<1>4. Len(PositionLines(s)) = n /\ \A j \in 1 .. n : PositionLines(s)[j] = LineAt(s, j)
  BY <1>2, <1>3
<1>5. n <= 10 * Len(s) - 1 /\ 0 \in {0, 1} /\ Len(PositionLines(s)) = n + 0
  BY <1>1, <1>3, <1>4 DEF n
<1>6. FileOf(PositionLines(s), s, n, 0)
  BY <1>3, <1>4, <1>5 DEF FileOf
<1> QED
  BY <1>6 DEF n

LEMMA TailLost ==
  ASSUME NEW lines, NEW s, NEW n, FileOf(lines, s, n, 0), NEW kept \in 0 .. Len(lines) - 1,
         NEW torn \in {<< >>, <<TornLine>>}, Len(s) \in Nat
  PROVE  \E k \in {0, 1} : FileOf(SubSeq(lines, 1, kept) \o torn, s, kept, k)
<1> DEFINE R == { lines[j] : j \in 1 .. kept } \cup {TornLine}
           x == SubSeq(lines, 1, kept)
           y == x \o torn
           k == IF torn = << >> THEN 0 ELSE 1
<1>1. n \in Nat /\ n <= 10 * Len(s) - 1 /\ Len(lines) = n /\ \A j \in 1 .. n : lines[j] = LineAt(s, j)
  BY DEF FileOf
<1>2. kept \in Nat /\ kept <= n - 1
  BY <1>1
<1>3. \A j \in 1 .. kept : lines[j] \in R
  OBVIOUS
<1>4. TornLine \in R
  OBVIOUS
<1> HIDE DEF R
<1>5. x \in Seq(R) /\ Len(x) = kept /\ \A j \in 1 .. kept : x[j] = lines[j]
  <2>1. /\ x \in Seq(R) /\ Len(x) = IF 1 <= kept THEN kept - 1 + 1 ELSE 0
        /\ \A j \in 1 .. kept - 1 + 1 : x[j] = lines[1 + j - 1]
    BY <1>2, <1>3, SubSeqProperties
  <2>2. kept - 1 + 1 = kept /\ \A j \in 1 .. kept : 1 + j - 1 = j
    BY <1>2
  <2> QED
    BY <1>2, <2>1, <2>2
<1> HIDE DEF x
<1>6. torn \in Seq(R) /\ Len(torn) = k /\ k \in {0, 1} /\ (k = 1 => torn[1] = TornLine)
  <2>1. CASE torn = << >>
    BY <2>1
  <2>2. CASE torn = <<TornLine>>
    <3>1. k = 1
      BY <2>2
    <3> HIDE DEF k
    <3> QED
      BY <1>4, <2>2, <3>1
  <2> QED
    BY <2>1, <2>2
<1> HIDE DEF k
<1>7. /\ Len(y) = kept + k
      /\ \A i \in 1 .. kept + k : y[i] = IF i <= kept THEN x[i] ELSE torn[i - kept]
  BY <1>5, <1>6, ConcatProperties
<1> HIDE DEF y
<1>8. \A j \in 1 .. kept : y[j] = LineAt(s, j)
  <2> SUFFICES ASSUME NEW j \in 1 .. kept
               PROVE  y[j] = LineAt(s, j)
    OBVIOUS
  <2>0. k \in Nat
    BY <1>6
  <2>1. j \in 1 .. kept + k /\ j <= kept /\ j \in 1 .. n
    BY <1>1, <1>2, <2>0
  <2> QED
    BY <1>1, <1>5, <1>7, <2>1
<1>9. k = 1 => y[kept + 1] = TornLine
  <2> SUFFICES ASSUME k = 1
               PROVE  y[kept + 1] = TornLine
    OBVIOUS
  <2>1. kept + 1 \in 1 .. kept + k /\ ~(kept + 1 <= kept) /\ kept + 1 - kept = 1
    BY <1>2
  <2> QED
    BY <1>6, <1>7, <2>1
<1>10. kept <= 10 * Len(s) - 1
  BY <1>1, <1>2
<1>11. FileOf(y, s, kept, k)
  BY <1>2, <1>6, <1>7, <1>8, <1>9, <1>10 DEF FileOf
<1> QED
  BY <1>6, <1>11 DEF y, x

LEMMA FirstBoardsAre ==
  ASSUME NEW s \in Seq(Positions), NEW c \in 0 .. Len(s)
  PROVE  /\ FirstBoards(s, c) \in Seq(Positions) /\ Len(FirstBoards(s, c)) = c
         /\ \A i \in 1 .. c : FirstBoards(s, c)[i] = s[i] /\ s[i] \in Positions /\ i \in 1 .. Len(s)
<1>1. Len(s) \in Nat /\ c \in Nat /\ \A i \in 1 .. c : i \in 1 .. Len(s)
  BY LenProperties
<1>2. \A i \in 1 .. c : s[i] \in Positions
  BY <1>1, ElementOfSeq
<1>3. FirstBoards(s, c) = [i \in 1 .. c |-> s[i]]
  BY DEF FirstBoards
<1> QED
  BY <1>1, <1>2, <1>3

\* The sampler does not write the file before it is done.
LEMMA SamplerStays ==
  ASSUME SamplerInv, SamplerStep
  PROVE  sampler.pc # "exited" /\ sampler'.pc # "exited" /\ UNCHANGED job
<1> DEFINE s == sampler
           t == sampler'
<1>1. s \in Samplers
  BY DEF SamplerInv, SamplerOk
<1>2. s.pc \in {"next", "attempt"}
  BY DEF SamplerStep, BeginAttempt, Sample, AtTarget, TerminalBeforeTarget, MaxPliesReached, RandomPly,
         ShortOfTarget, EndSampling
<1>3. \A a \in {"next", "attempt", "done", "failed"} : a # "exited"
  OBVIOUS
<1>4. t.pc \in {"next", "attempt", "done", "failed"}
  <2>1. CASE BeginAttempt
    BY <1>1, <2>1 DEF BeginAttempt, Samplers
  <2>2. CASE Sample
    BY <1>1, <2>2 DEF Sample, Sampled, Samplers
  <2>3. CASE TerminalBeforeTarget
    BY <1>1, <2>3 DEF TerminalBeforeTarget, Samplers
  <2>4. CASE MaxPliesReached
    BY <1>1, <2>4 DEF MaxPliesReached, Samplers
  <2>5. CASE RandomPly
    <3>1. PICK next : t = [s EXCEPT !.board = next, !.ply = @ + 1]
      BY <2>5 DEF RandomPly
    <3> QED
      BY <1>1, <1>2, <3>1 DEF Samplers
  <2>6. CASE EndSampling
    BY <1>1, <2>6 DEF EndSampling, Samplers
  <2> QED
    BY <2>1, <2>2, <2>3, <2>4, <2>5, <2>6 DEF SamplerStep
<1> QED
  BY <1>2, <1>3, <1>4 DEF SamplerStep

LEMMA IdleDumpOk ==
  ASSUME NEW j, NEW b
  PROVE  DumpOk(j, b, IdleDump, << >>)
<1>1. IdleDump \in Dumps
  <2>1. << >> \in Seq(Positions) /\ 1 \in Nat /\ 0 \in Nat
    OBVIOUS
  <2> QED
    BY <2>1 DEF IdleDump, Dumps
<1>2. IdleDump.pc = "idle"
  BY DEF IdleDump
<1> QED
  BY <1>1, <1>2 DEF DumpOk

LEMMA FilesInit == Init => FilesInv
<1> SUFFICES ASSUME Init
             PROVE  FilesInv
  OBVIOUS
<1>1. boards = NoBoards /\ dump = IdleDump /\ labels = NoLabels /\ sampler.pc = "next"
  BY DEF Init, NewSampler
<1>2. BoardFile(NoBoards) /\ LabelFile(NoLabels) /\ NoLabels.made = << >>
  BY DEF BoardFile, LabelFile, NoBoards, NoLabels
<1>3. BoardsOk(sampler.pc, boards, dump)
  BY <1>1, <1>2 DEF BoardsOk
<1>4. DumpOk(job, boards, dump, labels.made)
  BY <1>1, <1>2, IdleDumpOk
<1> QED
  BY <1>1, <1>2, <1>3, <1>4 DEF FilesInv

LEMMA FilesWritten ==
  ASSUME SamplerInv, FilesInv, WritePositions
  PROVE  FilesInv'
<1> DEFINE s == sampler.samples
           b == boards'
<1>1. sampler.pc = "done" /\ sampler' = [NewSampler EXCEPT !.pc = "exited"] /\ UNCHANGED <<job, dump, labels>>
      /\ b = [boards EXCEPT !.lines = PositionLines(s), !.sampled = s]
  BY DEF WritePositions
<1>2. boards = NoBoards /\ dump = IdleDump
  BY <1>1 DEF FilesInv, BoardsOk
<1>3. s \in Seq(Positions) /\ Len(s) > 0
  <2>1. sampler \in Samplers /\ Len(s) = options.count
    BY <1>1 DEF SamplerInv, SamplerOk
  <2>2. options.count \in Nat \ {0}
    BY OptionsType DEF SamplerInv, SamplerOptions
  <2> QED
    BY <2>1, <2>2, SamplerParts
<1> HIDE DEF s, b
<1>4. b = [lines |-> PositionLines(s), sampled |-> s, lost |-> FALSE]
  BY <1>1, <1>2 DEF NoBoards
<1>5. b.lines = PositionLines(s) /\ b.sampled = s /\ b.lost = FALSE /\ BoardFile(b)
  BY <1>3, <1>4 DEF BoardFile
<1>6. Whole(b)
  BY <1>3, <1>5, WrittenWhole DEF Whole
<1>7. PositionsWritten(b)
  <2>1. 10 * Len(s) - 1 \in Nat
    BY <1>3, LenProperties
  <2> QED
    BY <1>3, <1>5, <1>6, <2>1 DEF PositionsWritten, Whole
<1>8. sampler'.pc = "exited"
  BY <1>1 DEF NewSampler
<1>9. BoardsOk(sampler'.pc, b, dump')
  BY <1>5, <1>7, <1>8 DEF BoardsOk
<1>10. DumpOk(job', b, dump', labels'.made)
  <2>1. labels.made = << >> /\ labels' = labels /\ dump' = IdleDump
    BY <1>1, <1>2 DEF FilesInv, DumpOk, IdleDump
  <2> QED
    BY <2>1, IdleDumpOk
<1>11. LabelFile(labels')
  BY <1>1 DEF FilesInv
<1> QED
  BY <1>9, <1>10, <1>11 DEF FilesInv, b

LEMMA FilesCut ==
  ASSUME FilesInv, LosePositionsTail
  PROVE  FilesInv'
<1> DEFINE b == boards
           c == boards'
<1>1. /\ sampler.pc = "exited" /\ dump = IdleDump /\ ~b.lost
      /\ UNCHANGED <<job, sampler, dump, labels>>
  BY DEF LosePositionsTail
<1>2. PICK kept \in 0 .. Len(b.lines) - 1, torn \in {<< >>, <<TornLine>>} :
        c = [b EXCEPT !.lines = SubSeq(@, 1, kept) \o torn, !.lost = TRUE]
  BY DEF LosePositionsTail
<1>3. BoardFile(b) /\ PositionsWritten(b) /\ Whole(b)
  BY <1>1 DEF FilesInv, BoardsOk, PositionsWritten
<1> DEFINE lines == SubSeq(b.lines, 1, kept) \o torn
<1>4. /\ c.lines = lines /\ c.sampled = b.sampled /\ c.lost = TRUE
      /\ c = [lines |-> c.lines, sampled |-> c.sampled, lost |-> c.lost]
  <2> HIDE DEF b, c
  <2> QED
    BY <1>2, <1>3 DEF BoardFile
<1> HIDE DEF b, c, lines
<1>5. \E k \in {0, 1} : FileOf(lines, b.sampled, kept, k)
  <2>1. Len(b.sampled) \in Nat
    BY <1>3, LenProperties DEF BoardFile
  <2> QED
    BY <1>3, <2>1, TailLost DEF Whole, lines
<1>6. kept \in Nat
  <2>1. Len(b.lines) \in Int
    <3>1. Len(b.lines) = (10 * Len(b.sampled) - 1) + 0 /\ Len(b.sampled) \in Nat
      BY <1>3, LenProperties DEF Whole, FileOf, BoardFile
    <3> QED
      BY <3>1
  <2> QED
    BY <2>1
<1>7. BoardFile(c) /\ PositionsWritten(c)
  BY <1>3, <1>4, <1>5, <1>6 DEF BoardFile, PositionsWritten
<1>8. BoardsOk(sampler'.pc, c, dump')
  BY <1>1, <1>7 DEF BoardsOk
<1>9. DumpOk(job', c, dump', labels'.made)
  <2>1. labels.made = << >>
    BY <1>1 DEF FilesInv, DumpOk, IdleDump
  <2> QED
    BY <1>1, <2>1, IdleDumpOk
<1> QED
  BY <1>1, <1>8, <1>9 DEF FilesInv, c

LEMMA FilesRead ==
  ASSUME SamplerInv, FilesInv, StartDump
  PROVE  FilesInv'
<1> DEFINE b == boards
           d == dump'
           s == boards.sampled
<1>1. sampler.pc = "exited" /\ dump = IdleDump /\ labels.made = << >>
      /\ UNCHANGED <<job, sampler, boards, labels>>
  BY DEF StartDump, FilesInv, DumpOk
<1>2. PICK read : read = ParsePositions(b.lines)
        /\ d = IF read = {} THEN [dump EXCEPT !.pc = "refused"]
               ELSE [dump EXCEPT !.pc = "label", !.positions = CHOOSE p \in read : TRUE]
  BY DEF StartDump
<1>3. BoardFile(b) /\ PositionsWritten(b)
  BY <1>1 DEF FilesInv, BoardsOk
<1>4. s \in Seq(Positions) /\ job.dump.limit \subseteq Nat
  BY <1>3, JobTools DEF BoardFile, SamplerInv
<1> HIDE DEF d, s
<1>5. PICK n \in Nat, k \in {0, 1} : FileOf(b.lines, s, n, k) /\ (~b.lost => n = 10 * Len(s) - 1 /\ k = 0)
  <2>1. CASE b.lost
    BY <1>3, <2>1 DEF PositionsWritten, s
  <2>2. CASE ~b.lost
    <3>1. Whole(b)
      BY <1>3, <2>2 DEF PositionsWritten
    <3>2. FileOf(b.lines, s, 10 * Len(s) - 1, 0) /\ 10 * Len(s) - 1 \in Nat
      BY <3>1 DEF Whole, FileOf, s
    <3> QED
      BY <3>2
  <2> QED
    BY <2>1, <2>2
<1>6. CASE read = {}
  <2>1. d = [IdleDump EXCEPT !.pc = "refused"]
    BY <1>1, <1>2, <1>6
  <2>2. d \in Dumps /\ d.pc = "refused"
    <3>1. << >> \in Seq(Positions) /\ 1 \in Nat /\ 0 \in Nat
      OBVIOUS
    <3> QED
      BY <2>1, <3>1 DEF IdleDump, Dumps
  <2>3. b.lost
    <3> SUFFICES ASSUME ~b.lost
                 PROVE  FALSE
      OBVIOUS
    <3>1. n = 10 * Len(s) - 1 /\ k = 0
      BY <1>5
    <3>2. \/ ParsePositions(b.lines) = {} /\ (k = 1 \/ n # 10 * Len(s) - 1)
          \/ \E c \in 0 .. Len(s) : ParsePositions(b.lines) = {FirstBoards(s, c)}
      BY <1>4, <1>5, ReadsBack
    <3> QED
      BY <1>2, <1>6, <3>1, <3>2
  <2>4. DumpOk(job, b, d, << >>)
    BY <2>2, <2>3 DEF DumpOk
  <2>5. BoardsOk("exited", b, d)
    BY <1>3 DEF BoardsOk
  <2> QED
    BY <1>1, <2>4, <2>5 DEF FilesInv, d
<1>7. CASE read # {}
  <2>1. PICK c \in 0 .. Len(s) : read = {FirstBoards(s, c)} /\ Len(Kept(b.lines)) = 9 * c
    BY <1>2, <1>4, <1>5, <1>7, ReadsBack
  <2> DEFINE x == FirstBoards(s, c)
  <2>2. (CHOOSE p \in read : TRUE) = x
    BY <2>1
  <2>3. x \in Seq(Positions) /\ Len(x) = c /\ c \in Nat
    BY <1>4, FirstBoardsAre, LenProperties
  <2> HIDE DEF x
  <2>4. d = [IdleDump EXCEPT !.pc = "label", !.positions = x]
    BY <1>1, <1>2, <1>7, <2>2
  <2>5. d = [pc |-> "label", positions |-> x, next |-> 1, labeled |-> 0, skipped |-> 0]
    BY <2>4 DEF IdleDump
  <2>6. d \in Dumps /\ d.pc = "label" /\ d.positions = x /\ d.next = 1 /\ d.labeled = 0
    <3>1. 1 \in Nat /\ 0 \in Nat
      OBVIOUS
    <3> QED
      BY <2>3, <2>5, <3>1 DEF Dumps
  <2>7. DumpReads(job, b, d, << >>)
    <3>1. \E e \in 0 .. Len(b.sampled) :
            d.positions = FirstBoards(b.sampled, e) /\ Len(Kept(b.lines)) = 9 * e
      BY <2>1, <2>6 DEF x, s
    <3>2. d.next \in 1 .. Len(d.positions) + 1
      BY <2>3, <2>6
    <3>3. MadeOk(<< >>, d.positions, d.next, job.dump.max_empties)
      BY <2>6, NoneMade
    <3>4. Len(<< >>) = d.labeled /\ \A limit \in job.dump.limit : d.labeled <= limit
      BY <1>4, <2>6
    <3> QED
      BY <3>1, <3>2, <3>3, <3>4 DEF DumpReads
  <2>8. DumpOk(job, b, d, << >>)
    BY <2>6, <2>7 DEF DumpOk
  <2>9. BoardsOk("exited", b, d)
    BY <1>3 DEF BoardsOk
  <2> QED
    BY <1>1, <2>8, <2>9 DEF FilesInv, d
<1> QED
  BY <1>6, <1>7

\* Where the dump has a next board, it is one of the file's, and below the limit.
LEMMA NextBoard ==
  ASSUME SamplerInv, FilesInv, HasPosition
  PROVE  /\ dump \in Dumps /\ dump.pc = "label" /\ DumpReads(job, boards, dump, labels.made)
         /\ dump.next \in Nat /\ dump.next > 0 /\ dump.next \in 1 .. Len(dump.positions)
         /\ dump.labeled \in Nat /\ Len(dump.positions) \in Nat /\ InputPosition \in Positions
         /\ \A limit \in job.dump.limit : limit \in Nat /\ dump.labeled < limit
         /\ Empties[InputPosition] \in Nat /\ job.dump.max_empties \in Nat
<1>1. dump \in Dumps /\ dump.pc = "label" /\ DumpReads(job, boards, dump, labels.made)
  BY DEF HasPosition, FilesInv, DumpOk
<1>2. dump.next <= Len(dump.positions) /\ dump.next \in 1 .. Len(dump.positions) + 1
  BY <1>1 DEF HasPosition, DumpReads
<1>3. dump.positions \in Seq(Positions) /\ dump.labeled \in Nat /\ Len(dump.positions) \in Nat
  BY <1>1, LenProperties DEF Dumps
<1>4. dump.next \in 1 .. Len(dump.positions)
  BY <1>2, <1>3
<1>5. InputPosition \in Positions
  BY <1>3, <1>4, ElementOfSeq DEF InputPosition
<1>6. job.dump.limit \subseteq Nat /\ job.dump.max_empties \in Nat
  <2>1. job.dump.limit \subseteq Nat /\ job.dump.max_empties \in 0 .. 64
    BY JobTools DEF SamplerInv
  <2> QED
    BY <2>1
<1>9. dump.next \in Nat /\ dump.next > 0
  BY <1>3, <1>4
<1>7. \A limit \in job.dump.limit : limit \in Nat /\ dump.labeled < limit
  <2>1. \A limit \in job.dump.limit : ~(dump.labeled >= limit)
    BY DEF HasPosition, AtLimit
  <2> QED
    BY <1>3, <1>6, <2>1
<1>8. Empties[InputPosition] \in Nat
  BY <1>5, GameTypes
<1> QED
  BY <1>1, <1>3, <1>4, <1>5, <1>6, <1>7, <1>8, <1>9

LEMMA FilesSkip ==
  ASSUME SamplerInv, FilesInv, SkipTooManyEmpties
  PROVE  FilesInv'
<1> DEFINE d == dump
           e == dump'
           x == dump.positions
           max == job.dump.max_empties
           n == dump.next - 1
<1>1. HasPosition /\ Empties[InputPosition] > max /\ UNCHANGED <<job, sampler, boards, labels>>
      /\ e = [d EXCEPT !.next = @ + 1, !.skipped = @ + 1]
  BY DEF SkipTooManyEmpties
<1>2. /\ d \in Dumps /\ d.pc = "label" /\ DumpReads(job, boards, d, labels.made)
      /\ d.next \in Nat /\ d.next > 0 /\ d.next \in 1 .. Len(x) /\ Len(x) \in Nat
      /\ Empties[InputPosition] \in Nat /\ max \in Nat
  BY <1>1, NextBoard
<1>3. n \in Nat /\ d.next = n + 1 /\ d.next + 1 = n + 2 /\ d.next + 1 \in 1 .. Len(x) + 1
  BY <1>2
<1>4. InputPosition = x[n + 1] /\ ~(Empties[x[n + 1]] <= max)
  <2>1. InputPosition = x[n + 1]
    BY <1>3 DEF InputPosition
  <2> DEFINE a == Empties[InputPosition]
  <2>2. a \in Nat /\ max \in Nat /\ a > max
    BY <1>1, <1>2
  <2> HIDE DEF a, max
  <2>3. ~(a <= max)
    BY <2>2
  <2> QED
    BY <2>1, <2>3 DEF a
<1>5. /\ e \in Dumps /\ e.pc = "label" /\ e.positions = x /\ e.next = d.next + 1
      /\ e.labeled = d.labeled
  <2> HIDE DEF d, e, x, n
  <2>1. d.next + 1 \in Nat /\ d.skipped + 1 \in Nat
    BY <1>2 DEF Dumps
  <2>2. e \in Dumps
    BY <1>1, <1>2, <2>1 DEF Dumps
  <2> QED
    BY <1>1, <1>2, <2>2 DEF Dumps, x, d
<1>6. MadeOk(labels.made, x, n + 2, max)
  <2>1. MadeOk(labels.made, x, n + 1, max)
    BY <1>2, <1>3 DEF DumpReads
  <2> HIDE DEF x, n, max
  <2> QED
    BY <1>3, <1>4, <2>1, MadeSkips
<1> HIDE DEF e
<1>7. DumpReads(job, boards, e, labels.made)
  BY <1>2, <1>3, <1>5, <1>6 DEF DumpReads
<1>8. DumpOk(job, boards, e, labels.made)
  BY <1>5, <1>7 DEF DumpOk
<1>9. BoardsOk(sampler.pc, boards, e)
  <2>1. d # IdleDump
    BY <1>2 DEF IdleDump
  <2> QED
    BY <2>1 DEF FilesInv, BoardsOk
<1> QED
  BY <1>1, <1>8, <1>9 DEF FilesInv, e

LEMMA FilesLabel ==
  ASSUME SamplerInv, FilesInv, LabelPosition
  PROVE  FilesInv'
<1> DEFINE d == dump
           e == dump'
           x == dump.positions
           max == job.dump.max_empties
           n == dump.next - 1
           made == labels.made
<1>1. HasPosition /\ Empties[InputPosition] <= max /\ UNCHANGED <<job, sampler, boards>>
      /\ e = [d EXCEPT !.next = @ + 1, !.labeled = @ + 1]
  BY DEF LabelPosition
<1>2. PICK label \in Labels(dump.next, InputPosition, job.dump.include) :
        labels' = [labels EXCEPT !.made = Append(@, label), !.lines = Append(@, LabelLine(label))]
  BY DEF LabelPosition
<1>3. /\ d \in Dumps /\ d.pc = "label" /\ DumpReads(job, boards, d, made)
      /\ d.next \in Nat /\ d.next > 0 /\ d.next \in 1 .. Len(x) /\ Len(x) \in Nat
  BY <1>1, NextBoard
<1>14. /\ d.labeled \in Nat /\ InputPosition \in Positions
       /\ \A limit \in job.dump.limit : limit \in Nat /\ d.labeled < limit
  BY <1>1, NextBoard
<1>4. n \in Nat /\ d.next = n + 1 /\ d.next + 1 = n + 2 /\ d.next + 1 \in 1 .. Len(x) + 1
  BY <1>3
<1>5. InputPosition = x[n + 1] /\ Empties[x[n + 1]] <= max
  BY <1>1, <1>4 DEF InputPosition
<1>6. label \in AnyLabel /\ label.position_id = n + 1 /\ label.board = x[n + 1]
  <2>1. job.dump.include \in BOOLEAN
    BY JobTools DEF SamplerInv
  <2>2. label \in AnyLabel
    <3> DEFINE id == dump.next
               p == InputPosition
               include == job.dump.include
    <3>1. id \in Nat /\ p \in Positions /\ include \in BOOLEAN /\ label \in Labels(id, p, include)
      BY <1>2, <1>3, <1>14, <2>1
    <3> HIDE DEF id, p, include
    <3> QED
      BY <3>1, LabelOfAny
  <2>3. label.position_id = dump.next /\ label.board = InputPosition
    BY <1>2 DEF Labels
  <2> QED
    BY <1>4, <1>5, <2>2, <2>3
<1>7. /\ e \in Dumps /\ e.pc = "label" /\ e.positions = x /\ e.next = d.next + 1
      /\ e.labeled = d.labeled + 1
  <2> HIDE DEF d, e, x, n
  <2>1. d.next + 1 \in Nat /\ d.labeled + 1 \in Nat
    BY <1>3, <1>14
  <2>2. e \in Dumps
    BY <1>1, <1>3, <2>1 DEF Dumps
  <2> QED
    BY <1>1, <1>3, <2>2 DEF Dumps, x, d
<1>8. labels'.made = Append(made, label) /\ LabelFile(labels')
  <2>1. LabelFile(labels)
    BY DEF FilesInv
  <2> DEFINE l == labels
             t == labels'
             y == Append(l.made, label)
             z == Append(l.lines, LabelLine(label))
  <2>2. t = [l EXCEPT !.made = y, !.lines = z]
    BY <1>2
  <2> HIDE DEF l, t, y, z
  <2>3. t = [lines |-> z, made |-> y, closed |-> l.closed, lost |-> l.lost, edit |-> l.edit]
    BY <2>1, <2>2 DEF LabelFile, l
  <2>4. t.made = y /\ LabelFile(t)
    BY <2>3 DEF LabelFile
  <2> QED
    BY <2>4 DEF t, y, l
<1>9. MadeOk(Append(made, label), x, n + 2, max) /\ Len(Append(made, label)) = Len(made) + 1
  <2>1. MadeOk(made, x, n + 1, max)
    BY <1>3, <1>4 DEF DumpReads
  <2> HIDE DEF x, n, max, made
  <2>2. MadeOk(Append(made, label), x, n + 2, max)
    BY <1>4, <1>5, <1>6, <2>1, MadeGrows
  <2>3. made \in Seq(AnyLabel)
    BY <2>1 DEF MadeOk
  <2> QED
    BY <1>6, <2>2, <2>3, AppendProperties
<1> HIDE DEF e
<1>10. DumpReads(job, boards, e, Append(made, label))
  <2>1. \A limit \in job.dump.limit : e.labeled <= limit
    BY <1>7, <1>14
  <2>2. Len(made) = d.labeled
    BY <1>3 DEF DumpReads
  <2>3. \E c \in 0 .. Len(boards.sampled) :
          e.positions = FirstBoards(boards.sampled, c) /\ Len(Kept(boards.lines)) = 9 * c
    BY <1>3, <1>7 DEF DumpReads
  <2>4. e.next \in 1 .. Len(e.positions) + 1
    BY <1>4, <1>7
  <2>5. MadeOk(Append(made, label), e.positions, e.next, job.dump.max_empties)
    BY <1>4, <1>7, <1>9
  <2>6. Len(Append(made, label)) = e.labeled
    BY <1>7, <1>9, <2>2
  <2> QED
    BY <2>1, <2>3, <2>4, <2>5, <2>6 DEF DumpReads
<1>11. DumpOk(job, boards, e, Append(made, label))
  BY <1>7, <1>10 DEF DumpOk
<1>12. BoardsOk(sampler.pc, boards, e)
  <2>1. d # IdleDump
    BY <1>3 DEF IdleDump
  <2> QED
    BY <2>1 DEF FilesInv, BoardsOk
<1> QED
  BY <1>1, <1>8, <1>11, <1>12 DEF FilesInv, e

LEMMA FilesEnd ==
  ASSUME SamplerInv, FilesInv, EndDump
  PROVE  FilesInv'
<1> DEFINE d == dump
           e == dump'
<1>1. d.pc = "label" /\ ~HasPosition /\ UNCHANGED <<job, sampler, boards>>
      /\ e = [d EXCEPT !.pc = "exited"] /\ labels' = [labels EXCEPT !.closed = TRUE]
  BY DEF EndDump
<1>2. d \in Dumps /\ DumpReads(job, boards, d, labels.made)
  BY <1>1 DEF FilesInv, DumpOk
<1> HIDE DEF d, e
<1>3. e \in Dumps /\ e.pc = "exited" /\ e.positions = d.positions /\ e.next = d.next /\ e.labeled = d.labeled
  BY <1>1, <1>2 DEF Dumps
<1>4. labels'.made = labels.made /\ LabelFile(labels')
  <2> DEFINE l == labels
             t == labels'
  <2>1. LabelFile(l) /\ t = [l EXCEPT !.closed = TRUE]
    BY <1>1 DEF FilesInv
  <2> HIDE DEF l, t
  <2>2. t = [lines |-> l.lines, made |-> l.made, closed |-> TRUE, lost |-> l.lost, edit |-> l.edit]
    BY <2>1 DEF LabelFile
  <2>3. t.made = l.made /\ LabelFile(t)
    BY <2>2 DEF LabelFile
  <2> QED
    BY <2>3 DEF l, t
<1>5. DumpReads(job, boards, e, labels.made)
  BY <1>2, <1>3 DEF DumpReads
<1>6. DumpEnded(job, e)
  <2>1. d.next > Len(d.positions) \/ AtLimit
    <3>1. d.next \in 1 .. Len(d.positions) + 1 /\ Len(d.positions) \in Nat
      BY <1>2, LenProperties DEF DumpReads, Dumps
    <3>2. ~(d.next <= Len(d.positions)) \/ AtLimit
      BY <1>1 DEF HasPosition, d
    <3> QED
      BY <3>1, <3>2
  <2>2. AtLimit => \E limit \in job.dump.limit : e.labeled >= limit
    BY <1>3 DEF AtLimit, d
  <2> QED
    BY <1>3, <2>1, <2>2 DEF DumpEnded
<1>7. DumpOk(job, boards, e, labels.made)
  BY <1>3, <1>5, <1>6 DEF DumpOk
<1>8. BoardsOk(sampler.pc, boards, e)
  <2>1. dump # IdleDump
    BY <1>1 DEF IdleDump, d
  <2> QED
    BY <2>1 DEF FilesInv, BoardsOk
<1> QED
  BY <1>1, <1>4, <1>7, <1>8 DEF FilesInv, e

\* What others do to the file of labels does not touch what it was made of.
LEMMA LabelsTouched ==
  ASSUME LabelFile(labels), LoseLabelsTail \/ EditLine
  PROVE  labels'.made = labels.made /\ LabelFile(labels')
<1> DEFINE l == labels
           t == labels'
<1>1. \E y, z, w : t = [l EXCEPT !.lines = y, !.lost = z, !.edit = w]
  <2>1. CASE LoseLabelsTail
    <3>1. PICK y : t = [l EXCEPT !.lines = y, !.lost = TRUE]
      BY <2>1 DEF LoseLabelsTail
    <3> HIDE DEF l, t
    <3>2. t = [l EXCEPT !.lines = y, !.lost = TRUE, !.edit = l.edit]
      BY <3>1 DEF LabelFile, l
    <3> QED
      BY <3>2
  <2>2. CASE EditLine
    <3>4. PICK i \in DOMAIN l.lines : \E e : t = [l EXCEPT !.lines[i] = e.line, !.edit = e.how]
      BY <2>2 DEF EditLine
    <3>1. PICK e : t = [l EXCEPT !.lines[i] = e.line, !.edit = e.how]
      BY <3>4
    <3> DEFINE y == [l.lines EXCEPT ![i] = e.line]
    <3>3. t = [l EXCEPT !.lines = y, !.edit = e.how]
      BY <3>1
    <3> HIDE DEF l, t, y
    <3>2. t = [l EXCEPT !.lines = y, !.lost = l.lost, !.edit = e.how]
      BY <3>3 DEF LabelFile, l
    <3> QED
      BY <3>2
  <2> QED
    BY <2>1, <2>2
<1>2. PICK y, z, w : t = [l EXCEPT !.lines = y, !.lost = z, !.edit = w]
  BY <1>1
<1> HIDE DEF l, t
<1>3. t = [lines |-> y, made |-> l.made, closed |-> l.closed, lost |-> z, edit |-> w]
  BY <1>2 DEF LabelFile, l
<1>4. t.made = l.made /\ LabelFile(t)
  BY <1>3 DEF LabelFile
<1> QED
  BY <1>4 DEF l, t

LEMMA FilesKept == SamplerInv /\ FilesInv /\ [Next]_vars => FilesInv'
<1> SUFFICES ASSUME SamplerInv, FilesInv, [Next]_vars
             PROVE  FilesInv'
  OBVIOUS
<1>1. CASE Sampling
  <2>1. sampler.pc # "exited" /\ sampler'.pc # "exited" /\ UNCHANGED <<job, boards, dump, labels>>
    BY <1>1, SamplerStays DEF Sampling
  <2> QED
    BY <2>1 DEF FilesInv, BoardsOk
<1>2. CASE UNCHANGED <<job, sampler, boards, dump>> /\ labels'.made = labels.made /\ LabelFile(labels')
  BY <1>2 DEF FilesInv
<1>3. CASE LoseLabelsTail \/ EditLine
  <2>1. LabelFile(labels) /\ UNCHANGED <<job, sampler, boards, dump>>
    BY <1>3 DEF FilesInv, LoseLabelsTail, EditLine
  <2> QED
    BY <1>2, <1>3, <2>1, LabelsTouched
<1>4. CASE Analyzer \/ UNCHANGED vars
  <2>1. UNCHANGED <<job, sampler, boards, dump, labels>>
    BY <1>4 DEF Analyzer, StartAnalyzer, ReadLine, WriteReport, vars
  <2> QED
    BY <1>2, <2>1 DEF FilesInv
<1>5. [Next]_vars => \/ Sampling \/ WritePositions \/ LosePositionsTail \/ StartDump \/ SkipTooManyEmpties
                     \/ LabelPosition \/ EndDump \/ LoseLabelsTail \/ EditLine \/ Analyzer \/ UNCHANGED vars
  BY DEF Next, Sampler, Dump
<1> QED
  BY <1>1, <1>3, <1>4, <1>5, FilesWritten, FilesCut, FilesRead, FilesSkip, FilesLabel, FilesEnd

LEMMA LabelsFromInv ==
  ASSUME SamplerInv, FilesInv
  PROVE  LabelsAreOfSamples
<1> DEFINE s == boards.sampled
           x == dump.positions
           made == labels.made
           max == job.dump.max_empties
           done == dump.pc \in {"label", "exited"}
<1>1. dump \in Dumps /\ s \in Seq(Positions)
  BY DEF FilesInv, DumpOk, BoardsOk, BoardFile
<1>2. dump.pc = "refused" => boards.lost
  BY DEF FilesInv, DumpOk
<1>3. ~done => made = << >>
  <2>1. dump.pc \in {"idle", "refused", "label", "exited"}
    BY <1>1 DEF Dumps
  <2> QED
    BY <2>1 DEF FilesInv, DumpOk
<1>4. done => DumpReads(job, boards, dump, made)
  BY DEF FilesInv, DumpOk
<1>5. ASSUME done
      PROVE  \E c \in 0 .. Len(s) : /\ x = FirstBoards(s, c) /\ Len(Kept(boards.lines)) = 9 * c
                                    /\ x \in Seq(Positions) /\ Len(x) = c
                                    /\ \A i \in 1 .. c : x[i] = s[i]
  <2>1. PICK c \in 0 .. Len(s) : x = FirstBoards(s, c) /\ Len(Kept(boards.lines)) = 9 * c
    BY <1>4, <1>5 DEF DumpReads
  <2> HIDE DEF s, x
  <2> QED
    BY <1>1, <2>1, FirstBoardsAre
<1>6. done => IsPrefix(x, s) /\ 9 * Len(x) = Len(Kept(boards.lines))
  <2> SUFFICES ASSUME done
               PROVE  IsPrefix(x, s) /\ 9 * Len(x) = Len(Kept(boards.lines))
    OBVIOUS
  <2>1. PICK c \in 0 .. Len(s) : /\ Len(Kept(boards.lines)) = 9 * c
                                 /\ x \in Seq(Positions) /\ Len(x) = c
                                 /\ \A i \in 1 .. c : x[i] = s[i]
    BY <1>5
  <2>2. Len(s) \in Nat /\ c \in Nat /\ c <= Len(s)
    BY <1>1, LenProperties
  <2> HIDE DEF s, x
  <2>3. \A i \in 1 .. c : x[i] \in Positions /\ s[i] \in Positions
    BY <2>1, ElementOfSeq
  <2>4. \A y \in {x, s} : /\ SubSeq(y, 1, c) \in Seq(Positions)
                          /\ Len(SubSeq(y, 1, c)) = c
                          /\ \A i \in 1 .. c : SubSeq(y, 1, c)[i] = y[i]
    <3> SUFFICES ASSUME NEW y \in {x, s}
                 PROVE  /\ SubSeq(y, 1, c) \in Seq(Positions)
                        /\ Len(SubSeq(y, 1, c)) = c
                        /\ \A i \in 1 .. c : SubSeq(y, 1, c)[i] = y[i]
      OBVIOUS
    <3>1. \A i \in 1 .. c : y[i] \in Positions
      BY <2>3
    <3>2. /\ SubSeq(y, 1, c) \in Seq(Positions)
          /\ Len(SubSeq(y, 1, c)) = IF 1 <= c THEN c - 1 + 1 ELSE 0
          /\ \A i \in 1 .. c - 1 + 1 : SubSeq(y, 1, c)[i] = y[1 + i - 1]
      BY <2>2, <3>1, SubSeqProperties
    <3>3. c - 1 + 1 = c /\ \A i \in 1 .. c : 1 + i - 1 = i
      BY <2>2
    <3> QED
      BY <2>2, <3>2, <3>3
  <2>5. SubSeq(x, 1, c) = SubSeq(s, 1, c)
    BY <2>1, <2>4, SeqEqual
  <2> QED
    BY <2>1, <2>2, <2>5 DEF IsPrefix
<1>7. done => /\ MadeOk(made, x, dump.next, max) /\ dump.next \in 1 .. Len(x) + 1
              /\ Len(made) = dump.labeled /\ Len(made) \in Nat
  <2>1. dump.labeled \in Nat
    BY <1>1 DEF Dumps
  <2> QED
    BY <1>4, <2>1 DEF DumpReads
<1>8. ASSUME NEW k \in DOMAIN made
      PROVE  /\ made[k].board = s[made[k].position_id]
             /\ \A i \in 1 .. made[k].position_id - 1 :
                  (\E j \in 1 .. k - 1 : made[j].position_id = i) = (Empties[s[i]] <= max)
  <2>1. done
    BY <1>3
  <2>2. PICK c \in 0 .. Len(s) : Len(x) = c /\ \A i \in 1 .. c : x[i] = s[i]
    BY <1>5, <2>1
  <2>3. MadeOk(made, x, dump.next, max) /\ dump.next \in 1 .. c + 1 /\ c \in Nat
    BY <1>1, <1>7, <2>1, <2>2, LenProperties
  <2>4. k \in 1 .. Len(made)
    BY <2>3, LenProperties DEF MadeOk
  <2>5. made[k].position_id \in 1 .. dump.next - 1 /\ made[k].board = x[made[k].position_id]
    BY <2>3, <2>4 DEF MadeOk
  <2>6. made[k].position_id \in 1 .. c
    BY <2>3, <2>5
  <2>7. made[k].board = s[made[k].position_id]
    BY <2>2, <2>5, <2>6
  <2>8. ASSUME NEW i \in 1 .. made[k].position_id - 1
        PROVE  (\E j \in 1 .. k - 1 : made[j].position_id = i) = (Empties[s[i]] <= max)
    <3>1. (\E j \in 1 .. k - 1 : made[j].position_id = i) <=> Empties[x[i]] <= max
      BY <2>3, <2>4, <2>8 DEF MadeOk
    <3>2. x[i] = s[i]
      BY <2>2, <2>3, <2>6
    <3> DEFINE A == \E j \in 1 .. k - 1 : made[j].position_id = i
               B == Empties[s[i]] <= max
    <3>3. A <=> B
      BY <3>1, <3>2
    <3> HIDE DEF A, B
    <3>4. A = B
      BY <3>3, Zenon
    <3> QED
      BY <3>4 DEF A, B
  <2> QED
    BY <2>7, <2>8
<1>9. dump.pc = "exited" =>
        \/ job.dump.limit = {Len(made)}
        \/ Len(made) = Cardinality({ i \in DOMAIN x : Empties[x[i]] <= max })
  <2> SUFFICES ASSUME dump.pc = "exited"
               PROVE  \/ job.dump.limit = {Len(made)}
                      \/ Len(made) = Cardinality({ i \in DOMAIN x : Empties[x[i]] <= max })
    OBVIOUS
  <2>1. done /\ DumpEnded(job, dump)
    BY DEF FilesInv, DumpOk
  <2>2. CASE dump.next > Len(x)
    <3>1. Len(x) \in Nat /\ DOMAIN x = 1 .. Len(x)
      BY <1>1, LenProperties DEF Dumps
    <3>2. dump.next - 1 = Len(x)
      BY <1>7, <2>1, <2>2, <3>1
    <3>3. Len(made) = Cardinality(SmallUpTo(x, max, Len(x)))
      BY <1>7, <2>1, <3>2 DEF MadeOk
    <3> QED
      BY <3>1, <3>3 DEF SmallUpTo
  <2>3. CASE \E limit \in job.dump.limit : dump.labeled >= limit
    <3>1. PICK limit \in job.dump.limit : dump.labeled >= limit
      BY <2>3
    <3>2. /\ job.dump.limit \subseteq Nat /\ \A a, b \in job.dump.limit : a = b
      BY JobTools DEF SamplerInv
    <3>3. dump.labeled <= limit /\ limit \in Nat /\ Len(made) = dump.labeled
      BY <1>4, <1>7, <2>1, <3>1, <3>2 DEF DumpReads
    <3>4. limit = Len(made)
      BY <1>7, <2>1, <3>1, <3>3
    <3> QED
      BY <3>1, <3>2, <3>4
  <2> QED
    BY <2>1, <2>2, <2>3 DEF DumpEnded
<1> QED
  BY <1>2, <1>6, <1>8, <1>9 DEF LabelsAreOfSamples

\* A label is the label of the sample its id names, and every position that can
\* be labelled within the limit is, whatever is skipped and whatever end of the
\* file of positions is lost (write_positions, parse_position_text,
\* write_exact_label_jsonl).
THEOREM LabelsAreTrue == Spec => []LabelsAreOfSamples
<1>1. Init => SamplerInv /\ FilesInv
  BY SamplerInit, FilesInit
<1>2. SamplerInv /\ FilesInv /\ [Next]_vars => (SamplerInv /\ FilesInv)'
  BY SamplerKept, FilesKept
<1>3. SamplerInv /\ FilesInv => LabelsAreOfSamples
  BY LabelsFromInv
<1> QED
  BY <1>1, <1>2, <1>3, PTL DEF Spec
=============================================================================
