----------------------------- MODULE LoadProofs ------------------------------
(***************************************************************************)
(* Proofs about LoadTests, for all bounds: how far the release line in a   *)
(* row may lag behind its request, that answers are taken in the order of  *)
(* their prompts, whose work the growth of the server's counters is, that  *)
(* no request of a ramp or of a quick bench is lost from the counts, and   *)
(* the types.                                                              *)
(***************************************************************************)
EXTENDS LoadTests, FiniteSetTheorems, TLAPS

-----------------------------------------------------------------------------
\* Which program runs does not change.
LEMMA ClientStays == [Next]_vars => client' = client
<1> USE DEF inputVars, stepVars, serverVars
<1>1. RampStep => client' = client
  BY DEF RampStep, RampMain, RampThread, RampWarmup, RampWarmupEnds, RampScrape, RampMeasured, RampReport,
         RampWarmed, RampCollect, RampSend, RampAnswered, RampBreaks
<1>2. BenchStep => client' = client
  BY DEF BenchStep, BenchStart, BenchSubmit, BenchExpires, BenchAnswered, BenchBreaks, BenchEnds
<1>3. LadderStep => client' = client
  BY DEF LadderStep, LadderRead, LadderSend, LadderAnswered, LadderBreaks, JudgeSkips, JudgeLeetcode, JudgeProse
<1>4. AgenticStep => client' = client
  BY DEF AgenticStep, AgenticSend, AgenticAnswered, AgenticHttpError, AgenticBreaks, AgenticRelease, AgenticNoRelease
<1>5. PiStep => client' = client
  BY DEF PiStep, PiLaunch, PiPasteFails, PiPaste, PiPoll, PiTimeout
<1>6. PiWorks => client' = client
  BY DEF PiWorks
<1> QED BY <1>1, <1>2, <1>3, <1>4, <1>5, <1>6 DEF Next, ClientStep, Environment, vars

\* what a request is known by
Tags == Seq(Int)

-----------------------------------------------------------------------------
(* The agentic benchmark and the backend's log *)

\* the rows without a release line
Lost == {j \in DOMAIN releases : releases[j] = Null}

\* a request of another client
Foreign(tag) == \E n \in 0..others : tag = <<n, 0>>

\* The k-th line that is written: of another client, of a request without a
\* line in its row, or no later than all requests up to its own allow.
Placed(tag, k) ==
  \/ Foreign(tag)
  \/ \E of \in 1..iteration : tag = <<of>> /\ (of \in Lost \/ k <= of + others)

\* the requests sent so far
Sent == IF pc = "start" THEN iteration - 1 ELSE iteration

Requests == [who : Tags, tokens : {0}, heard : BOOLEAN]

\* The lines written, those to come and the requests on the server are no more
\* than were sent; the rows are no more than the count of known releases and
\* the rows without one; and nobody waits for a request only if its row is lost.
LogInv ==
  /\ log \in Seq(Tags) /\ late \in Seq(Tags)
  /\ serving \subseteq Requests /\ IsFiniteSet(serving)
  /\ Len(log) + Len(late) + Cardinality(serving) <= Sent + others
  /\ \A r \in serving : ~r.heard => Foreign(r.who) \/ \E of \in Lost : r.who = <<of>>
  /\ \A k \in 1..Len(log) : Placed(log[k], k)
  /\ \A k \in 1..Len(late) : Placed(late[k], Len(log) + k)

RowsInv ==
  /\ previous \in Nat
  /\ Len(releases) = iteration - 1
  /\ Len(releases) <= previous + Cardinality(Lost)

ReleaseInv ==
  /\ client # "agentic" => releases = <<>>
  /\ client = "agentic" =>
       /\ iteration \in Nat \ {0} /\ others \in Nat /\ releases \in Seq(Tags \union {Null})
       /\ pc # "ended" => LogInv /\ RowsInv
       /\ ReleasesLagByTheLost

LEMMA ReleaseInit == Init => ReleaseInv
<1> SUFFICES ASSUME Init PROVE ReleaseInv
  OBVIOUS
<1>1. iteration = 1 /\ previous = 0 /\ releases = <<>> /\ others = 0 /\ log = <<>> /\ late = <<>> /\ serving = {}
  BY DEF Init, AgenticInit, ServerInit
<1>2. Lost = {} /\ Cardinality(Lost) = 0 /\ Cardinality(serving) = 0 /\ IsFiniteSet(serving)
  BY <1>1, FS_EmptySet DEF Lost
<1>3. client = "agentic" => pc = "start"
  BY DEF Init, FirstStep
<1> QED BY <1>1, <1>2, <1>3 DEF ReleaseInv, LogInv, RowsInv, ReleasesLagByTheLost, Tags, Sent

\* A row without a line stays one, and there are only so many.
LEMMA LostStays ==
  ASSUME releases \in Seq(Tags \union {Null}),
         releases' = releases \/ \E x \in Tags \union {Null} : releases' = Append(releases, x)
  PROVE  /\ Lost \subseteq Lost' /\ IsFiniteSet(Lost) /\ IsFiniteSet(Lost') /\ releases' \in Seq(Tags \union {Null})
         /\ Cardinality(Lost) \in Nat /\ Cardinality(Lost') \in Nat /\ Cardinality(Lost) <= Cardinality(Lost')
<1>1. /\ DOMAIN releases = 1..Len(releases) /\ DOMAIN releases' = 1..Len(releases') /\ releases' \in Seq(Tags \union {Null})
      /\ DOMAIN releases \subseteq DOMAIN releases' /\ \A j \in DOMAIN releases : releases'[j] = releases[j]
      /\ Len(releases) \in Nat /\ Len(releases') \in Nat
  <2>1. CASE releases' = releases
    BY <2>1
  <2>2. ASSUME NEW x \in Tags \union {Null}, releases' = Append(releases, x)
        PROVE  /\ DOMAIN releases = 1..Len(releases) /\ DOMAIN releases' = 1..Len(releases')
               /\ releases' \in Seq(Tags \union {Null})
               /\ DOMAIN releases \subseteq DOMAIN releases' /\ \A j \in DOMAIN releases : releases'[j] = releases[j]
               /\ Len(releases) \in Nat /\ Len(releases') \in Nat
    BY <2>2
  <2> QED BY <2>1, <2>2
<1>2. Lost \subseteq Lost'
  BY <1>1 DEF Lost
<1>3. Lost \subseteq 1..Len(releases) /\ Lost' \subseteq 1..Len(releases')
  BY <1>1 DEF Lost
<1>4. \A n \in Nat : IsFiniteSet(1..n)
  BY FS_Interval
<1>5. IsFiniteSet(Lost) /\ IsFiniteSet(Lost') /\ Cardinality(Lost) <= Cardinality(Lost')
  BY <1>1, <1>2, <1>3, <1>4, FS_Subset
<1> QED BY <1>1, <1>2, <1>5, FS_CardinalityType

\* A line keeps its place.
LEMMA PlacedStays ==
  ASSUME NEW tag, NEW k \in Nat, Placed(tag, k), Lost \subseteq Lost',
         iteration \in Nat, iteration' \in Nat, iteration <= iteration',
         others \in Nat, others' \in Nat, others <= others'
  PROVE  Placed(tag, k)'
<1>1. CASE Foreign(tag)
  BY <1>1 DEF Foreign, Placed
<1>2. ASSUME NEW of \in 1..iteration, tag = <<of>>, of \in Lost \/ k <= of + others
      PROVE  Placed(tag, k)'
  <2>1. of \in 1..iteration' /\ of \in Nat
    BY <1>2
  <2>2. k <= of + others => k <= of + others'
    <3>1. \A a, b, c, d \in Nat : a <= b + c /\ c <= d => a <= b + d
      OBVIOUS
    <3> QED BY <2>1, <3>1
  <2>3. of \in Lost' \/ k <= of + others'
    BY <1>2, <2>2
  <2> QED BY <1>2, <2>1, <2>3 DEF Placed
<1> QED BY <1>1, <1>2 DEF Placed

LEMMA TagHead ==
  ASSUME NEW tag \in Tags, Len(tag) \in {1, 2}
  PROVE  tag[1] \in Int
  BY DEF Tags

LEMMA LostIsFinite ==
  ASSUME NEW i \in Nat
  PROVE  Cardinality(LostBefore(i)) \in Nat
<1>1. IsFiniteSet(1..(i - 1))
  BY FS_Interval
<1>2. LostBefore(i) \subseteq 1..(i - 1)
  BY DEF LostBefore
<1> QED BY <1>1, <1>2, FS_Subset, FS_CardinalityType

\* More requests of other clients take nothing from what a row may have.
LEMMA MayStillHave ==
  ASSUME NEW i \in Nat, NEW x \in Tags \union {Null}, MayHave(i, x), LostBefore(i)' = LostBefore(i),
         others \in Nat, others' \in Nat, others <= others'
  PROVE  MayHave(i, x)'
<1>1. CASE x = Null
  BY <1>1 DEF MayHave
<1>2. CASE x # Null /\ Len(x) = 2 /\ x[1] <= others
  <2>1. x[1] \in Int
    BY <1>2, TagHead
  <2> QED BY <1>2, <2>1 DEF MayHave
<1>3. CASE x # Null /\ Len(x) = 1 /\ x[1] <= i /\ (x[1] \in LostBefore(i) \/ i - x[1] <= Cardinality(LostBefore(i)) + others)
  <2>1. x[1] \in Int /\ Cardinality(LostBefore(i)) \in Nat
    BY <1>3, TagHead, LostIsFinite
  <2>2. Cardinality(LostBefore(i))' = Cardinality(LostBefore(i))
    OBVIOUS
  <2>3. i - x[1] <= Cardinality(LostBefore(i)) + others => i - x[1] <= Cardinality(LostBefore(i)) + others'
    BY <2>1
  <2> QED BY <1>3, <2>2, <2>3 DEF MayHave
<1> QED BY <1>1, <1>2, <1>3 DEF MayHave

LEMMA LagStays ==
  ASSUME releases \in Seq(Tags \union {Null}), ReleasesLagByTheLost, releases' = releases,
         others \in Nat, others' \in Nat, others <= others'
  PROVE  ReleasesLagByTheLost'
<1>1. \A i \in DOMAIN releases : i \in Nat /\ releases[i] \in Tags \union {Null} /\ LostBefore(i)' = LostBefore(i)
  BY DEF LostBefore
<1> QED BY <1>1, MayStillHave DEF ReleasesLagByTheLost

LEMMA LagAppends ==
  ASSUME releases \in Seq(Tags \union {Null}), ReleasesLagByTheLost, others \in Nat, others' = others,
         NEW x \in Tags \union {Null}, MayHave(Len(releases) + 1, x), releases' = Append(releases, x)
  PROVE  ReleasesLagByTheLost'
<1>1. /\ Len(releases) \in Nat /\ DOMAIN releases = 1..Len(releases) /\ DOMAIN releases' = 1..(Len(releases) + 1)
      /\ releases'[Len(releases) + 1] = x /\ \A i \in DOMAIN releases : releases'[i] = releases[i]
  OBVIOUS
<1>2. \A i \in DOMAIN releases' : LostBefore(i)' = LostBefore(i)
  BY <1>1 DEF LostBefore
<1>3. ASSUME NEW i \in DOMAIN releases
      PROVE  MayHave(i, releases[i])'
  <2>1. i \in Nat /\ releases[i] \in Tags \union {Null} /\ MayHave(i, releases[i])
    BY <1>1 DEF ReleasesLagByTheLost
  <2>2. \A y : y = releases[i] => MayHave(i, y)'
    BY <1>1, <1>2, <2>1, MayStillHave
  <2> QED BY <1>1, <2>2
<1>4. PICK n \in Nat : n = Len(releases) + 1
  BY <1>1
<1>5. MayHave(n, x)'
  BY <1>1, <1>2, <1>4, MayStillHave
<1>6. ASSUME NEW i \in DOMAIN releases'
      PROVE  MayHave(i, releases[i])'
  <2>1. i \in DOMAIN releases \/ (i = n /\ releases'[i] = x)
    BY <1>1, <1>4
  <2> QED BY <1>3, <1>5, <2>1
<1> QED BY <1>6 DEF ReleasesLagByTheLost

\* What a conclusion makes of the rows: the run ends, or the next request is due.
LEMMA RowsStep ==
  ASSUME iteration \in Nat \ {0}, others \in Nat, others' = others, releases \in Seq(Tags \union {Null}),
         RowsInv, ReleasesLagByTheLost, NEW status, NEW release \in Tags \union {Null}, MayHave(Len(releases) + 1, release),
         Conclude(status, release), (release = Null /\ previous' = previous) \/ previous' = previous + 1
  PROVE  /\ iteration' \in Nat \ {0} /\ iteration <= iteration' /\ releases' \in Seq(Tags \union {Null})
         /\ Lost \subseteq Lost' /\ ReleasesLagByTheLost'
         /\ pc' # "ended" => /\ pc' = "start" /\ iteration' = iteration + 1 /\ RowsInv'
                             /\ release = Null => iteration \in Lost'
<1>1. CASE NoContext(release)
  <2>1. pc' = "ended" /\ UNCHANGED <<iteration, releases>>
    BY <1>1 DEF NoContext, End
  <2> QED BY <2>1, LostStays, LagStays
<1>2. CASE WriteRow(status, release)
  <2>1. releases' = Append(releases, release)
    BY <1>2 DEF WriteRow
  <2>2. (pc' = "ended" /\ iteration' = iteration) \/ (pc' = "start" /\ iteration' = iteration + 1)
    BY <1>2 DEF WriteRow, NextIteration, Goto, End
  <2>3. ReleasesLagByTheLost' /\ Lost \subseteq Lost' /\ releases' \in Seq(Tags \union {Null})
    BY <2>1, LagAppends, LostStays
  <2>4. Cardinality(Lost) \in Nat /\ Cardinality(Lost') \in Nat /\ Cardinality(Lost) <= Cardinality(Lost')
    BY <2>1, LostStays
  <2>5. ASSUME release = Null
        PROVE  iteration \in Lost' /\ Cardinality(Lost') = Cardinality(Lost) + 1
    <3>1. Len(releases) + 1 = iteration /\ DOMAIN releases = 1..Len(releases) /\ DOMAIN releases' = 1..iteration
      BY <2>1 DEF RowsInv
    <3>2. releases'[iteration] = Null /\ \A j \in 1..Len(releases) : releases'[j] = releases[j]
      BY <2>1, <2>5, <3>1
    <3>3. Lost' = Lost \union {iteration} /\ iteration \notin Lost
      BY <3>1, <3>2 DEF Lost
    <3>4. IsFiniteSet(Lost)
      BY <2>1, LostStays
    <3> QED BY <3>3, <3>4, FS_AddElement
  <2>6. Len(releases') = Len(releases) + 1 /\ Len(releases) \in Nat
    BY <2>1
  <2>7. previous' \in Nat /\ Len(releases') <= previous' + Cardinality(Lost')
    <3>1. previous \in Nat /\ Len(releases) <= previous + Cardinality(Lost)
      BY DEF RowsInv
    <3> QED BY <2>4, <2>5, <2>6, <3>1
  <2> QED BY <2>2, <2>3, <2>5, <2>6, <2>7 DEF RowsInv
<1> QED BY <1>1, <1>2 DEF Conclude

\* A request that is over without anybody waiting may leave a line, in its place.
LEMMA LineComes ==
  ASSUME LogInv, iteration \in Nat \ {0}, others \in Nat, NEW r \in serving,
         late' = Append(late, r.who) \/ late' = late,
         serving' = serving \ {r}, log' = log,
         iteration' = iteration, others' = others, releases' = releases,
         Sent \in Nat, Sent' \in Nat, Sent <= Sent',
         late' # late => Foreign(r.who) \/ \E of \in 1..iteration : r.who = <<of>> /\ (of \in Lost \/ Sent <= of)
  PROVE  LogInv'
<1>1. /\ r.who \in Tags /\ log' \in Seq(Tags) /\ late' \in Seq(Tags) /\ serving' \subseteq Requests
      /\ Len(log) \in Nat /\ Len(late) \in Nat /\ Len(log') = Len(log)
  BY DEF LogInv, Requests
<1>2. IsFiniteSet(serving') /\ Cardinality(serving') = Cardinality(serving) - 1 /\ Cardinality(serving) \in Nat
      /\ Cardinality(serving') \in Nat
  BY FS_RemoveElement, FS_CardinalityType DEF LogInv
<1>3. Len(late') = Len(late) \/ Len(late') = Len(late) + 1
  BY <1>1
<1>4. Len(log) + Len(late) + Cardinality(serving) <= Sent + others
  BY DEF LogInv
<1>5. Len(log') + Len(late') + Cardinality(serving') <= Sent' + others'
  <2>1. \A a, b, c, d, s, t, o \in Nat : a + b + c <= s + o /\ d \in {b, b + 1} /\ s <= t => a + d + (c - 1) <= t + o
    OBVIOUS
  <2>2. Len(late') \in {Len(late), Len(late) + 1} /\ Len(late') \in Nat
    BY <1>1, <1>3
  <2>3. Len(log) + Len(late') + (Cardinality(serving) - 1) <= Sent' + others
    BY <1>1, <1>2, <1>4, <2>1, <2>2
  <2> QED BY <1>1, <1>2, <2>3
<1>6. Lost' = Lost
  BY DEF Lost
<1>7. \A x \in serving' : ~x.heard => Foreign(x.who)' \/ \E of \in Lost' : x.who = <<of>>
  BY <1>6 DEF LogInv, Foreign
<1>8. ASSUME NEW tag, NEW k
      PROVE  Placed(tag, k)' = Placed(tag, k)
  BY <1>6 DEF Placed, Foreign
<1>9. \A k \in 1..Len(log') : Placed(log[k], k)'
  BY <1>1, <1>8 DEF LogInv
<1>10. \A k \in 1..Len(late') : Placed(late[k], Len(log) + k)'
  <2>1. CASE late' = late
    BY <1>1, <1>8, <2>1 DEF LogInv
  <2>2. CASE late' # late
    <3>1. late' = Append(late, r.who) /\ Len(late') = Len(late) + 1
      BY <1>1, <2>2
    <3>2. \A k \in 1..Len(late) : Placed(late[k], Len(log) + k)
      BY DEF LogInv
    <3>3. Len(log) + (Len(late) + 1) <= Sent + others
      BY <1>1, <1>2, <1>4
    <3>4. Placed(r.who, Len(log) + (Len(late) + 1))
      <4>1. CASE Foreign(r.who)
        BY <4>1 DEF Placed
      <4>2. ASSUME NEW of \in 1..iteration, r.who = <<of>>, of \in Lost \/ Sent <= of
            PROVE  Placed(r.who, Len(log) + (Len(late) + 1))
        <5>1. \A a, b, c, d \in Nat : a <= b + c /\ b <= d => a <= d + c
          OBVIOUS
        <5>2. of \in Nat /\ Len(log) + (Len(late) + 1) \in Nat
          BY <1>1, <4>2
        <5>3. Sent <= of => Len(log) + (Len(late) + 1) <= of + others
          BY <3>3, <5>1, <5>2
        <5> QED BY <4>2, <5>3 DEF Placed
      <4> QED BY <2>2, <4>1, <4>2
    <3>5. ASSUME NEW k \in 1..Len(late')
          PROVE  Placed(late'[k], Len(log) + k)
      <4>1. CASE k \in 1..Len(late)
        <5>1. late'[k] = late[k]
          BY <1>1, <3>1, <4>1
        <5> QED BY <3>2, <4>1, <5>1
      <4>2. CASE k = Len(late) + 1
        BY <1>1, <3>1, <3>4, <4>2
      <4> QED BY <1>1, <3>1, <4>1, <4>2
    <3> QED BY <1>8, <3>5
  <2> QED BY <2>1, <2>2
<1> QED BY <1>1, <1>2, <1>5, <1>7, <1>9, <1>10 DEF LogInv

\* Rows, requests and other clients that are added leave the lines in place.
LEMMA LinesStay ==
  ASSUME LogInv, iteration \in Nat, iteration' \in Nat, iteration <= iteration',
         others \in Nat, others' \in Nat, others <= others', Lost \subseteq Lost', log' = log, late' = late,
         serving' \subseteq Requests, IsFiniteSet(serving'), Sent \in Nat, Sent' \in Nat,
         Cardinality(serving') + (Sent + others) <= Cardinality(serving) + (Sent' + others'),
         \A r \in serving' : ~r.heard => r \in serving \/ Foreign(r.who)' \/ \E of \in Lost' : r.who = <<of>>
  PROVE  LogInv'
<1>1. Len(log) \in Nat /\ Len(late) \in Nat /\ Cardinality(serving) \in Nat /\ Cardinality(serving') \in Nat
  BY FS_CardinalityType DEF LogInv
<1>2. Len(log') + Len(late') + Cardinality(serving') <= Sent' + others'
  <2>1. \A a, b, c, d, s, t \in Nat : a + b + c <= s /\ d + s <= c + t => a + b + d <= t
    OBVIOUS
  <2>2. Len(log) + Len(late) + Cardinality(serving) <= Sent + others
    BY DEF LogInv
  <2>3. Sent + others \in Nat /\ Sent' + others' \in Nat
    OBVIOUS
  <2>4. Len(log) + Len(late) + Cardinality(serving') <= Sent' + others'
    BY <1>1, <2>1, <2>2, <2>3
  <2> QED BY <2>4
<1>3. \A r \in serving' : ~r.heard => Foreign(r.who)' \/ \E of \in Lost' : r.who = <<of>>
  BY DEF LogInv, Foreign
<1>4. \A k \in 1..Len(log') : Placed(log[k], k)'
  BY <1>1, PlacedStays DEF LogInv
<1>5. \A k \in 1..Len(late') : Placed(late[k], Len(log) + k)'
  <2>0. \A k \in 1..Len(late) : Len(log) + k \in Nat
    BY <1>1
  <2>1. \A k \in 1..Len(late) : Placed(late[k], Len(log) + k)
    BY DEF LogInv
  <2>2. ASSUME NEW tag, NEW k \in Nat, Placed(tag, k)
        PROVE  Placed(tag, k)'
    BY <2>2, PlacedStays
  <2>3. ASSUME NEW k \in 1..Len(late)
        PROVE  Placed(late[k], Len(log) + k)'
    <3>1. PICK n \in Nat : n = Len(log) + k /\ Placed(late[k], n)
      BY <2>0, <2>1
    <3>2. Placed(late[k], n)'
      BY <2>2, <3>1
    <3> QED BY <3>1, <3>2
  <2> QED BY <2>3
<1> QED BY <1>2, <1>3, <1>4, <1>5 DEF LogInv

\* A line is written where it was to come.
LEMMA LineIsWritten ==
  ASSUME LogInv, WritesLog, UNCHANGED <<pc, iteration, releases>>
  PROVE  LogInv'
<1>1. /\ Len(log) \in Nat /\ Len(late) \in Nat \ {0} /\ Head(late) = late[1] /\ late[1] \in Tags
      /\ log' \in Seq(Tags) /\ late' \in Seq(Tags) /\ Len(log') = Len(log) + 1 /\ Len(late') = Len(late) - 1
      /\ \A k \in 1..Len(log) : log'[k] = log[k]
      /\ log'[Len(log) + 1] = late[1]
      /\ \A k \in 1..Len(late') : late'[k] = late[k + 1]
  BY DEF LogInv, WritesLog
<1>2. UNCHANGED <<serving, others>> /\ Lost' = Lost /\ Sent' = Sent
  BY DEF WritesLog, Lost, Sent
<1>3. ASSUME NEW tag, NEW k
      PROVE  Placed(tag, k)' = Placed(tag, k)
  BY <1>2 DEF Placed, Foreign
<1>4. Len(log') + Len(late') = Len(log) + Len(late)
  BY <1>1
<1>5. Len(log') + Len(late') + Cardinality(serving') <= Sent' + others'
  BY <1>2, <1>4 DEF LogInv
<1>6. \A r \in serving' : ~r.heard => Foreign(r.who)' \/ \E of \in Lost' : r.who = <<of>>
  BY <1>2 DEF LogInv, Foreign
<1>7. ASSUME NEW k \in 1..Len(log')
      PROVE  Placed(log'[k], k)
  <2>1. CASE k \in 1..Len(log)
    <3>1. log'[k] = log[k]
      BY <1>1, <2>1
    <3> QED BY <2>1, <3>1 DEF LogInv
  <2>2. CASE k = Len(log) + 1
    <3>1. Placed(late[1], Len(log) + 1)
      BY <1>1 DEF LogInv
    <3> QED BY <1>1, <2>2, <3>1
  <2> QED BY <1>1, <2>1, <2>2
<1>8. ASSUME NEW k \in 1..Len(late')
      PROVE  Placed(late'[k], Len(log') + k)
  <2>1. k + 1 \in 1..Len(late) /\ late'[k] = late[k + 1] /\ Len(log) + (k + 1) = Len(log') + k
    BY <1>1
  <2>2. \A j \in 1..Len(late) : Placed(late[j], Len(log) + j)
    BY DEF LogInv
  <2>3. Placed(late[k + 1], Len(log) + (k + 1))
    BY <2>1, <2>2
  <2> QED BY <2>1, <2>3
<1> QED BY <1>1, <1>2, <1>3, <1>5, <1>6, <1>7, <1>8 DEF LogInv

\* The newest line of more than were known may be what the row gets.
LEMMA NewestFits ==
  ASSUME LogInv, RowsInv, iteration \in Nat \ {0}, others \in Nat, releases \in Seq(Tags \union {Null}), Len(log) > previous
  PROVE  log[Len(log)] \in Tags /\ MayHave(Len(releases) + 1, log[Len(log)])
<1>1. /\ Len(releases) + 1 = iteration /\ previous \in Nat /\ Len(releases) \in Nat
      /\ Len(releases) <= previous + Cardinality(Lost)
  BY DEF RowsInv
<1>2. Len(log) \in 1..Len(log) /\ log[Len(log)] \in Tags
  BY <1>1 DEF LogInv
<1>3. PICK p \in Nat : p = Len(log)
  BY <1>2 DEF LogInv
<1>4. Placed(log[p], p) /\ log[p] \in Tags
  BY <1>2, <1>3 DEF LogInv
<1>5. Lost = LostBefore(iteration)
  BY <1>1 DEF Lost, LostBefore
<1>6. Cardinality(Lost) \in Nat
  BY LostStays, <1>5, LostIsFinite
<1>7. CASE Foreign(log[p])
  <2>1. PICK n \in 0..others : log[p] = <<n, 0>>
    BY <1>7 DEF Foreign
  <2>2. Len(log[p]) = 2 /\ log[p][1] = n
    BY <2>1
  <2> QED BY <1>3, <1>4, <2>1, <2>2 DEF MayHave
<1>8. ASSUME NEW of \in 1..iteration, log[p] = <<of>>, of \in Lost \/ p <= of + others
      PROVE  MayHave(iteration, log[p])
  <2>1. Len(log[p]) = 1 /\ log[p][1] = of
    BY <1>8
  <2>2. p <= of + others => iteration - of <= Cardinality(Lost) + others
    <3>1. \A n, q, c, o, m, x \in Nat : m <= q + c /\ n = m + 1 /\ q < p /\ p <= x + o => n - x <= c + o
      BY <1>3
    <3>2. previous < p /\ of \in Nat
      BY <1>3, <1>1, <1>8
    <3> QED BY <1>1, <1>6, <3>1, <3>2
  <2> QED BY <1>5, <1>8, <2>1, <2>2 DEF MayHave
<1> QED BY <1>1, <1>3, <1>4, <1>7, <1>8 DEF Placed

LEMMA OneMore ==
  ASSUME NEW S, IsFiniteSet(S), NEW x
  PROVE  /\ IsFiniteSet(S \union {x}) /\ Cardinality(S \union {x}) \in Nat
         /\ Cardinality(S \union {x}) <= Cardinality(S) + 1
<1>1. Cardinality(S) \in Nat
  BY FS_CardinalityType
<1>2. CASE x \in S
  <2>1. S \union {x} = S
    BY <1>2
  <2>2. IsFiniteSet(S \union {x}) /\ Cardinality(S \union {x}) = Cardinality(S)
    BY <2>1, Zenon
  <2> QED BY <1>1, <2>2
<1>3. CASE x \notin S
  <2>1. IsFiniteSet(S \union {x}) /\ Cardinality(S \union {x}) = Cardinality(S) + 1
    BY <1>3, FS_AddElement
  <2> QED BY <1>1, <2>1
<1> QED BY <1>2, <1>3

LEMMA ReleaseStep == ReleaseInv /\ [Next]_vars => ReleaseInv'
<1> SUFFICES ASSUME ReleaseInv, [Next]_vars PROVE ReleaseInv'
  OBVIOUS
<1>0. client' = client
  BY ClientStays
<1>1. CASE client # "agentic"
  <2>1. releases' = releases
    BY <1>1
    DEF Next, vars, agenticVars, ClientStep, Environment, AgenticStep, AgenticSend, AgenticAnswered, AgenticHttpError, AgenticBreaks,
        AgenticRelease, AgenticNoRelease, Runs
  <2> QED BY <1>0, <1>1, <2>1 DEF ReleaseInv
<1>2. CASE client = "agentic" /\ pc = "ended"
  <2>1. UNCHANGED vars
    BY <1>2
    DEF Next, ClientStep, Environment, PiWorks, Runs, RampStep, RampMain, RampThread, RampWarmup, RampWarmupEnds, RampScrape, RampMeasured,
        RampReport, RampWarmed, RampCollect, RampSend, RampAnswered, RampBreaks, BenchStep, BenchStart, BenchSubmit, BenchExpires,
        BenchAnswered, BenchBreaks, BenchEnds, LadderStep, LadderRead, LadderSend, LadderAnswered, LadderBreaks, JudgeSkips, JudgeLeetcode,
        JudgeProse, AgenticStep, AgenticSend, AgenticAnswered, AgenticHttpError, AgenticBreaks, AgenticRelease, AgenticNoRelease,
        PiStep, PiLaunch, PiPasteFails, PiPaste, PiPoll, PiTimeout
  <2>2. UNCHANGED <<client, pc, iteration, others, releases>>
    BY <2>1 DEF vars, inputVars, stepVars, serverVars, agenticVars
  <2> QED BY <1>2, <2>2, LagStays DEF ReleaseInv
<1>3. CASE client = "agentic" /\ pc # "ended"
  <2>0. /\ iteration \in Nat \ {0} /\ others \in Nat /\ releases \in Seq(Tags \union {Null}) /\ LogInv /\ RowsInv
        /\ ReleasesLagByTheLost /\ Sent \in Nat /\ serving \subseteq Requests /\ IsFiniteSet(serving)
        /\ Cardinality(serving) \in Nat
    BY <1>3, FS_CardinalityType DEF ReleaseInv, LogInv, Sent
  <2>1. ASSUME UNCHANGED <<iteration, previous, releases>>, others' \in Nat, others <= others', LogInv'
        PROVE  ReleaseInv'
    <3>1. RowsInv'
      BY <2>0, <2>1 DEF RowsInv, Lost
    <3> QED BY <1>0, <1>3, <2>0, <2>1, <3>1, LagStays DEF ReleaseInv
  <2>2. ASSUME UNCHANGED <<iteration, releases, others>>, pc' = "ended"
        PROVE  ReleaseInv'
    BY <1>0, <1>3, <2>0, <2>2, LagStays DEF ReleaseInv
  <2>3. CASE AgenticSend
    <3>1. CASE Accept(<<iteration>>) /\ Goto("answer")
      <4>1. <<iteration>> \in Tags
        BY <2>0 DEF Tags
      <4>2. PICK r \in Requests : r.heard /\ serving' = serving \union {r}
        BY <3>1, <4>1 DEF Accept, Requests
      <4>3. IsFiniteSet(serving') /\ Cardinality(serving') \in Nat /\ Cardinality(serving') <= Cardinality(serving) + 1
        BY <2>0, <4>2, OneMore
      <4>4. Sent' \in Nat /\ Sent' = Sent + 1
        BY <2>0, <2>3, <3>1 DEF AgenticSend, agenticVars, Runs, Goto, Sent
      <4>5. UNCHANGED <<iteration, previous, releases, others, log, late>>
        BY <2>3, <3>1 DEF AgenticSend, Accept, agenticVars
      <4>6. LogInv'
        <5>1. Lost' = Lost
          BY <4>5 DEF Lost
        <5>2. Cardinality(serving') + (Sent + others) <= Cardinality(serving) + (Sent' + others')
          BY <2>0, <4>3, <4>4, <4>5
        <5>3. serving' \subseteq Requests /\ \A x \in serving' : ~x.heard => x \in serving
          BY <2>0, <4>2
        <5> QED BY <2>0, <4>3, <4>4, <4>5, <5>1, <5>2, <5>3, LinesStay
      <4> QED BY <2>0, <2>1, <4>5, <4>6
    <3>2. CASE UNCHANGED serverVars /\ End("raised")
      BY <2>2, <2>3, <3>2 DEF AgenticSend, serverVars, agenticVars, End
    <3> QED BY <2>3, <3>1, <3>2 DEF AgenticSend
  <2>4. CASE AgenticAnswered
    <3>1. PICK r \in serving : Finish(r) /\ r.who = <<iteration>>
      BY <2>4 DEF AgenticAnswered, Waiting
    <3>2. UNCHANGED <<iteration, previous, releases, others, log>> /\ Sent' = Sent /\ Sent = iteration
      BY <2>4, <3>1 DEF AgenticAnswered, Finish, agenticVars, Goto, Runs, Sent
    <3>3. late' = Append(late, r.who) /\ serving' = serving \ {r}
      BY <1>3, <3>1 DEF Finish
    <3>4. iteration \in 1..iteration /\ Sent <= iteration /\ Sent <= Sent'
      BY <2>0, <3>2
    <3>5. LogInv'
      BY <2>0, <3>1, <3>2, <3>3, <3>4, LineComes
    <3> QED BY <2>0, <2>1, <3>2, <3>5
  <2>5. CASE AgenticHttpError
    <3>1. PICK r \in serving : Abandon(r) /\ r.who = <<iteration>>
      BY <2>5 DEF AgenticHttpError, Waiting
    <3>2. pc = "answer" /\ previous' = previous /\ UNCHANGED <<log, late, others>> /\ Sent = iteration
      BY <2>5, <3>1 DEF AgenticHttpError, Abandon, Drop, Runs, Sent
    <3>3. PICK status : Conclude(status, Null)
      BY <2>5 DEF AgenticHttpError
    <3>4. MayHave(Len(releases) + 1, Null)
      BY DEF MayHave
    <3>5. /\ iteration' \in Nat \ {0} /\ iteration <= iteration' /\ releases' \in Seq(Tags \union {Null})
          /\ Lost \subseteq Lost' /\ ReleasesLagByTheLost'
          /\ pc' # "ended" => pc' = "start" /\ iteration' = iteration + 1 /\ RowsInv' /\ iteration \in Lost'
      BY <2>0, <3>2, <3>3, <3>4, RowsStep
    <3>6. ASSUME pc' # "ended"
          PROVE  LogInv'
      <4>1. PICK x \in Requests : x.who = <<iteration>> /\ serving' \subseteq (serving \ {r}) \union {x}
        <5>1. CASE Drop(r)
          BY <2>0, <3>1, <5>1 DEF Drop
        <5>2. CASE serving' = (serving \ {r}) \union {[r EXCEPT !.heard = FALSE]}
          <6>1. [r EXCEPT !.heard = FALSE] \in Requests /\ [r EXCEPT !.heard = FALSE].who = <<iteration>>
            BY <2>0, <3>1 DEF Requests
          <6> QED BY <5>2, <6>1
        <5> QED BY <3>1, <5>1, <5>2 DEF Abandon
      <4>2. IsFiniteSet(serving') /\ Cardinality(serving') <= Cardinality(serving) /\ Cardinality(serving') \in Nat
        <5>1. IsFiniteSet(serving \ {r}) /\ Cardinality(serving \ {r}) = Cardinality(serving) - 1
          BY <2>0, <3>1, FS_RemoveElement
        <5>2. /\ IsFiniteSet((serving \ {r}) \union {x})
              /\ Cardinality((serving \ {r}) \union {x}) <= Cardinality(serving \ {r}) + 1
          BY <5>1, OneMore
        <5>3. /\ IsFiniteSet(serving') /\ Cardinality(serving') <= Cardinality((serving \ {r}) \union {x})
              /\ Cardinality((serving \ {r}) \union {x}) \in Nat /\ Cardinality(serving') \in Nat
          BY <4>1, <5>2, FS_Subset, FS_CardinalityType
        <5> QED BY <2>0, <5>1, <5>2, <5>3
      <4>3. Sent' = iteration /\ Sent' \in Nat
        BY <2>0, <3>5, <3>6 DEF Sent
      <4>4. \A y \in serving' : y \in serving \/ \E of \in Lost' : y.who = <<of>>
        BY <3>5, <3>6, <4>1
      <4>5. Cardinality(serving') + (Sent + others) <= Cardinality(serving) + (Sent' + others')
        BY <2>0, <3>2, <4>2, <4>3
      <4> QED BY <2>0, <3>2, <3>5, <4>1, <4>2, <4>3, <4>4, <4>5, LinesStay
    <3> QED BY <1>0, <1>3, <2>0, <3>2, <3>5, <3>6 DEF ReleaseInv
  <2>6. CASE AgenticBreaks
    <3>1. others' = others
      BY <2>6 DEF AgenticBreaks, Abandon, Drop, serverVars
    <3> QED BY <2>2, <2>6, <3>1 DEF AgenticBreaks, agenticVars, End
  <2>7. CASE AgenticRelease \/ AgenticNoRelease
    <3>1. PICK status, release : /\ Conclude(status, release)
                                 /\ release \in Tags \union {Null} /\ MayHave(Len(releases) + 1, release)
                                 /\ (release = Null /\ previous' = previous) \/ previous' = previous + 1
      <4>1. CASE AgenticRelease
        BY <2>0, <4>1, NewestFits DEF AgenticRelease
      <4>2. CASE AgenticNoRelease
        BY <4>2 DEF AgenticNoRelease, MayHave
      <4> QED BY <2>7, <4>1, <4>2
    <3>2. pc = "release" /\ UNCHANGED <<serving, log, late, others>> /\ Sent = iteration
      BY <2>7 DEF AgenticRelease, AgenticNoRelease, Runs, serverVars, Sent
    <3>3. /\ iteration' \in Nat \ {0} /\ iteration <= iteration' /\ releases' \in Seq(Tags \union {Null})
          /\ Lost \subseteq Lost' /\ ReleasesLagByTheLost'
          /\ pc' # "ended" => pc' = "start" /\ iteration' = iteration + 1 /\ RowsInv'
      BY <2>0, <3>1, <3>2, RowsStep
    <3>4. ASSUME pc' # "ended"
          PROVE  LogInv'
      <4>1. Sent' = Sent /\ Sent' \in Nat
        BY <2>0, <3>2, <3>3, <3>4 DEF Sent
      <4>2. Cardinality(serving') + (Sent + others) <= Cardinality(serving) + (Sent' + others')
        BY <2>0, <3>2, <4>1
      <4> QED BY <2>0, <3>2, <3>3, <4>1, <4>2, LinesStay
    <3> QED BY <1>0, <1>3, <2>0, <3>2, <3>3, <3>4 DEF ReleaseInv
  <2>8. CASE ServerNext /\ UNCHANGED <<stepVars, agenticVars>>
    <3>0. UNCHANGED <<pc, iteration, previous, releases>> /\ Sent' = Sent /\ Lost' = Lost
      BY <2>8 DEF stepVars, agenticVars, Sent, Lost
    <3>1. CASE EndsUnheard
      <4>1. PICK r \in serving : ~r.heard /\ (Finish(r) \/ Drop(r))
        BY <3>1 DEF EndsUnheard
      <4>2. UNCHANGED <<others, log>> /\ (late' = Append(late, r.who) \/ late' = late) /\ serving' = serving \ {r}
        BY <4>1 DEF Finish, Drop
      <4>3. Foreign(r.who) \/ \E of \in 1..iteration : r.who = <<of>> /\ of \in Lost
        <5>1. Lost \subseteq 1..iteration
          BY <2>0 DEF Lost, RowsInv
        <5> QED BY <2>0, <4>1, <5>1 DEF LogInv
      <4>4. LogInv'
        BY <2>0, <3>0, <4>1, <4>2, <4>3, LineComes
      <4> QED BY <2>0, <2>1, <3>0, <4>2, <4>4
    <3>2. CASE OtherArrives
      <4>1. others' = others + 1 /\ others' \in Nat /\ UNCHANGED <<log, late>>
        BY <2>0, <3>2 DEF OtherArrives
      <4>2. PICK x \in Requests : x.who = <<others', 0>> /\ serving' = serving \union {x}
        <5>1. <<others', 0>> \in Tags
          BY <4>1 DEF Tags
        <5> QED BY <3>2, <5>1 DEF OtherArrives, Requests
      <4>3. IsFiniteSet(serving') /\ Cardinality(serving') \in Nat /\ Cardinality(serving') <= Cardinality(serving) + 1
        BY <2>0, <4>2, OneMore
      <4>4. serving' \subseteq Requests /\ \A y \in serving' : y \in serving \/ Foreign(y.who)'
        <5>1. others' \in 0..others'
          BY <4>1
        <5> QED BY <2>0, <4>2, <5>1 DEF Foreign
      <4>5. Cardinality(serving') + (Sent + others) <= Cardinality(serving) + (Sent' + others')
        BY <2>0, <3>0, <4>1, <4>3
      <4>6. LogInv'
        BY <2>0, <3>0, <4>1, <4>3, <4>4, <4>5, LinesStay
      <4> QED BY <2>0, <2>1, <3>0, <4>1, <4>6
    <3>3. CASE Restart
      <4>1. serving' = {} /\ UNCHANGED <<others, log, late>>
        BY <3>3 DEF Restart
      <4>2. IsFiniteSet(serving') /\ Cardinality(serving') = 0
        BY <4>1, FS_EmptySet
      <4>3. Cardinality(serving') + (Sent + others) <= Cardinality(serving) + (Sent' + others')
        BY <2>0, <3>0, <4>1, <4>2
      <4>4. LogInv'
        BY <2>0, <3>0, <4>1, <4>2, <4>3, LinesStay
      <4> QED BY <2>0, <2>1, <3>0, <4>1, <4>4
    <3>4. CASE WritesLog
      <4>1. LogInv' /\ others' = others
        BY <2>0, <3>0, <3>4, LineIsWritten DEF WritesLog
      <4> QED BY <2>0, <2>1, <3>0, <4>1
    <3> QED BY <1>3, <2>8, <3>1, <3>2, <3>3, <3>4 DEF ServerNext, Generates
  <2>9. CASE UNCHANGED vars
    <3>1. UNCHANGED <<pc, iteration, previous, releases, others, log, late, serving>>
      BY <2>9 DEF vars, stepVars, agenticVars, serverVars
    <3>2. LogInv'
      BY <2>0, <3>1 DEF LogInv, Placed, Foreign, Lost, Sent
    <3> QED BY <2>0, <2>1, <3>1, <3>2
  <2> QED
    BY <1>3, <2>3, <2>4, <2>5, <2>6, <2>7, <2>8, <2>9
    DEF Next, ClientStep, Environment, PiWorks, Runs, RampStep, RampMain, RampThread, RampWarmup, RampWarmupEnds, RampScrape, RampMeasured,
        RampReport, RampWarmed, RampCollect, RampSend, RampAnswered, RampBreaks, BenchStep, BenchStart, BenchSubmit, BenchExpires,
        BenchAnswered, BenchBreaks, BenchEnds, LadderStep, LadderRead, LadderSend, LadderAnswered, LadderBreaks, JudgeSkips, JudgeLeetcode,
        JudgeProse, AgenticStep, PiStep, PiLaunch, PiPasteFails, PiPaste, PiPoll, PiTimeout
<1> QED BY <1>1, <1>2, <1>3

\* The release line in a row is behind by no more than what was lost before.
THEOREM ReleasesLag == Spec => []ReleasesLagByTheLost
<1>1. ReleaseInv => ReleasesLagByTheLost
  BY DEF ReleaseInv, ReleasesLagByTheLost
<1> QED BY ReleaseInit, ReleaseStep, <1>1, PTL DEF Spec

-----------------------------------------------------------------------------
(* The pi driver and the session file *)

Entry == [role : {"user", "assistant", "tool"}, prompt : Nat, final : BOOLEAN]
Answer == [of : Nat, behind : BOOLEAN]

\* the prompts pi has begun, and those that were pasted
Begun == Cardinality(Entries("user"))
Pasted == IF pc = "poll" THEN prompt ELSE prompt - 1

\* pi begins the prompts in their order, so its last entry belongs to the last
\* one it began; an answer that was taken belongs to one begun before the
\* prompts that are pasted after it.
QueueInv ==
  /\ prompt \in Nat \ {0} /\ entries \in Seq(Entry) /\ turn \in {0, Begun}
  /\ pasted \in Seq(Nat) /\ Begun + Len(pasted) = Pasted
  /\ \A k \in 1..Len(pasted) : pasted[k] = Begun + k
  /\ turn # 0 => entries # <<>>
  /\ entries # <<>> => entries[Len(entries)].prompt = Begun

TakenInv ==
  /\ Len(answers) = prompt - 1
  /\ \A j \in DOMAIN answers : answers[j] # Null =>
       answers[j].of <= (IF pc = "poll" THEN seen.user ELSE Begun)
  /\ pc = "poll" => seen.user \in 0..Begun /\ behind \in BOOLEAN /\ (~behind => seen.user = prompt - 1)

SessionInv ==
  /\ client # "pi" => answers = <<>>
  /\ client = "pi" =>
       /\ answers \in Seq(Answer \union {Null})
       /\ pc # "ended" => QueueInv /\ TakenInv
       /\ AnswersComeInOrder

LEMMA UsersAreCounted ==
  ASSUME entries \in Seq(Entry)
  PROVE  Begun \in Nat /\ IsFiniteSet(Entries("user"))
<1>1. Entries("user") \in SUBSET (1..Len(entries))
  BY DEF Entries
<1>2. IsFiniteSet(1..Len(entries))
  BY FS_Interval
<1> QED BY <1>1, <1>2, FS_Subset, FS_CardinalityType DEF Begun

\* An entry counts if it is a user's.
LEMMA EntryComes ==
  ASSUME entries \in Seq(Entry), NEW e \in Entry, entries' = Append(entries, e)
  PROVE  /\ entries' \in Seq(Entry) /\ entries' # <<>> /\ entries'[Len(entries')] = e
         /\ Begun' = (IF e.role = "user" THEN Begun + 1 ELSE Begun) /\ Begun' \in Nat
<1>1. DOMAIN entries = 1..Len(entries) /\ DOMAIN entries' = 1..(Len(entries) + 1) /\ Len(entries) \in Nat
  OBVIOUS
<1>2. entries'[Len(entries) + 1] = e /\ \A i \in DOMAIN entries : entries'[i] = entries[i]
  OBVIOUS
<1>3. CASE e.role = "user"
  <2>1. Entries("user")' = Entries("user") \union {Len(entries) + 1} /\ Len(entries) + 1 \notin Entries("user")
    BY <1>1, <1>2, <1>3 DEF Entries
  <2>2. Begun' = Begun + 1
    BY <2>1, UsersAreCounted, FS_AddElement DEF Begun
  <2> QED BY <1>3, <2>2, UsersAreCounted
<1>4. CASE e.role # "user"
  <2>1. Entries("user")' = Entries("user")
    BY <1>1, <1>2, <1>4 DEF Entries
  <2> QED BY <1>4, <2>1, UsersAreCounted DEF Begun
<1> QED BY <1>3, <1>4, UsersAreCounted

LEMMA SessionInit == Init => SessionInv
<1> SUFFICES ASSUME Init PROVE SessionInv
  OBVIOUS
<1>1. prompt = 1 /\ pasted = <<>> /\ turn = 0 /\ entries = <<>> /\ answers = <<>> /\ (client = "pi" => pc = "start")
  BY DEF Init, PiInit, FirstStep
<1>2. Begun = 0
  BY <1>1, FS_EmptySet DEF Begun, Entries
<1>3. client = "pi" => QueueInv /\ TakenInv
  BY <1>1, <1>2 DEF QueueInv, TakenInv, Pasted, Entry
<1> QED BY <1>1, <1>3 DEF SessionInv, AnswersComeInOrder

\* What is taken next comes after all that was taken before.
LEMMA TakenInOrder ==
  ASSUME AnswersComeInOrder, answers \in Seq(Answer \union {Null}), NEW a \in Answer \union {Null}, answers' = Append(answers, a),
         a # Null => /\ a.of <= Len(answers) + 1
                     /\ ~a.behind => a.of = Len(answers) + 1
                     /\ \A j \in DOMAIN answers : answers[j] # Null => answers[j].of < a.of
  PROVE  AnswersComeInOrder' /\ answers' \in Seq(Answer \union {Null})
<1>1. /\ DOMAIN answers = 1..Len(answers) /\ DOMAIN answers' = 1..(Len(answers) + 1) /\ Len(answers) \in Nat
      /\ answers'[Len(answers) + 1] = a /\ \A i \in DOMAIN answers : answers'[i] = answers[i]
      /\ answers' \in Seq(Answer \union {Null})
  OBVIOUS
<1>2. ASSUME NEW i \in DOMAIN answers, answers'[i] # Null
      PROVE  /\ answers'[i].of <= i /\ (~answers'[i].behind => answers'[i].of = i)
             /\ \A j \in 1..(i - 1) : answers'[j] # Null => answers'[j].of < answers'[i].of
  <2>1. answers'[i] = answers[i] /\ \A j \in 1..(i - 1) : j \in DOMAIN answers /\ answers'[j] = answers[j]
    BY <1>1
  <2> QED BY <1>2, <2>1 DEF AnswersComeInOrder
<1>3. ASSUME a # Null
      PROVE  \A j \in 1..((Len(answers) + 1) - 1) : answers'[j] # Null => answers'[j].of < a.of
  BY <1>1, <1>3
<1>4. ASSUME NEW i \in DOMAIN answers', answers'[i] # Null
      PROVE  /\ answers'[i].of <= i /\ (~answers'[i].behind => answers'[i].of = i)
             /\ \A j \in 1..(i - 1) : answers'[j] # Null => answers'[j].of < answers'[i].of
  <2>1. CASE i \in DOMAIN answers
    BY <1>2, <1>4, <2>1
  <2>2. CASE i = Len(answers) + 1
    BY <1>1, <1>3, <1>4, <2>2
  <2> QED BY <1>1, <2>1, <2>2
<1> QED BY <1>1, <1>4 DEF AnswersComeInOrder

LEMMA SessionStep == SessionInv /\ [Next]_vars => SessionInv'
<1> SUFFICES ASSUME SessionInv, [Next]_vars PROVE SessionInv'
  OBVIOUS
<1>0. client' = client
  BY ClientStays
<1>1. CASE client # "pi"
  <2>1. answers' = answers
    BY <1>1
    DEF Next, vars, piVars, ClientStep, Environment, PiWorks, PiStep, PiLaunch, PiPasteFails, PiPaste, PiPoll, PiTimeout, Runs
  <2> QED BY <1>0, <1>1, <2>1 DEF SessionInv
<1>2. CASE client = "pi"
  <2>0. answers \in Seq(Answer \union {Null}) /\ AnswersComeInOrder
    BY <1>2 DEF SessionInv
  <2>1. ASSUME pc # "ended"
        PROVE  /\ QueueInv /\ TakenInv /\ prompt \in Nat \ {0} /\ entries \in Seq(Entry) /\ Begun \in Nat
               /\ pasted \in Seq(Nat) /\ Len(pasted) \in Nat /\ turn \in Nat
    BY <1>2, <2>1, UsersAreCounted DEF SessionInv, QueueInv
  <2>2. ASSUME answers' = answers, pc' # "ended" => QueueInv' /\ TakenInv'
        PROVE  SessionInv'
    BY <1>0, <1>2, <2>0, <2>2 DEF SessionInv, AnswersComeInOrder
  <2>3. ASSUME UNCHANGED <<pc, prompt, pasted, turn, entries, behind, seen, answers>>
        PROVE  SessionInv'
    <3>1. Begun' = Begun /\ Pasted' = Pasted
      BY <2>3 DEF Begun, Entries, Pasted
    <3>2. pc # "ended" => QueueInv' /\ TakenInv'
      BY <2>1, <2>3, <3>1 DEF QueueInv, TakenInv
    <3> QED BY <2>2, <2>3, <3>2
  <2>4. CASE PiLaunch \/ PiPasteFails
    <3>1. UNCHANGED <<prompt, pasted, turn, entries, behind, seen, answers>> /\ pc # "ended" /\ pc # "poll" /\ pc' # "poll"
      BY <2>4 DEF PiLaunch, PiPasteFails, Runs, Goto, End, piVars
    <3>2. Begun' = Begun /\ Pasted' = Pasted
      BY <3>1 DEF Begun, Entries, Pasted
    <3>3. QueueInv' /\ TakenInv'
      BY <2>1, <3>1, <3>2 DEF QueueInv, TakenInv
    <3> QED BY <2>2, <3>1, <3>3
  <2>5. CASE PiPaste
    <3>1. /\ pasted' = Append(pasted, prompt) /\ UNCHANGED <<prompt, turn, entries, answers>> /\ pc = "paste" /\ pc' = "poll"
          /\ seen'.user = Begun /\ behind' = (pasted # <<>>)
      BY <2>5 DEF PiPaste, Runs, Goto, Begun
    <3>2. Begun' = Begun /\ Pasted' = prompt /\ Pasted = prompt - 1
      BY <3>1 DEF Begun, Entries, Pasted
    <3>3. Begun + Len(pasted) = prompt - 1
      BY <2>1, <3>1, <3>2 DEF QueueInv
    <3>0. prompt \in Nat \ {0} /\ Begun \in Nat /\ Len(pasted) \in Nat /\ pasted \in Seq(Nat)
      BY <2>1, <3>1
    <3>4. Len(pasted') = Len(pasted) + 1 /\ pasted' \in Seq(Nat) /\ Begun + Len(pasted') = prompt
      <4>1. \A b, l, p \in Int : b + l = p - 1 => b + (l + 1) = p
        OBVIOUS
      <4>2. Len(pasted') = Len(pasted) + 1 /\ pasted' \in Seq(Nat)
        BY <3>0, <3>1
      <4>3. Begun + (Len(pasted) + 1) = prompt
        BY <3>0, <3>3, <4>1
      <4> QED BY <4>2, <4>3
    <3>5. ASSUME NEW k \in 1..Len(pasted')
          PROVE  pasted'[k] = Begun + k
      <4>1. CASE k \in 1..Len(pasted)
        <5>1. pasted'[k] = pasted[k]
          BY <2>1, <3>1, <4>1
        <5> QED BY <2>1, <3>1, <4>1, <5>1 DEF QueueInv
      <4>2. CASE k = Len(pasted) + 1
        <5>1. pasted'[k] = prompt
          BY <3>0, <3>1, <4>2
        <5> QED BY <3>4, <4>2, <5>1
      <4> QED BY <2>1, <3>4, <4>1, <4>2
    <3>6. QueueInv'
      BY <2>1, <3>1, <3>2, <3>4, <3>5 DEF QueueInv
    <3>7. ~behind' => Begun = prompt - 1
      <4>1. ~behind' => pasted = <<>>
        BY <3>1, Zenon
      <4>2. pasted = <<>> => Len(pasted) = 0
        OBVIOUS
      <4>3. Len(pasted) = 0 => Begun = prompt - 1
        BY <3>0, <3>3
      <4> QED BY <4>1, <4>2, <4>3
    <3>8. behind' \in BOOLEAN
      BY <3>1, Zenon
    <3>9. TakenInv'
      <4>1. Len(answers) = prompt - 1 /\ \A j \in DOMAIN answers : answers[j] # Null => answers[j].of <= Begun
        BY <2>1, <3>1 DEF TakenInv
      <4>2. seen'.user \in 0..Begun
        BY <2>1, <3>1
      <4> QED BY <3>1, <3>2, <3>7, <3>8, <4>1, <4>2 DEF TakenInv
    <3> QED BY <2>2, <3>1, <3>6, <3>9
  <2>6. ASSUME pc = "poll", NEW a \in Answer \union {Null}, PiConclude(a), UNCHANGED <<pasted, turn, entries, behind, seen>>,
               a # Null => a.of = Begun /\ a.behind = behind /\ Begun > seen.user
        PROVE  SessionInv'
    <3>1. /\ Len(answers) = prompt - 1 /\ seen.user \in 0..Begun /\ (~behind => seen.user = prompt - 1)
          /\ \A j \in DOMAIN answers : answers[j] # Null => answers[j].of <= seen.user
      BY <2>1, <2>6 DEF TakenInv
    <3>2. Begun + Len(pasted) = prompt
      BY <2>1, <2>6 DEF QueueInv, Pasted
    <3>3. answers' = Append(answers, a)
      BY <2>6 DEF PiConclude
    <3>4. \A j \in DOMAIN answers : answers[j] # Null => answers[j].of \in Nat
      BY <2>0 DEF Answer
    <3>5. a # Null => /\ a.of <= prompt /\ (~a.behind => a.of = prompt)
                      /\ \A j \in DOMAIN answers : answers[j] # Null => answers[j].of < a.of
      BY <2>1, <2>6, <3>1, <3>2, <3>4
    <3>6. AnswersComeInOrder' /\ answers' \in Seq(Answer \union {Null})
      <4>1. Len(answers) + 1 = prompt
        BY <2>1, <2>6, <3>1
      <4> QED BY <2>0, <3>3, <3>5, <4>1, TakenInOrder
    <3>7. ASSUME pc' # "ended"
          PROVE  QueueInv' /\ TakenInv'
      <4>1. pc' = "paste" /\ prompt' = prompt + 1
        BY <2>6, <3>7 DEF PiConclude, NextPrompt, Goto, End
      <4>2. Begun' = Begun /\ Pasted' = Pasted
        BY <2>1, <2>6, <4>1 DEF Begun, Entries, Pasted
      <4>3. QueueInv'
        BY <2>1, <2>6, <4>1, <4>2 DEF QueueInv
      <4>4. Len(answers') = prompt' - 1
        BY <2>0, <2>1, <2>6, <3>1, <3>3, <4>1
      <4>5. ASSUME NEW j \in DOMAIN answers', answers'[j] # Null
            PROVE  answers'[j].of <= Begun
        <5>1. CASE j \in DOMAIN answers
          <6>1. answers'[j] = answers[j]
            BY <2>0, <3>3, <5>1
          <6> QED BY <2>1, <2>6, <3>1, <3>4, <4>5, <5>1, <6>1
        <5>2. CASE j = Len(answers) + 1
          <6>1. answers'[j] = a
            BY <2>0, <3>3, <5>2
          <6> QED BY <2>1, <2>6, <4>5, <6>1
        <5> QED BY <2>0, <3>3, <5>1, <5>2
      <4> QED BY <4>1, <4>2, <4>3, <4>4, <4>5 DEF TakenInv
    <3> QED BY <1>0, <1>2, <3>6, <3>7 DEF SessionInv
  <2>7. CASE PiPoll
    <3>1. pc = "poll" /\ UNCHANGED <<pasted, turn, entries, behind, seen>>
      BY <2>7 DEF PiPoll, Runs
    <3>2. CASE UNCHANGED <<stepVars, prompt, answers>>
      BY <2>3, <3>1, <3>2 DEF stepVars
    <3>3. CASE HasAnswer /\ PiConclude([of |-> entries[Len(entries)].prompt, behind |-> behind])
      <4>1. Begun > seen.user
        BY <3>3 DEF HasAnswer, Begun
      <4>2. seen.user \in Nat /\ behind \in BOOLEAN
        BY <2>1, <3>1 DEF TakenInv
      <4>3. entries # <<>> /\ entries[Len(entries)].prompt = Begun
        <5>1. entries # <<>>
          <6>1. SUFFICES ASSUME entries = <<>> PROVE FALSE
            OBVIOUS
          <6>2. Begun = 0
            BY <6>1, FS_EmptySet DEF Begun, Entries
          <6> QED BY <4>1, <4>2, <6>2
        <5> QED BY <2>1, <3>1, <5>1 DEF QueueInv
      <4>4. [of |-> Begun, behind |-> behind] \in Answer
        BY <2>1, <3>1, <4>2 DEF Answer
      <4> QED BY <2>6, <3>1, <3>3, <4>1, <4>3, <4>4
    <3> QED BY <2>7, <3>2, <3>3 DEF PiPoll
  <2>8. CASE PiTimeout
    <3>1. pc = "poll" /\ UNCHANGED <<pasted, turn, entries, behind, seen>> /\ PiConclude(Null)
      BY <2>8 DEF PiTimeout, Runs
    <3> QED BY <2>6, <3>1
  <2>9. CASE Environment
    <3>1. PiWorks /\ pc # "ended" /\ UNCHANGED <<pc, prompt, behind, seen, answers>>
      BY <1>2, <2>9 DEF Environment, PiWorks, stepVars
    <3>2. ASSUME Begun' \in Nat, Begun <= Begun'
          PROVE  TakenInv'
      <4>1. CASE pc = "poll"
        <5>1. seen.user \in 0..Begun'
          BY <2>1, <3>1, <3>2, <4>1 DEF TakenInv
        <5> QED BY <2>1, <3>1, <4>1, <5>1 DEF TakenInv
      <4>2. CASE pc # "poll"
        <5>1. \A j \in DOMAIN answers : answers[j] # Null => answers[j].of \in Nat /\ answers[j].of <= Begun
          BY <2>0, <2>1, <3>1, <4>2 DEF TakenInv, Answer
        <5>2. \A j \in DOMAIN answers : answers[j] # Null => answers[j].of <= Begun'
          BY <2>1, <3>1, <3>2, <5>1
        <5> QED BY <2>1, <3>1, <4>2, <5>2 DEF TakenInv
      <4> QED BY <4>1, <4>2
    <3>3. CASE PiTakes
      <4>1. /\ turn' = Head(pasted) /\ pasted' = Tail(pasted) /\ pasted # <<>> /\ Head(pasted) = pasted[1] /\ pasted[1] \in Nat
            /\ Len(pasted) \in Nat \ {0} /\ Len(pasted') = Len(pasted) - 1 /\ pasted' \in Seq(Nat)
            /\ \A k \in 1..Len(pasted') : pasted'[k] = pasted[k + 1] /\ k + 1 \in 1..Len(pasted)
        BY <2>1, <3>1, <3>3 DEF PiTakes
      <4>2. PICK e \in Entry : e.role = "user" /\ e.prompt = Head(pasted) /\ entries' = Append(entries, e)
        BY <3>3, <4>1 DEF PiTakes, Writes, Entry
      <4>3. /\ entries' \in Seq(Entry) /\ entries' # <<>> /\ entries'[Len(entries')] = e
            /\ Begun' = Begun + 1 /\ Begun' \in Nat
        BY <2>1, <3>1, <4>2, EntryComes
      <4>4. pasted[1] = Begun + 1
        BY <2>1, <3>1, <4>1 DEF QueueInv
      <4>5. \A k \in 1..Len(pasted') : pasted'[k] = Begun' + k
        <5>1. \A k \in 1..Len(pasted) : pasted[k] = Begun + k
          BY <2>1, <3>1 DEF QueueInv
        <5>2. \A k \in 1..Len(pasted') : pasted'[k] = Begun + (k + 1)
          BY <4>1, <5>1
        <5> QED BY <2>1, <3>1, <4>3, <5>2
      <4>6. Begun' + Len(pasted') = Pasted'
        <5>1. Begun + Len(pasted) = Pasted /\ Pasted' = Pasted
          BY <2>1, <3>1 DEF QueueInv, Pasted
        <5> QED BY <2>1, <3>1, <4>1, <4>3, <5>1
      <4>7. QueueInv'
        BY <2>1, <3>1, <4>1, <4>2, <4>3, <4>4, <4>5, <4>6 DEF QueueInv
      <4>8. Begun <= Begun'
        BY <2>1, <3>1, <4>3
      <4> QED BY <2>2, <3>1, <3>2, <4>3, <4>7, <4>8
    <3>4. CASE PiUsesTool \/ PiReadsTool \/ PiAnswers
      <4>1. turn # 0 /\ turn' \in {0, turn} /\ pasted' = pasted /\ turn = Begun
        BY <2>1, <3>1, <3>4 DEF PiUsesTool, PiReadsTool, PiAnswers, QueueInv
      <4>2. PICK e \in Entry : e.role # "user" /\ e.prompt = turn /\ entries' = Append(entries, e)
        BY <2>1, <3>1, <3>4 DEF PiUsesTool, PiReadsTool, PiAnswers, Writes, Entry
      <4>3. /\ entries' \in Seq(Entry) /\ entries' # <<>> /\ entries'[Len(entries')] = e
            /\ Begun' = Begun /\ Begun' \in Nat
        BY <2>1, <3>1, <4>2, EntryComes
      <4>4. Pasted' = Pasted
        BY <3>1 DEF Pasted
      <4>5. QueueInv'
        BY <2>1, <3>1, <4>1, <4>2, <4>3, <4>4 DEF QueueInv
      <4>6. Begun <= Begun'
        BY <2>1, <3>1, <4>3
      <4> QED BY <2>2, <3>1, <3>2, <4>3, <4>5, <4>6
    <3> QED BY <3>1, <3>3, <3>4 DEF PiWorks
  <2>10. CASE UNCHANGED <<inputVars, stepVars, piVars>>
    BY <2>3, <2>10 DEF stepVars, piVars
  <2> QED
    BY <1>2, <2>4, <2>5, <2>7, <2>8, <2>9, <2>10
    DEF Next, vars, Runs, ClientStep, RampStep, RampMain, RampThread, RampWarmup, RampWarmupEnds, RampScrape, RampMeasured,
        RampReport, RampWarmed, RampCollect, RampSend, RampAnswered, RampBreaks, BenchStep, BenchStart, BenchSubmit, BenchExpires,
        BenchAnswered, BenchBreaks, BenchEnds, LadderStep, LadderRead, LadderSend, LadderAnswered, LadderBreaks, JudgeSkips, JudgeLeetcode,
        JudgeProse, AgenticStep, AgenticSend, AgenticAnswered, AgenticHttpError, AgenticBreaks, AgenticRelease, AgenticNoRelease, PiStep
<1> QED BY <1>1, <1>2

\* The answers taken are of different prompts, in their order.
THEOREM AnswersKeepOrder == Spec => []AnswersComeInOrder
<1>1. SessionInv => AnswersComeInOrder
  BY DEF SessionInv, AnswersComeInOrder
<1> QED BY SessionInit, SessionStep, <1>1, PTL DEF Spec

-----------------------------------------------------------------------------
(* The server's counters *)

Fields == {"generated", "succeeded"}
Counts == [generated : Nat, succeeded : Nat]
Scrapes == [counters : Counts, strays : Counts, epoch : Nat]

CountersOK == counters \in Counts /\ strays \in Counts /\ epoch \in Nat

\* the part of a counter that is the program's own work
Own(field) == counters[field] - strays[field]

\* the same in a scrape
OwnIn(snapshot, field) == snapshot.counters[field] - snapshot.strays[field]

\* A count on behalf of a request is own work if somebody waits for it.
LEMMA CountIsOwn ==
  ASSUME CountersOK, NEW r, NEW field \in Fields, Count(r, field), epoch' = epoch
  PROVE  /\ CountersOK'
         /\ r.heard => Own(field)' = Own(field) + 1 /\ \A f \in Fields \ {field} : Own(f)' = Own(f)
         /\ ~r.heard => \A f \in Fields : Own(f)' = Own(f)
<1>1. CASE r.heard
  BY <1>1 DEF CountersOK, Counts, Fields, Count, Plus, Own
<1>2. CASE ~r.heard
  BY <1>2 DEF CountersOK, Counts, Fields, Count, Plus, Own
<1> QED BY <1>1, <1>2

\* What the server does by itself adds nothing to the program's own work.
LEMMA UnheardIsNotOwn ==
  ASSUME CountersOK, EndsUnheard
  PROVE  CountersOK' /\ epoch' = epoch /\ \A f \in Fields : Own(f)' = Own(f)
<1>1. PICK r \in serving : ~r.heard /\ (Finish(r) \/ Drop(r))
  BY DEF EndsUnheard
<1>2. CASE Finish(r)
  BY <1>1, <1>2, CountIsOwn DEF Finish, Fields
<1>3. CASE Drop(r)
  BY <1>3 DEF Drop, CountersOK, Own
<1> QED BY <1>1, <1>2, <1>3

\* What a thread or a main thread of the ramp does to the server: it counts
\* what is its own, or nothing.
Quiet == UNCHANGED <<counters, strays, epoch>>

LEMMA QuietKeepsOwn ==
  ASSUME CountersOK, Quiet
  PROVE  CountersOK' /\ \A f \in Fields : Own(f)' = Own(f)
  BY DEF CountersOK, Quiet, Own

-----------------------------------------------------------------------------
(* The ramp *)

Futures == [at : {"idle", "send", "wait", "done"}, turn : Nat, try : Nat, ok : BOOLEAN]
Good == {r \in results : r.ok}
Won == {u \in Users : thread[u].at = "done" /\ thread[u].ok}

\* In the measured phase the successes since the first scrape are the good
\* results and those still in a future; nothing is collected twice.
RampInv ==
  client = "ramp" =>
    /\ CountersOK
    /\ thread \in [Users -> Futures]
    /\ results \subseteq [user : Users, turn : Nat, ok : BOOLEAN]
    /\ IsFiniteSet(Good) /\ IsFiniteSet(Won)
    /\ \A r \in results : thread[r.user].at # "idle" => r.turn < thread[r.user].turn
    /\ before # Null => before \in Scrapes /\ before.epoch <= epoch
    /\ after # Null => after \in Scrapes
    /\ pc = "measure" /\ before # Null /\ before.epoch = epoch =>
         Own("succeeded") - OwnIn(before, "succeeded") = Cardinality(Good) + Cardinality(Won)
    /\ pc = "report" /\ before # Null /\ after # Null /\ before.epoch = after.epoch =>
         OwnIn(after, "succeeded") - OwnIn(before, "succeeded") = Cardinality(Good)

LEMMA RampInvInit == Init => RampInv
<1> SUFFICES ASSUME Init PROVE RampInv
  OBVIOUS
<1>1. Good = {} /\ Won = {}
  BY DEF Init, RampInit, Good, Won, Idle
<1> QED BY <1>1, FS_EmptySet DEF Init, ServerInit, Zero, RampInit, FirstStep, RampInv, CountersOK, Counts, Futures, Idle

\* A thread that sends or waits goes on, or has its result.
LEMMA ThreadGoesOn ==
  ASSUME thread \in [Users -> Futures], NEW u \in Users, thread[u].at \in {"send", "wait"},
         NEW f \in Futures, f.turn = thread[u].turn, Set(u, f)
  PROVE  /\ thread' \in [Users -> Futures]
         /\ \A v \in Users : thread'[v].turn = thread[v].turn /\ (thread'[v].at # "idle" => thread[v].at # "idle")
         /\ IF f.at = "done" /\ f.ok THEN Won' = Won \union {u} /\ u \notin Won ELSE Won' = Won
<1>1. thread' = [thread EXCEPT ![u] = f]
  BY DEF Set
<1>2. /\ thread' \in [Users -> Futures]
      /\ \A v \in Users : thread'[v].turn = thread[v].turn /\ (thread'[v].at # "idle" => thread[v].at # "idle")
  BY <1>1
<1>3. CASE f.at = "done" /\ f.ok
  BY <1>1, <1>2, <1>3 DEF Won
<1>4. CASE ~(f.at = "done" /\ f.ok)
  BY <1>1, <1>2, <1>4 DEF Won
<1> QED BY <1>2, <1>3, <1>4

\* an unanswered try
LEMMA RetriesGoOn ==
  ASSUME thread \in [Users -> Futures], NEW u \in Users, thread[u].at \in {"send", "wait"},
         Retries(u) \/ Done(u, FALSE)
  PROVE  \E f \in Futures : f.turn = thread[u].turn /\ ~(f.at = "done" /\ f.ok) /\ Set(u, f)
<1>1. CASE Done(u, FALSE)
  BY <1>1 DEF Done, Futures
<1>2. CASE Set(u, [thread[u] EXCEPT !.at = "send", !.try = 2])
  BY <1>2 DEF Futures
<1> QED BY <1>1, <1>2 DEF Retries

\* A thread's step: one more success of its own, or none.
LEMMA RampThreadStep ==
  ASSUME RampInv, client = "ramp", client' = "ramp", NEW u \in Users, RampThread(u),
         pc' = pc, UNCHANGED <<results, before, after>>
  PROVE  RampInv'
<1>0. /\ CountersOK /\ thread \in [Users -> Futures] /\ IsFiniteSet(Won)
      /\ Good' = Good
  BY DEF RampInv, Good
<1>1. CASE RampAnswered(u)
  <2>1. PICK r \in serving : r.heard /\ Finish(r)
    BY <1>1 DEF RampAnswered, Waiting
  <2>2. CountersOK' /\ Own("succeeded")' = Own("succeeded") + 1 /\ epoch' = epoch
    BY <1>0, <2>1, CountIsOwn DEF Finish, Fields
  <2>3. PICK f \in Futures : f.turn = thread[u].turn /\ f.at = "done" /\ f.ok /\ Set(u, f) /\ thread[u].at = "wait"
    BY <1>0, <1>1 DEF RampAnswered, Done, Futures
  <2>4. /\ thread' \in [Users -> Futures]
        /\ \A v \in Users : thread'[v].turn = thread[v].turn /\ (thread'[v].at # "idle" => thread[v].at # "idle")
        /\ Won' = Won \union {u} /\ u \notin Won
    BY <1>0, <2>3, ThreadGoesOn
  <2>5. IsFiniteSet(Won') /\ Cardinality(Won') = Cardinality(Won) + 1 /\ Cardinality(Won) \in Nat
    BY <1>0, <2>4, FS_AddElement, FS_CardinalityType
  <2>6. Cardinality(Good) \in Nat
    BY FS_CardinalityType DEF RampInv
  <2>7. Own("succeeded") \in Int /\ (before # Null => OwnIn(before, "succeeded") \in Int)
    BY <1>0 DEF RampInv, CountersOK, Counts, Scrapes, Own, OwnIn
  <2>8. pc = "measure" /\ before # Null /\ before.epoch = epoch =>
          Own("succeeded")' - OwnIn(before, "succeeded") = Cardinality(Good) + Cardinality(Won')
    <3> SUFFICES ASSUME pc = "measure", before # Null, before.epoch = epoch
                 PROVE  Own("succeeded")' - OwnIn(before, "succeeded") = Cardinality(Good) + Cardinality(Won')
      OBVIOUS
    <3>1. Own("succeeded") - OwnIn(before, "succeeded") = Cardinality(Good) + Cardinality(Won)
      BY DEF RampInv
    <3> QED BY <2>2, <2>5, <2>6, <2>7, <3>1
  <2>9. \A x \in results' : thread'[x.user].at # "idle" => x.turn < thread'[x.user].turn
    BY <2>4 DEF RampInv
  <2> QED BY <1>0, <2>2, <2>4, <2>5, <2>8, <2>9 DEF RampInv, OwnIn
<1>2. CASE RampSend(u) \/ RampBreaks(u)
  <2>1. Quiet
    BY <1>2 DEF RampSend, RampBreaks, Accept, Abandon, Drop, serverVars, Quiet
  <2>2. CountersOK' /\ Own("succeeded")' = Own("succeeded") /\ epoch' = epoch
    BY <1>0, <2>1, QuietKeepsOwn DEF Quiet, Fields
  <2>3. \E f \in Futures : f.turn = thread[u].turn /\ ~(f.at = "done" /\ f.ok) /\ Set(u, f)
    <3>1. thread[u].at \in {"send", "wait"}
      BY <1>2 DEF RampSend, RampBreaks
    <3>2. CASE Set(u, [thread[u] EXCEPT !.at = "wait"])
      BY <1>0, <3>2 DEF Futures
    <3>3. CASE Retries(u) \/ Done(u, FALSE)
      BY <1>0, <3>1, <3>3, RetriesGoOn
    <3> QED BY <1>2, <3>2, <3>3 DEF RampSend, RampBreaks
  <2>4. /\ thread' \in [Users -> Futures] /\ Won' = Won
        /\ \A v \in Users : thread'[v].turn = thread[v].turn /\ (thread'[v].at # "idle" => thread[v].at # "idle")
    <3>1. thread[u].at \in {"send", "wait"}
      BY <1>2 DEF RampSend, RampBreaks
    <3> QED BY <1>0, <2>3, <3>1, ThreadGoesOn
  <2> QED BY <1>0, <2>2, <2>4 DEF RampInv, OwnIn
<1> QED BY <1>1, <1>2 DEF RampThread

\* a collected thread goes idle or gets its user's next turn
LEMMA IdleOrFuture ==
  ASSUME thread \in [Users -> Futures], NEW u \in Users, Set(u, Future(thread[u].turn + 1)) \/ Set(u, Idle)
  PROVE  \E f \in Futures : /\ thread' = [thread EXCEPT ![u] = f] /\ f.at # "done"
                            /\ f.at # "idle" => f.turn = thread[u].turn + 1
<1>1. Idle \in Futures /\ Idle.at = "idle"
  BY DEF Idle, Futures
<1>2. Future(thread[u].turn + 1) \in Futures /\ Future(thread[u].turn + 1).at = "send"
      /\ Future(thread[u].turn + 1).turn = thread[u].turn + 1
  BY DEF Future, Futures
<1> QED BY <1>1, <1>2 DEF Set

\* A good result is collected once: from the futures to the results.
LEMMA RampCollectStep ==
  ASSUME RampInv, client = "ramp", client' = "ramp", NEW u \in Users, RampCollect(u)
  PROVE  RampInv'
<1>0. /\ CountersOK /\ thread \in [Users -> Futures] /\ pc = "measure" /\ pc' = "measure" /\ thread[u].at = "done"
      /\ results' = results \union {Result(u)} /\ UNCHANGED <<counters, strays, epoch, before, after>>
      /\ IsFiniteSet(Good) /\ IsFiniteSet(Won)
  BY DEF RampCollect, RampInv, Runs, stepVars, serverVars
<1>1. CountersOK' /\ Own("succeeded")' = Own("succeeded")
  BY <1>0 DEF CountersOK, Own
<1>2. PICK f \in Futures : /\ thread' = [thread EXCEPT ![u] = f] /\ f.at # "done"
                           /\ f.at # "idle" => f.turn = thread[u].turn + 1
  BY <1>0, IdleOrFuture DEF RampCollect
<1>3. thread' \in [Users -> Futures] /\ Won' = Won \ {u}
  BY <1>0, <1>2 DEF Won
<1>4. Result(u) \in [user : Users, turn : Nat, ok : BOOLEAN] /\ Result(u).ok = thread[u].ok
  BY <1>0 DEF Result, Futures
<1>5. Result(u) \notin results
  BY <1>0 DEF Result, RampInv, Futures
<1>6. Cardinality(Good') + Cardinality(Won') = Cardinality(Good) + Cardinality(Won) /\ IsFiniteSet(Good') /\ IsFiniteSet(Won')
  <2>1. CASE thread[u].ok
    <3>1. Good' = Good \union {Result(u)} /\ Result(u) \notin Good /\ u \in Won
      BY <1>0, <1>4, <1>5, <2>1 DEF Good, Won
    <3>2. IsFiniteSet(Good') /\ Cardinality(Good') = Cardinality(Good) + 1 /\ Cardinality(Good) \in Nat
      BY <1>0, <3>1, FS_AddElement, FS_CardinalityType
    <3>3. IsFiniteSet(Won') /\ Cardinality(Won') = Cardinality(Won) - 1 /\ Cardinality(Won) \in Nat
      BY <1>0, <1>3, <3>1, FS_RemoveElement, FS_CardinalityType
    <3> QED BY <3>2, <3>3
  <2>2. CASE ~thread[u].ok
    <3>1. Good' = Good /\ u \notin Won
      BY <1>0, <1>4, <2>2 DEF Good, Won
    <3> QED BY <1>0, <1>3, <3>1
  <2> QED BY <2>1, <2>2
<1>7. results' \subseteq [user : Users, turn : Nat, ok : BOOLEAN]
  BY <1>0, <1>4 DEF RampInv
<1>8. \A r \in results' : thread'[r.user].at # "idle" => r.turn < thread'[r.user].turn
  <2> SUFFICES ASSUME NEW r \in results', thread'[r.user].at # "idle"
               PROVE  r.turn < thread'[r.user].turn
    OBVIOUS
  <2>1. CASE r = Result(u)
    BY <1>0, <1>2, <2>1 DEF Result, Futures
  <2>2. CASE r \in results /\ r.user = u
    BY <1>0, <1>2, <2>2 DEF RampInv, Futures
  <2>3. CASE r \in results /\ r.user # u
    BY <1>0, <1>2, <2>3 DEF RampInv
  <2> QED BY <1>0, <2>1, <2>2, <2>3
<1> QED BY <1>0, <1>1, <1>3, <1>6, <1>7, <1>8 DEF RampInv, OwnIn

LEMMA RampMainStep ==
  ASSUME RampInv, client = "ramp", client' = "ramp", RampMain
  PROVE  RampInv'
<1>0. CountersOK /\ thread \in [Users -> Futures]
  BY DEF RampInv
<1>1. UNCHANGED <<counters, strays, epoch>> /\ CountersOK' /\ Own("succeeded")' = Own("succeeded")
  BY <1>0 DEF RampMain, RampWarmup, RampWarmupEnds, RampScrape, RampMeasured, RampReport, RampWarmed, RampCollect, serverVars, CountersOK, Own
<1> USE DEF Runs, Goto, End, stepVars
<1>2. ASSUME NEW n \in Nat, Submits(n)
      PROVE  thread' \in [Users -> Futures] /\ Won' = {} /\ results' = {} /\ Good' = {}
  BY <1>2 DEF Submits, Future, Idle, Futures, Won, Good
<1>3. CASE RampWarmup
  BY <1>0, <1>1, <1>2, <1>3, FS_EmptySet DEF RampWarmup, RampInv, Good, Won
<1>4. CASE RampWarmupEnds
  BY <1>0, <1>1, <1>4 DEF RampWarmupEnds, RampInv, Good, Won, rampVars
<1>5. CASE RampScrape
  <2>1. thread' \in [Users -> Futures] /\ Won' = {} /\ results' = {} /\ Good' = {}
    BY <1>2, <1>5, RampConstants DEF RampScrape
  <2>2. before' = Null \/ before' = Snapshot
    BY <1>5 DEF RampScrape
  <2>3. Snapshot \in Scrapes /\ Snapshot.epoch = epoch /\ OwnIn(Snapshot, "succeeded") = Own("succeeded") /\ Own("succeeded") \in Int
    BY <1>0 DEF Snapshot, Scrapes, CountersOK, Counts, Own, OwnIn
  <2>4. before' # Null /\ before'.epoch = epoch' =>
          Own("succeeded")' - OwnIn(before, "succeeded")' = 0
    BY <1>1, <2>2, <2>3 DEF OwnIn
  <2>5. after' = Null /\ pc' = "measure"
    BY <1>5 DEF RampScrape
  <2>6. before' # Null => before' \in Scrapes /\ before'.epoch <= epoch'
    BY <1>0, <1>1, <2>2, <2>3 DEF CountersOK
  <2> QED BY <1>1, <2>1, <2>4, <2>5, <2>6, FS_EmptySet DEF RampInv
<1>6. CASE RampMeasured
  <2>1. after' = Null \/ after' = Snapshot
    BY <1>6 DEF RampMeasured
  <2>2. Snapshot \in Scrapes /\ Snapshot.epoch = epoch /\ OwnIn(Snapshot, "succeeded") = Own("succeeded")
    BY <1>0 DEF Snapshot, Scrapes, CountersOK, Counts, Own, OwnIn
  <2>3. Won = {} /\ Won' = {} /\ Good' = Good /\ Cardinality(Good) \in Nat /\ Cardinality(Won) = 0
    BY <1>6, FS_EmptySet, FS_CardinalityType DEF RampMeasured, Won, Good, RampInv
  <2>4. before # Null /\ before.epoch = epoch => Own("succeeded") - OwnIn(before, "succeeded") = Cardinality(Good)
    BY <1>6, <2>3 DEF RampMeasured, RampInv
  <2>5. pc' = "report" /\ UNCHANGED <<thread, results, before>>
    BY <1>6 DEF RampMeasured
  <2>6. after' # Null => after' \in Scrapes
    BY <2>1, <2>2
  <2>7. before' # Null /\ after' # Null /\ before'.epoch = after'.epoch =>
          OwnIn(after, "succeeded")' - OwnIn(before, "succeeded")' = Cardinality(Good)
    BY <2>1, <2>2, <2>4, <2>5 DEF OwnIn
  <2> QED BY <1>0, <1>1, <2>3, <2>5, <2>6, <2>7 DEF RampInv
<1>7. CASE RampReport
  BY <1>0, <1>1, <1>7, FS_EmptySet DEF RampReport, RampInv, Good, Won
<1>8. ASSUME NEW u \in Users, RampWarmed(u)
      PROVE  RampInv'
  <2>1. PICK f \in Futures : /\ thread' = [thread EXCEPT ![u] = f] /\ f.at # "done"
                             /\ f.at # "idle" => f.turn = thread[u].turn + 1
    BY <1>0, <1>8, IdleOrFuture DEF RampWarmed
  <2>2. /\ pc = "warmup" /\ pc' = "warmup" /\ thread[u].at = "done"
        /\ UNCHANGED <<results, before, after>> /\ Good' = Good
    BY <1>8 DEF RampWarmed, Good
  <2>3. thread' \in [Users -> Futures] /\ Won' \in SUBSET Won
    BY <1>0, <2>1 DEF Won
  <2>4. \A r \in results' : thread'[r.user].at # "idle" => r.turn < thread'[r.user].turn
    BY <1>0, <2>1, <2>2 DEF RampInv, Futures
  <2> QED BY <1>0, <1>1, <2>2, <2>3, <2>4, FS_Subset DEF RampInv
<1> QED BY <1>3, <1>4, <1>5, <1>6, <1>7, <1>8, RampCollectStep DEF RampMain

LEMMA RampInvStep == RampInv /\ [Next]_vars => RampInv'
<1> SUFFICES ASSUME RampInv, [Next]_vars, client = "ramp" PROVE RampInv'
  BY ClientStays DEF RampInv
<1>0. client' = "ramp" /\ CountersOK
  BY ClientStays DEF RampInv
<1>1. CASE RampStep
  <2>1. CASE RampMain
    BY <1>0, <2>1, RampMainStep
  <2>2. ASSUME NEW u \in Users, RampThread(u)
        PROVE  RampInv'
    <3>1. pc' = pc /\ UNCHANGED <<results, before, after>>
      BY <2>2 DEF RampThread, RampSend, RampAnswered, RampBreaks, stepVars
    <3> QED BY <1>0, <2>2, <3>1, RampThreadStep
  <2> QED BY <1>1, <2>1, <2>2 DEF RampStep
<1>2. CASE ServerNext /\ UNCHANGED <<inputVars, stepVars, rampVars>>
  <2>1. Good' = Good /\ Won' = Won
    BY <1>2 DEF rampVars, Good, Won
  <2>2. CASE Restart
    BY <1>0, <1>2, <2>1, <2>2 DEF Restart, Zero, RampInv, CountersOK, Counts, Scrapes, stepVars, rampVars, OwnIn
  <2>3. CASE ~Restart
    <3>1. CountersOK' /\ epoch' = epoch /\ Own("succeeded")' = Own("succeeded")
      BY <1>0, <1>2, <2>3, UnheardIsNotOwn, QuietKeepsOwn DEF ServerNext, Generates, OtherArrives, WritesLog, Quiet, Fields
    <3> QED BY <1>0, <1>2, <2>1, <3>1 DEF RampInv, stepVars, rampVars, OwnIn
  <2> QED BY <2>2, <2>3
<1>3. CASE UNCHANGED <<inputVars, stepVars, serverVars, rampVars>>
  BY <1>0, <1>3 DEF RampInv, CountersOK, Own, OwnIn, Good, Won, stepVars, serverVars, rampVars
<1> QED
  BY <1>1, <1>2, <1>3
  DEF Next, vars, ClientStep, Environment, BenchStep, BenchStart, BenchSubmit, BenchExpires, BenchAnswered, BenchBreaks, BenchEnds,
      LadderStep, LadderRead, LadderSend, LadderAnswered, LadderBreaks, JudgeSkips, JudgeLeetcode, JudgeProse,
      AgenticStep, AgenticSend, AgenticAnswered, AgenticHttpError, AgenticBreaks, AgenticRelease, AgenticNoRelease,
      PiStep, PiLaunch, PiPasteFails, PiPaste, PiPoll, PiTimeout, PiWorks, Runs

-----------------------------------------------------------------------------
(* The ladder *)

RequestsOK ==
  \A r \in serving : /\ r = [who |-> r.who, tokens |-> r.tokens, heard |-> r.heard]
                     /\ r.tokens \in Nat /\ r.heard \in BOOLEAN
Heard == {r \in serving : r.heard}

\* a record that may be trusted
Trusted(r) ==
  r.skip = Null /\ r.sameServer => r.straySuccess = 0 /\ r.generated = r.tokens + r.strayTokens

\* the program's own work since the round's first snapshot, on the same server
OwnSince(field) == Own(field) - OwnIn(start, field)

\* At most one request is waited for, and between the snapshots all own work is
\* that request's.
LadderInv ==
  client = "ladder" =>
    /\ CountersOK
    /\ tokens \in Nat
    /\ RequestsOK
    /\ pc # "answer" => Heard = {}
    /\ pc \in {"request", "answer", "end_gate", "judge"} => start \in Scrapes /\ start.epoch <= epoch
    /\ pc = "request" /\ start.epoch = epoch => OwnSince("succeeded") = 0 /\ OwnSince("generated") = 0
    /\ pc = "answer" =>
         \/ Heard = {} /\ start.epoch # epoch
         \/ \E r : /\ Heard = {r} /\ r.who = LadderTag
                   /\ start.epoch = epoch => OwnSince("succeeded") = 0 /\ OwnSince("generated") = r.tokens
    /\ pc \in {"end_gate", "judge"} /\ start.epoch = epoch =>
         OwnSince("succeeded") = 1 /\ OwnSince("generated") = tokens
    /\ record # Null => Trusted(record)
    /\ best # Null => Trusted(best)

LEMMA LadderInvInit == Init => LadderInv
  BY DEF Init, ServerInit, Zero, LadderInit, FirstStep, LadderInv, CountersOK, Counts, RequestsOK, Heard

\* A request nobody waits for any more is dropped or goes on unheard.
LEMMA AbandonedIsUnheard ==
  ASSUME CountersOK, RequestsOK, NEW r \in serving, Abandon(r)
  PROVE  Quiet /\ RequestsOK' /\ Heard' = Heard \ {r}
<1>1. CASE Drop(r)
  BY <1>1 DEF Drop, Quiet, RequestsOK, Heard
<1>2. CASE serving' = (serving \ {r}) \union {[r EXCEPT !.heard = FALSE]} /\ UNCHANGED <<counters, strays, epoch, others, late, log>>
  <2>1. PICK s : s = [r EXCEPT !.heard = FALSE]
    OBVIOUS
  <2>2. s = [who |-> s.who, tokens |-> s.tokens, heard |-> s.heard] /\ s.tokens \in Nat /\ s.heard = FALSE
    BY <2>1 DEF RequestsOK
  <2> QED BY <1>2, <2>1, <2>2 DEF Quiet, RequestsOK, Heard
<1> QED BY <1>1, <1>2 DEF Abandon

\* A trusted record ends a round.
LEMMA EmitStep ==
  ASSUME LadderInv, client = "ladder", CountersOK', RequestsOK', Heard' = {}, NEW r, Trusted(r), Emit(r)
  PROVE  LadderInv'
  BY DEF Emit, NextRound, Settle, Goto, End, LadderInv, Trusted

LEMMA LadderReadStep ==
  ASSUME LadderInv, client = "ladder", LadderRead
  PROVE  LadderInv'
<1>0. /\ Quiet /\ CountersOK' /\ \A f \in Fields : Own(f)' = Own(f)
      /\ UNCHANGED <<serving, tokens, best, record>> /\ Heard' = Heard /\ RequestsOK'
      /\ pc \in {"start_gate", "end_gate"}
  BY QuietKeepsOwn DEF LadderRead, LadderInv, serverVars, Quiet, RequestsOK, Heard
<1>1. CASE UNCHANGED start /\ (End("raised") \/ UNCHANGED stepVars \/ (pc = "end_gate" /\ Settle("judge")))
  BY <1>0, <1>1 DEF LadderInv, End, Settle, Goto, stepVars, OwnSince, OwnIn, Fields, Quiet
<1>2. CASE start' = Snapshot /\ Settle("request")
  <2>1. Snapshot \in Scrapes /\ Snapshot.epoch = epoch /\ epoch <= epoch
        /\ \A f \in Fields : OwnIn(Snapshot, f) = Own(f) /\ Own(f) \in Int
    BY DEF LadderInv, CountersOK, Counts, Scrapes, Snapshot, Fields, Own, OwnIn
  <2> QED BY <1>0, <1>2, <2>1 DEF LadderInv, Settle, Goto, OwnSince, OwnIn, Fields, Quiet
<1> QED BY <1>1, <1>2 DEF LadderRead

LEMMA LadderSendStep ==
  ASSUME LadderInv, client = "ladder", LadderSend
  PROVE  LadderInv'
<1> DEFINE new == [who |-> LadderTag, tokens |-> 0, heard |-> TRUE]
<1>1. Quiet /\ CountersOK' /\ \A f \in Fields : Own(f)' = Own(f)
  BY QuietKeepsOwn DEF LadderSend, Accept, LadderInv, Quiet
<1>2. serving' = serving \union {new}
  BY DEF LadderSend, Accept
<1>3. Heard' = {new} /\ RequestsOK'
  <2>1. Heard = {} /\ RequestsOK
    BY DEF LadderSend, Runs, LadderInv
  <2>2. new.heard = TRUE /\ new.tokens \in Nat /\ new = [who |-> new.who, tokens |-> new.tokens, heard |-> new.heard]
    OBVIOUS
  <2> HIDE DEF new
  <2>3. Heard' = {new}
    BY <1>2, <2>1, <2>2 DEF Heard
  <2>4. RequestsOK'
    BY <1>2, <2>1, <2>2 DEF RequestsOK
  <2> QED BY <2>3, <2>4
<1>4. new.tokens = 0 /\ new.who = LadderTag
  OBVIOUS
<1>5. LadderTag' = LadderTag
  BY DEF LadderSend, LadderTag, ladderVars
<1> QED BY <1>1, <1>3, <1>4, <1>5 DEF LadderSend, Runs, Goto, ladderVars, LadderInv, OwnSince, OwnIn, Fields, Quiet

LEMMA LadderAnsweredStep ==
  ASSUME LadderInv, client = "ladder", LadderAnswered
  PROVE  LadderInv'
<1>1. PICK r \in Heard : Finish(r) /\ tokens' = r.tokens
  BY DEF LadderAnswered, Waiting, Heard
<1>2. pc = "answer" /\ Heard = {r} /\ serving' = serving \ {r} /\ r.tokens \in Nat /\ r.heard
  BY <1>1 DEF LadderAnswered, Runs, LadderInv, Finish, RequestsOK, Heard
<1>3. RequestsOK' /\ Heard' = {}
  BY <1>2 DEF LadderInv, RequestsOK, Heard
<1>4. CountersOK' /\ epoch' = epoch /\ Own("succeeded")' = Own("succeeded") + 1 /\ Own("generated")' = Own("generated")
  BY <1>1, <1>2, CountIsOwn DEF Finish, LadderInv, Fields
<1>5. start.epoch = epoch => OwnSince("succeeded") = 0 /\ OwnSince("generated") = r.tokens
  BY <1>2 DEF LadderInv
<1>6. \A f \in Fields : Own(f) \in Int /\ OwnIn(start, f) \in Int
  BY <1>2 DEF LadderInv, CountersOK, Counts, Scrapes, Fields, Own, OwnIn
<1>7. pc' = "end_gate" /\ UNCHANGED <<start, best, record>>
  BY DEF LadderAnswered, Settle, Goto
<1>8. start.epoch = epoch => OwnSince("succeeded")' = 1 /\ OwnSince("generated")' = tokens'
  BY <1>1, <1>4, <1>5, <1>6, <1>7 DEF OwnSince, OwnIn, Fields
<1> QED BY <1>1, <1>2, <1>3, <1>4, <1>7, <1>8 DEF LadderInv

LEMMA LadderBreaksStep ==
  ASSUME LadderInv, client = "ladder", LadderBreaks
  PROVE  LadderInv'
<1>1. Quiet /\ RequestsOK' /\ Heard' = {}
  <2>1. CASE \E r \in Waiting(LadderTag) : Abandon(r)
    <3>1. PICK r \in Heard : Abandon(r)
      BY <2>1 DEF Waiting, Heard
    <3>2. Heard = {r}
      BY <3>1 DEF LadderBreaks, Runs, LadderInv
    <3> QED BY <3>1, <3>2, AbandonedIsUnheard DEF LadderInv, Heard
  <2>2. CASE Waiting(LadderTag) = {} /\ UNCHANGED serverVars
    <3>1. Heard = {}
      BY <2>2 DEF LadderBreaks, Runs, LadderInv, Waiting, Heard
    <3> QED BY <2>2, <3>1 DEF LadderInv, RequestsOK, Heard, serverVars, Quiet
  <2> QED BY <2>1, <2>2 DEF LadderBreaks
<1>2. CountersOK'
  BY <1>1, QuietKeepsOwn DEF LadderInv
<1>3. Trusted(Skip("request"))
  BY LadderConstants DEF Trusted, Skip
<1> QED BY <1>1, <1>2, <1>3, EmitStep DEF LadderBreaks

\* When exactly one request succeeded between the snapshots, it was the round's.
LEMMA MeasuredIsTrusted ==
  ASSUME LadderInv, client = "ladder", pc = "judge", OneSuccess
  PROVE  Trusted(Measured)
<1>1. /\ start.epoch = epoch => OwnSince("succeeded") = 1 /\ OwnSince("generated") = tokens
      /\ start \in Scrapes /\ CountersOK /\ tokens \in Nat
  BY DEF LadderInv
<1>2. CASE start.epoch = epoch
  <2>0. \A f \in {"succeeded", "generated"} :
          /\ counters[f] \in Int /\ strays[f] \in Int /\ start.counters[f] \in Int /\ start.strays[f] \in Int
          /\ Growth(start, Snapshot, f) = counters[f] - start.counters[f]
          /\ Stray(start, Snapshot, f) = strays[f] - start.strays[f]
          /\ OwnSince(f) = (counters[f] - strays[f]) - (start.counters[f] - start.strays[f])
    BY <1>1 DEF Growth, Stray, Snapshot, OwnSince, Own, OwnIn, Scrapes, CountersOK, Counts
  <2>1. Stray(start, Snapshot, "succeeded") = 0
    <3>1. Growth(start, Snapshot, "succeeded") = 1 /\ OwnSince("succeeded") = 1
      BY <1>1, <1>2 DEF OneSuccess
    <3>2. \A c, d, x, y \in Int : c - d = 1 /\ (c - x) - (d - y) = 1 => x - y = 0
      OBVIOUS
    <3>3. counters["succeeded"] - start.counters["succeeded"] = 1
          /\ (counters["succeeded"] - strays["succeeded"]) - (start.counters["succeeded"] - start.strays["succeeded"]) = 1
      BY <2>0, <3>1
    <3> QED BY <2>0, <3>2, <3>3
  <2>2. Growth(start, Snapshot, "generated") = tokens + Stray(start, Snapshot, "generated")
    BY <1>1, <1>2 DEF Growth, Stray, Snapshot, OwnSince, Own, OwnIn, Scrapes, CountersOK, Counts
  <2> QED BY <2>1, <2>2 DEF Trusted, Measured
<1>3. CASE start.epoch # epoch
  BY <1>3 DEF Trusted, Measured
<1> QED BY <1>2, <1>3

LEMMA LadderJudgeStep ==
  ASSUME LadderInv, client = "ladder", JudgeSkips \/ JudgeLeetcode \/ JudgeProse
  PROVE  LadderInv'
<1>1. /\ Quiet /\ serving' = serving /\ CountersOK' /\ RequestsOK' /\ Heard' = {} /\ pc = "judge"
  BY QuietKeepsOwn DEF JudgeSkips, JudgeLeetcode, JudgeProse, Runs, serverVars, Quiet, LadderInv, RequestsOK, Heard
<1>2. CASE JudgeSkips
  BY <1>1, <1>2, EmitStep, LadderConstants DEF JudgeSkips, Trusted, Skip
<1>3. CASE JudgeLeetcode
  BY <1>1, <1>3, EmitStep, MeasuredIsTrusted DEF JudgeLeetcode
<1>4. CASE JudgeProse
  <2>1. Longest # Null => Trusted(Longest)
    BY <1>1, <1>4, MeasuredIsTrusted DEF Longest, JudgeProse, LadderInv
  <2>2. CASE UNCHANGED <<level, prose, record, start, tokens>> /\ best' = Longest /\ Settle("start_gate")
    BY <1>1, <2>1, <2>2 DEF LadderInv, Settle, Goto
  <2>3. CASE Longest = Null /\ End("raised") /\ UNCHANGED <<level, prose, try, best, reads, last, record, start, tokens>>
    BY <1>1, <2>3 DEF LadderInv, End
  <2>4. CASE Longest # Null /\ Emit(Longest)
    BY <1>1, <2>1, <2>4, EmitStep
  <2>5. CASE Emit(Skip("prose"))
    BY <1>1, <2>5, EmitStep, LadderConstants DEF Trusted, Skip
  <2> QED BY <1>4, <2>2, <2>3, <2>4, <2>5 DEF JudgeProse
<1> QED BY <1>2, <1>3, <1>4

\* The server's own steps: tokens for the request that is waited for, nothing
\* else of the program's.
LEMMA LadderServerStep ==
  ASSUME LadderInv, client = "ladder", pc # "ended", ServerNext, UNCHANGED <<inputVars, stepVars, ladderVars>>
  PROVE  LadderInv'
<1>0. CountersOK /\ RequestsOK /\ LadderTag' = LadderTag
  BY DEF LadderInv, LadderTag, ladderVars
<1>1. CASE EndsUnheard
  <2>1. CountersOK' /\ epoch' = epoch /\ \A f \in Fields : Own(f)' = Own(f)
    BY <1>0, <1>1, UnheardIsNotOwn
  <2>2. Heard' = Heard /\ RequestsOK'
    BY <1>0, <1>1 DEF EndsUnheard, Finish, Drop, Heard, RequestsOK
  <2> QED BY <1>0, <2>1, <2>2 DEF LadderInv, OwnSince, OwnIn, stepVars, ladderVars, Fields
<1>2. CASE OtherArrives \/ WritesLog
  <2>1. Quiet
    BY <1>2 DEF OtherArrives, WritesLog, Quiet
  <2>2. Heard' = Heard /\ RequestsOK'
    <3>1. CASE WritesLog
      BY <1>0, <3>1 DEF WritesLog, Heard, RequestsOK
    <3>2. CASE OtherArrives
      <4>1. PICK s : /\ serving' = serving \union {s}
                     /\ s = [who |-> <<others', 0>>, tokens |-> 0, heard |-> FALSE]
        BY <3>2 DEF OtherArrives
      <4>2. s = [who |-> s.who, tokens |-> s.tokens, heard |-> s.heard] /\ s.tokens \in Nat /\ s.heard = FALSE
        BY <4>1
      <4> QED BY <1>0, <4>1, <4>2 DEF Heard, RequestsOK
    <3> QED BY <1>2, <3>1, <3>2
  <2> QED BY <1>0, <2>1, <2>2, QuietKeepsOwn DEF LadderInv, OwnSince, OwnIn, stepVars, ladderVars, Quiet, Fields
<1>3. CASE Restart
  <2>1. CountersOK' /\ epoch' = epoch + 1 /\ Heard' = {} /\ RequestsOK'
    BY <1>0, <1>3 DEF Restart, Zero, CountersOK, Counts, Heard, RequestsOK
  <2> QED BY <1>0, <2>1 DEF LadderInv, Scrapes, CountersOK, stepVars, ladderVars
<1>4. CASE Generates
  <2>1. PICK r \in serving : serving' = (serving \ {r}) \union {[r EXCEPT !.tokens = @ + 1]} /\ Count(r, "generated")
    BY <1>4 DEF Generates
  <2>2. CountersOK' /\ epoch' = epoch
    BY <1>0, <1>4, <2>1, CountIsOwn DEF Generates, Fields
  <2>3. PICK s : s = [r EXCEPT !.tokens = @ + 1]
    OBVIOUS
  <2>4. s = [who |-> s.who, tokens |-> s.tokens, heard |-> s.heard] /\ s.tokens = r.tokens + 1 /\ s.heard = r.heard /\ s.who = r.who
    BY <1>0, <2>1, <2>3 DEF RequestsOK
  <2>5. RequestsOK'
    BY <1>0, <2>1, <2>3, <2>4 DEF RequestsOK
  <2>6. CASE ~r.heard
    <3>1. Heard' = Heard
      BY <2>1, <2>3, <2>4, <2>6 DEF Heard
    <3>2. \A f \in Fields : Own(f)' = Own(f)
      BY <1>0, <2>1, <2>2, <2>6, CountIsOwn DEF Fields
    <3> QED BY <1>0, <2>2, <2>5, <3>1, <3>2 DEF LadderInv, OwnSince, OwnIn, stepVars, ladderVars, Fields
  <2>7. CASE r.heard
    <3>1. Heard = {r} /\ pc = "answer" /\ r.who = LadderTag
      BY <2>1, <2>7 DEF Heard, LadderInv
    <3>2. Heard' = {s}
      BY <2>1, <2>3, <2>4, <2>7, <3>1 DEF Heard
    <3>3. Own("generated")' = Own("generated") + 1 /\ Own("succeeded")' = Own("succeeded")
      BY <1>0, <2>1, <2>2, <2>7, CountIsOwn DEF Fields
    <3>4. \A f \in Fields : Own(f) \in Int /\ OwnIn(start, f) \in Int
      BY <3>1 DEF LadderInv, CountersOK, Counts, Scrapes, Fields, Own, OwnIn
    <3>5. start.epoch = epoch => OwnSince("succeeded") = 0 /\ OwnSince("generated") = r.tokens
      BY <3>1 DEF LadderInv
    <3>6. start.epoch = epoch => OwnSince("succeeded")' = 0 /\ OwnSince("generated")' = s.tokens
      BY <1>0, <2>1, <2>4, <3>3, <3>4, <3>5 DEF OwnSince, OwnIn, ladderVars, Fields, RequestsOK
    <3> QED BY <1>0, <2>2, <2>4, <2>5, <3>1, <3>2, <3>6 DEF LadderInv, stepVars, ladderVars
  <2> QED BY <2>6, <2>7
<1> QED BY <1>1, <1>2, <1>3, <1>4 DEF ServerNext

LEMMA LadderInvStep == LadderInv /\ [Next]_vars => LadderInv'
<1> SUFFICES ASSUME LadderInv, [Next]_vars, client = "ladder" PROVE LadderInv'
  BY ClientStays DEF LadderInv
<1>1. CASE LadderStep
  BY <1>1, LadderReadStep, LadderSendStep, LadderAnsweredStep, LadderBreaksStep, LadderJudgeStep DEF LadderStep
<1>2. CASE pc # "ended" /\ ServerNext /\ UNCHANGED <<inputVars, stepVars, ladderVars>>
  BY <1>2, LadderServerStep
<1>3. CASE UNCHANGED <<inputVars, stepVars, serverVars, ladderVars>>
  BY <1>3 DEF LadderInv, LadderTag, CountersOK, RequestsOK, Heard, OwnSince, Own, OwnIn, stepVars, serverVars, ladderVars
<1> QED
  BY <1>1, <1>2, <1>3
  DEF Next, vars, ClientStep, Environment, RampStep, BenchStep, BenchStart, BenchSubmit, BenchExpires, BenchAnswered, BenchBreaks, BenchEnds,
      AgenticStep, AgenticSend, AgenticAnswered, AgenticHttpError, AgenticBreaks, AgenticRelease, AgenticNoRelease,
      PiStep, PiLaunch, PiPasteFails, PiPaste, PiPoll, PiTimeout, PiWorks, Runs

\* The counters' growth that a ramp or a ladder reports is its own work, but
\* for the requests nobody waited for.
THEOREM DeltasAreProper == Spec => []DeltasAreOwn
<1>1. RampInv /\ LadderInv => DeltasAreOwn
  <2>1. ASSUME RampInv, client = "ramp", pc = "report", before # Null, after # Null, before.epoch = after.epoch
        PROVE  Growth(before, after, "succeeded") - Stray(before, after, "succeeded") = Cardinality(Good)
    <3>1. OwnIn(after, "succeeded") - OwnIn(before, "succeeded") = Cardinality(Good) /\ before \in Scrapes /\ after \in Scrapes
      BY <2>1 DEF RampInv
    <3> QED BY <3>1 DEF OwnIn, Growth, Stray, Scrapes, Counts
  <2>2. ASSUME LadderInv, client = "ladder", record # Null, record.skip = Null, record.sameServer
        PROVE  record.straySuccess = 0 /\ record.generated = record.tokens + record.strayTokens
    BY <2>2 DEF LadderInv, Trusted
  <2> QED BY <2>1, <2>2 DEF DeltasAreOwn, Good
<1> QED BY RampInvInit, RampInvStep, LadderInvInit, LadderInvStep, <1>1, PTL DEF Spec

-----------------------------------------------------------------------------
(* The turns of the ramp *)

Suffix == \E plan \in Plans : \E n \in 0..(Len(plan) - 1) : steps = SubSeq(plan, n + 1, Len(plan))

\* the users with a future
Pending == {u \in StepUsers : thread[u].at # "idle"}

\* the turns, up to the last one, that users with a future have before them
Ahead(end) == {p \in StepUsers \X (1..end) : thread[p[1]].at # "idle" /\ p[2] > thread[p[1]].turn}

LastTurn == WarmupTurns + TurnsPerUser

\* The results, and the turns before each user's future, follow each other.
Chained ==
  /\ \A r \in results : r.turn > WarmupTurns + 1 => [user |-> r.user, turn |-> r.turn - 1, ok |-> TRUE] \in results
  /\ \A u \in Pending : \A t \in (WarmupTurns + 1)..(thread[u].turn - 1) :
       [user |-> u, turn |-> t, ok |-> TRUE] \in results

\* What was submitted has a result or a future; what was submitted, what was
\* given up and what is still ahead of the futures make up the plan.
CountInv ==
  /\ Suffix
  /\ submitted \in Nat /\ skipped \in Nat
  /\ client # "ramp" => thread = [u \in Users |-> Idle] /\ submitted = 0 /\ skipped = 0
  /\ client = "ramp" =>
       /\ IsFiniteSet(results)
       /\ \A u \in Users :
            /\ thread[u].try \in 0..2
            /\ thread[u].at = "idle" => thread[u].turn = 0
            /\ thread[u].at # "idle" =>
                 /\ u \in StepUsers
                 /\ \/ pc = "warmup" /\ thread[u].turn \in 1..WarmupTurns
                    \/ pc = "measure" /\ thread[u].turn \in (WarmupTurns + 1)..LastTurn
       /\ pc \in {"start", "ended"} => submitted = 0 /\ skipped = 0
       /\ pc \in {"warmup", "scrape"} =>
            skipped = 0 /\ submitted + Cardinality(Ahead(WarmupTurns)) <= Head(steps) * WarmupTurns
       /\ pc \in {"measure", "report"} =>
            /\ submitted = Cardinality(results) + Cardinality(Pending)
            /\ submitted + skipped + Cardinality(Ahead(LastTurn)) = Planned
            /\ Chained
       /\ pc \in {"start", "warmup", "scrape", "measure", "report", "ended"}

LEMMA StepsOfAPlan ==
  ASSUME Suffix
  PROVE  steps \in Seq(Nat \ {0}) /\ steps # <<>> /\ Head(steps) \in Nat \ {0} /\ StepUsers \subseteq Users
<1>1. PICK plan \in Plans : \E n \in 0..(Len(plan) - 1) : steps = SubSeq(plan, n + 1, Len(plan))
  BY DEF Suffix
<1>0. PICK n \in 0..(Len(plan) - 1) : steps = SubSeq(plan, n + 1, Len(plan))
  BY <1>1
<1>2. plan \in Seq(Nat \ {0}) /\ Len(plan) \in Nat
  BY RampConstants
<1>3. n + 1 \in DOMAIN plan
  BY <1>2
<1>4. steps \in Seq(Nat \ {0}) /\ Len(steps) = Len(plan) - n
  BY <1>0, <1>2
<1>5. steps # <<>>
  BY <1>2, <1>4
<1>6. Head(steps) = plan[n + 1]
  BY <1>0, <1>2, <1>4, <1>5
<1>7. Head(steps) \in Nat \ {0}
  BY <1>2, <1>3, <1>6
<1>8. StepUsers \subseteq Users
  BY <1>3, <1>6 DEF StepUsers, Users
<1> QED BY <1>4, <1>5, <1>7, <1>8

LEMMA NextStepOfAPlan ==
  ASSUME Suffix, steps' = Tail(steps), Len(steps) > 1
  PROVE  Suffix'
<1>1. PICK plan \in Plans : \E n \in 0..(Len(plan) - 1) : steps = SubSeq(plan, n + 1, Len(plan))
  BY DEF Suffix
<1>0. PICK n \in 0..(Len(plan) - 1) : steps = SubSeq(plan, n + 1, Len(plan))
  BY <1>1
<1>2. plan \in Seq(Nat \ {0}) /\ Len(plan) \in Nat
  BY RampConstants
<1>3. Len(steps) = Len(plan) - n
  BY <1>0, <1>2
<1>4. n + 1 \in 0..(Len(plan) - 1)
  BY <1>2, <1>3
<1>5. Tail(steps) = SubSeq(plan, (n + 1) + 1, Len(plan))
  BY <1>0, <1>2, <1>3
<1> QED BY <1>4, <1>5 DEF Suffix

LEMMA CountsAreFinite ==
  ASSUME Suffix, NEW end \in Nat
  PROVE  /\ IsFiniteSet(StepUsers) /\ Cardinality(StepUsers) = Head(steps)
         /\ IsFiniteSet(Pending) /\ Cardinality(Pending) \in Nat
         /\ IsFiniteSet(Ahead(end)) /\ Cardinality(Ahead(end)) \in Nat
<1>1. Head(steps) \in Nat \ {0}
  BY StepsOfAPlan
<1>2. IsFiniteSet(StepUsers) /\ Cardinality(StepUsers) = Head(steps)
  BY <1>1, FS_Interval DEF StepUsers
<1>3. IsFiniteSet(Pending) /\ Cardinality(Pending) \in Nat
  BY <1>2, FS_Subset, FS_CardinalityType DEF Pending
<1>4. IsFiniteSet(1..end)
  BY FS_Interval
<1>5. IsFiniteSet(StepUsers \X (1..end))
  BY <1>2, <1>4, FS_Product
<1>6. IsFiniteSet(Ahead(end)) /\ Cardinality(Ahead(end)) \in Nat
  BY <1>5, FS_Subset, FS_CardinalityType DEF Ahead
<1> QED BY <1>2, <1>3, <1>6

\* When all users are idle nothing is pending or ahead.
LEMMA AllIdle ==
  ASSUME Suffix, NEW end \in Nat, \A u \in Users : thread[u].at = "idle"
  PROVE  Pending = {} /\ Ahead(end) = {} /\ Cardinality(Pending) = 0 /\ Cardinality(Ahead(end)) = 0
<1>1. Pending = {} /\ Ahead(end) = {}
  BY StepsOfAPlan DEF Pending, Ahead
<1> QED BY <1>1, FS_EmptySet

LEMMA OneIsRemoved ==
  ASSUME NEW S, IsFiniteSet(S), NEW x \in S
  PROVE  Cardinality(S \ {x}) = Cardinality(S) - 1
  BY FS_RemoveElement

LEMMA SomeAreRemoved ==
  ASSUME NEW S, IsFiniteSet(S), NEW T \in SUBSET S
  PROVE  Cardinality(S \ T) = Cardinality(S) - Cardinality(T)
<1>1. S \cap T = T
  OBVIOUS
<1>2. Cardinality(S \ T) = Cardinality(S) - Cardinality(S \cap T)
  BY FS_Difference
<1> QED BY <1>1, <1>2

LEMMA RowIsCounted ==
  ASSUME NEW u, NEW a \in Nat, NEW b \in Nat, a <= b
  PROVE  Cardinality({u} \X ((a + 1)..b)) = b - a
<1>1. IsFiniteSet({u}) /\ Cardinality({u}) = 1
  BY FS_Singleton
<1>2. a + 1 \in Int /\ b \in Int
  OBVIOUS
<1>3. IsFiniteSet((a + 1)..b) /\ Cardinality((a + 1)..b) = IF a + 1 > b THEN 0 ELSE b - (a + 1) + 1
  BY <1>2, FS_Interval
<1>4. Cardinality({u} \X ((a + 1)..b)) = 1 * Cardinality((a + 1)..b)
  BY <1>1, <1>3, FS_Product
<1> QED BY <1>3, <1>4

\* All users are given their first turn of a phase that ends with a later one.
LEMMA SubmitsCounted ==
  ASSUME Suffix, NEW base \in Nat, NEW end \in Nat, base < end, Submits(base + 1), steps' = steps
  PROVE  /\ submitted' = Head(steps) /\ skipped' = 0
         /\ Pending' = StepUsers /\ Cardinality(Pending') = Head(steps)
         /\ Cardinality(Ahead(end)') = Head(steps) * (end - (base + 1))
         /\ submitted' + Cardinality(Ahead(end)') = Head(steps) * (end - base)
<1>1. Head(steps) \in Nat \ {0} /\ StepUsers \subseteq Users
  BY StepsOfAPlan
<1>2. /\ thread' = [u \in Users |-> IF u \in StepUsers THEN Future(base + 1) ELSE Idle]
      /\ submitted' = Cardinality(StepUsers) /\ skipped' = 0
      /\ StepUsers' = StepUsers
  BY DEF Submits, StepUsers
<1>3. \A u \in StepUsers : thread'[u].at # "idle" /\ thread'[u].turn = base + 1
  BY <1>1, <1>2 DEF Future
<1>4. Pending' = StepUsers
  BY <1>2, <1>3 DEF Pending
<1>5. Cardinality(StepUsers) = Head(steps) /\ IsFiniteSet(StepUsers)
  BY CountsAreFinite
<1>6. Ahead(end)' = StepUsers \X ((base + 2)..end)
  BY <1>2, <1>3 DEF Ahead
<1>7. IsFiniteSet((base + 2)..end) /\ Cardinality((base + 2)..end) = end - (base + 1)
  BY FS_Interval
<1>8. Cardinality(Ahead(end)') = Head(steps) * (end - (base + 1))
  BY <1>5, <1>6, <1>7, FS_Product
<1>9. Head(steps) + Head(steps) * (end - (base + 1)) = Head(steps) * (end - base)
  <2>1. \A n, k \in Int : n + n * (k - 1) = n * k
    OBVIOUS
  <2>2. end - (base + 1) = (end - base) - 1 /\ end - base \in Int
    OBVIOUS
  <2> QED BY <1>1, <2>1, <2>2
<1> QED BY <1>2, <1>4, <1>5, <1>8, <1>9

\* A user goes on to the next turn.
LEMMA GoesOnCounted ==
  ASSUME Suffix, thread \in [Users -> Futures], NEW end \in Nat, NEW u \in StepUsers,
         thread[u].at # "idle", thread[u].turn < end,
         Set(u, Future(thread[u].turn + 1)), steps' = steps
  PROVE  /\ Pending' = Pending
         /\ Cardinality(Ahead(end)') = Cardinality(Ahead(end)) - 1
<1>1. u \in Users /\ StepUsers \subseteq Users /\ StepUsers' = StepUsers /\ thread[u].turn \in Nat
  BY StepsOfAPlan DEF StepUsers, Futures
<1>2. /\ thread' = [thread EXCEPT ![u] = Future(thread[u].turn + 1)]
      /\ Future(thread[u].turn + 1).at = "send" /\ Future(thread[u].turn + 1).turn = thread[u].turn + 1
  BY DEF Set, Future
<1>3. /\ thread'[u].at = "send" /\ thread'[u].turn = thread[u].turn + 1
      /\ \A v \in StepUsers : v # u => thread'[v] = thread[v]
  BY <1>1, <1>2
<1>4. Pending' = Pending
  BY <1>1, <1>3 DEF Pending
<1>5. <<u, thread[u].turn + 1>> \in Ahead(end)
  BY <1>1 DEF Ahead
<1>6. Ahead(end)' = Ahead(end) \ {<<u, thread[u].turn + 1>>}
  <2>1. ASSUME NEW v \in StepUsers, NEW t \in 1..end
        PROVE  <<v, t>> \in Ahead(end)' <=> <<v, t>> \in Ahead(end) /\ <<v, t>> # <<u, thread[u].turn + 1>>
    BY <1>1, <1>3, <2>1 DEF Ahead
  <2>2. Ahead(end)' \subseteq StepUsers \X (1..end) /\ Ahead(end) \subseteq StepUsers \X (1..end)
    BY <1>1 DEF Ahead
  <2> QED BY <2>1, <2>2
<1>7. Cardinality(Ahead(end) \ {<<u, thread[u].turn + 1>>}) = Cardinality(Ahead(end)) - 1
  BY <1>5, CountsAreFinite, OneIsRemoved
<1> QED BY <1>4, <1>6, <1>7

\* A user stops: the turns the user had ahead are gone.
LEMMA StopsCounted ==
  ASSUME Suffix, thread \in [Users -> Futures], NEW end \in Nat, NEW u \in StepUsers,
         thread[u].at # "idle", thread[u].turn <= end,
         Set(u, Idle), steps' = steps
  PROVE  /\ Pending' = Pending \ {u} /\ Cardinality(Pending') = Cardinality(Pending) - 1
         /\ Cardinality(Ahead(end)') = Cardinality(Ahead(end)) - (end - thread[u].turn)
<1> DEFINE lost == {u} \X ((thread[u].turn + 1)..end)
<1>1. u \in Users /\ StepUsers \subseteq Users /\ StepUsers' = StepUsers /\ thread[u].turn \in Nat
  BY StepsOfAPlan DEF StepUsers, Futures
<1>2. thread'[u].at = "idle" /\ \A v \in StepUsers : v # u => thread'[v] = thread[v]
  BY <1>1 DEF Set, Idle
<1>3. Pending' = Pending \ {u} /\ u \in Pending
  BY <1>1, <1>2 DEF Pending
<1>4. lost \subseteq Ahead(end) /\ Ahead(end)' = Ahead(end) \ lost
  <2>1. ASSUME NEW v \in StepUsers, NEW t \in 1..end
        PROVE  /\ <<v, t>> \in lost => <<v, t>> \in Ahead(end)
               /\ <<v, t>> \in Ahead(end)' <=> <<v, t>> \in Ahead(end) /\ <<v, t>> \notin lost
    BY <1>1, <1>2 DEF Ahead
  <2>2. /\ Ahead(end)' \subseteq StepUsers \X (1..end) /\ Ahead(end) \subseteq StepUsers \X (1..end)
        /\ lost \subseteq StepUsers \X (1..end)
    BY <1>1 DEF Ahead
  <2> QED BY <2>1, <2>2
<1>5. Cardinality(lost) = end - thread[u].turn
  BY <1>1, RowIsCounted
<1> HIDE DEF lost
<1>6. Cardinality(Ahead(end)') = Cardinality(Ahead(end)) - Cardinality(lost)
  BY <1>4, CountsAreFinite, SomeAreRemoved
<1>7. Cardinality(Pending') = Cardinality(Pending) - 1
  BY <1>3, CountsAreFinite, OneIsRemoved
<1> QED BY <1>3, <1>5, <1>6, <1>7

LEMMA CountInvInit == Init => CountInv
<1> SUFFICES ASSUME Init PROVE CountInv
  OBVIOUS
<1> USE DEF Init, RampInit, FirstStep
<1>1. Suffix
  <2>1. steps \in Plans /\ steps \in Seq(Nat \ {0}) /\ steps # <<>>
    BY RampConstants
  <2>2. 0 \in 0..(Len(steps) - 1) /\ steps = SubSeq(steps, 0 + 1, Len(steps))
    BY <2>1
  <2> QED BY <2>1, <2>2 DEF Suffix
<1>2. client = "ramp" => pc = "start"
  OBVIOUS
<1>3. IsFiniteSet(results)
  BY FS_EmptySet
<1> QED BY <1>1, <1>2, <1>3 DEF CountInv, Idle

\* A thread's step leaves its user at the same turn.
LEMMA ThreadKeepsTurn ==
  ASSUME thread \in [Users -> Futures], NEW u \in Users, RampThread(u)
  PROVE  \E f \in Futures : /\ thread' = [thread EXCEPT ![u] = f]
                            /\ thread[u].at # "idle" /\ f.at # "idle"
                            /\ f.turn = thread[u].turn /\ f.try \in {thread[u].try, 2}
<1>1. thread[u].at \in {"send", "wait"} /\ thread[u] \in Futures
  BY DEF RampThread, RampSend, RampAnswered, RampBreaks
<1>2. CASE \E ok \in BOOLEAN : Done(u, ok)
  <2>1. PICK ok \in BOOLEAN : thread' = [thread EXCEPT ![u] = [thread[u] EXCEPT !.at = "done", !.ok = ok]]
    BY <1>2 DEF Done, Set
  <2>2. PICK f : f = [thread[u] EXCEPT !.at = "done", !.ok = ok]
    OBVIOUS
  <2>3. f \in Futures /\ f.at = "done" /\ f.turn = thread[u].turn /\ f.try = thread[u].try
    BY <1>1, <2>2 DEF Futures
  <2> QED BY <1>1, <2>1, <2>2, <2>3
<1>3. CASE \E at \in {"send", "wait"} : \E n \in {thread[u].try, 2} : Set(u, [thread[u] EXCEPT !.at = at, !.try = n])
  <2>1. PICK at \in {"send", "wait"} : \E n \in {thread[u].try, 2} :
               thread' = [thread EXCEPT ![u] = [thread[u] EXCEPT !.at = at, !.try = n]]
    BY <1>3 DEF Set
  <2>2. PICK n \in {thread[u].try, 2} : thread' = [thread EXCEPT ![u] = [thread[u] EXCEPT !.at = at, !.try = n]]
    BY <2>1
  <2>3. n \in Nat
    BY <1>1 DEF Futures
  <2>4. PICK g \in Futures : g = thread[u]
    BY <1>1
  <2> DEFINE f == [g EXCEPT !.at = at, !.try = n]
  <2>5. f \in Futures /\ f.at = at /\ f.turn = g.turn /\ f.try = n
    BY <2>3 DEF Futures
  <2>6. thread' = [thread EXCEPT ![u] = f]
    BY <2>2, <2>4
  <2> HIDE DEF f
  <2> QED BY <1>1, <2>4, <2>5, <2>6
<1>4. CASE Set(u, [thread[u] EXCEPT !.at = "wait"])
  <2>1. [thread[u] EXCEPT !.at = "wait"] = [thread[u] EXCEPT !.at = "wait", !.try = thread[u].try]
    BY <1>1 DEF Futures
  <2> QED BY <1>3, <1>4, <2>1
<1> QED BY <1>2, <1>3, <1>4 DEF RampThread, RampSend, RampAnswered, RampBreaks, Retries

\* As long as no user comes or goes or takes another turn, the counts stay.
LEMMA CountsStay ==
  ASSUME UNCHANGED <<steps, results>>, \A v \in StepUsers : /\ thread'[v].at = "idle" <=> thread[v].at = "idle"
                                                            /\ thread'[v].turn = thread[v].turn
  PROVE  Pending' = Pending /\ Ahead(WarmupTurns)' = Ahead(WarmupTurns) /\ Ahead(LastTurn)' = Ahead(LastTurn)
         /\ Chained' = Chained
<1>1. StepUsers' = StepUsers /\ LastTurn' = LastTurn
  BY DEF StepUsers, LastTurn
<1>2. Pending' = Pending
  BY <1>1 DEF Pending
<1>3. Ahead(WarmupTurns)' = Ahead(WarmupTurns) /\ Ahead(LastTurn)' = Ahead(LastTurn)
  BY <1>1 DEF Ahead
<1>4. \A u \in Pending : thread'[u].turn = thread[u].turn
  BY DEF Pending
<1>5. Chained' = Chained
  BY <1>2, <1>4 DEF Chained
<1> QED BY <1>2, <1>3, <1>5

LEMMA CountThreadStep ==
  ASSUME CountInv, RampInv, client = "ramp", client' = "ramp", NEW u \in Users, RampThread(u)
  PROVE  CountInv'
<1>1. thread \in [Users -> Futures]
  BY DEF RampInv
<1>2. PICK f \in Futures : /\ thread' = [thread EXCEPT ![u] = f]
                           /\ thread[u].at # "idle" /\ f.at # "idle"
                           /\ f.turn = thread[u].turn /\ f.try \in {thread[u].try, 2}
  BY <1>1, ThreadKeepsTurn
<1>3. UNCHANGED <<pc, steps, submitted, skipped, results>>
  BY DEF RampThread, RampSend, RampAnswered, RampBreaks, stepVars
<1>4. \A v \in Users : /\ thread'[v].at = "idle" <=> thread[v].at = "idle"
                       /\ thread'[v].turn = thread[v].turn
                       /\ thread'[v].try \in {thread[v].try, 2}
  BY <1>1, <1>2
<1>5. StepUsers \subseteq Users /\ StepUsers' = StepUsers
  BY <1>3, StepsOfAPlan DEF CountInv, StepUsers
<1>6. /\ Pending' = Pending /\ Ahead(WarmupTurns)' = Ahead(WarmupTurns) /\ Ahead(LastTurn)' = Ahead(LastTurn)
      /\ Chained' = Chained
  BY <1>3, <1>4, <1>5, CountsStay
<1>7. Suffix' /\ Planned' = Planned
  BY <1>3 DEF CountInv, Suffix, Planned
<1> HIDE DEF Suffix, Planned, Chained
<1> QED BY <1>3, <1>4, <1>5, <1>6, <1>7 DEF CountInv, LastTurn

\* A user whose warmup turn is over.
LEMMA CountWarmedStep ==
  ASSUME CountInv, RampInv, client = "ramp", client' = "ramp", NEW u \in Users, RampWarmed(u)
  PROVE  CountInv'
<1>0. /\ pc = "warmup" /\ pc' = "warmup" /\ thread[u].at = "done" /\ thread \in [Users -> Futures]
      /\ UNCHANGED <<steps, skipped, results>> /\ Suffix
      /\ WarmupTurns \in Nat
  BY RampConstants DEF RampWarmed, Runs, stepVars, RampInv, CountInv
<1>1. u \in StepUsers /\ thread[u].turn \in 1..WarmupTurns
  BY <1>0 DEF CountInv
<1>2. /\ submitted \in Nat /\ skipped = 0 /\ Cardinality(Ahead(WarmupTurns)) \in Nat
      /\ submitted + Cardinality(Ahead(WarmupTurns)) <= Head(steps) * WarmupTurns
  BY <1>0, CountsAreFinite DEF CountInv
<1>3. Suffix' /\ StepUsers' = StepUsers /\ Head(steps)' = Head(steps) /\ Head(steps) * WarmupTurns \in Nat
  BY <1>0, StepsOfAPlan DEF Suffix, StepUsers
<1>4. CASE Set(u, Future(thread[u].turn + 1)) /\ submitted' = submitted + 1 /\ thread[u].turn < WarmupTurns
  <2>1. Cardinality(Ahead(WarmupTurns)') = Cardinality(Ahead(WarmupTurns)) - 1
    BY <1>0, <1>1, <1>4, GoesOnCounted
  <2>2. submitted' + Cardinality(Ahead(WarmupTurns)') <= Head(steps) * WarmupTurns /\ submitted' \in Nat
    BY <1>2, <1>3, <1>4, <2>1
  <2>3. \A v \in Users : thread'[v] = IF v = u THEN Future(thread[u].turn + 1) ELSE thread[v]
    BY <1>0, <1>4 DEF Set
  <2>4. \A v \in Users : /\ thread'[v].try \in 0..2
                         /\ thread'[v].at = "idle" => thread'[v].turn = 0
                         /\ thread'[v].at # "idle" => v \in StepUsers /\ thread'[v].turn \in 1..WarmupTurns
    <3> SUFFICES ASSUME NEW v \in Users
                 PROVE  /\ thread'[v].try \in 0..2
                        /\ thread'[v].at = "idle" => thread'[v].turn = 0
                        /\ thread'[v].at # "idle" => v \in StepUsers /\ thread'[v].turn \in 1..WarmupTurns
      OBVIOUS
    <3>1. CASE v = u
      BY <1>0, <1>1, <1>4, <2>3, <3>1 DEF Future
    <3>2. CASE v # u
      BY <1>0, <2>3, <3>2 DEF CountInv
    <3> QED BY <3>1, <3>2
  <2> QED BY <1>0, <1>2, <1>3, <2>2, <2>4 DEF CountInv
<1>5. CASE Set(u, Idle) /\ submitted' = submitted
  <2>1. Cardinality(Ahead(WarmupTurns)') = Cardinality(Ahead(WarmupTurns)) - (WarmupTurns - thread[u].turn)
    BY <1>0, <1>1, <1>5, StopsCounted
  <2>2. submitted' + Cardinality(Ahead(WarmupTurns)') <= Head(steps) * WarmupTurns /\ submitted' \in Nat
    BY <1>0, <1>1, <1>2, <1>3, <1>5, <2>1
  <2>3. \A v \in Users : thread'[v] = IF v = u THEN Idle ELSE thread[v]
    BY <1>0, <1>5 DEF Set
  <2>4. \A v \in Users : /\ thread'[v].try \in 0..2
                         /\ thread'[v].at = "idle" => thread'[v].turn = 0
                         /\ thread'[v].at # "idle" => v \in StepUsers /\ thread'[v].turn \in 1..WarmupTurns
    <3> SUFFICES ASSUME NEW v \in Users
                 PROVE  /\ thread'[v].try \in 0..2
                        /\ thread'[v].at = "idle" => thread'[v].turn = 0
                        /\ thread'[v].at # "idle" => v \in StepUsers /\ thread'[v].turn \in 1..WarmupTurns
      OBVIOUS
    <3>1. CASE v = u
      BY <2>3, <3>1 DEF Idle
    <3>2. CASE v # u
      BY <1>0, <2>3, <3>2 DEF CountInv
    <3> QED BY <3>1, <3>2
  <2> QED BY <1>0, <1>2, <1>3, <2>2, <2>4 DEF CountInv
<1> QED BY <1>4, <1>5 DEF RampWarmed


\* A collected turn is followed by the user's next one, or ends the user's part:
\* then the turns that were ahead are given up, none if it was the last.
LEMMA CollectIsChained ==
  ASSUME CountInv, RampInv, client = "ramp", NEW u \in StepUsers, RampCollect(u)
  PROVE  Chained'
<1>0. /\ pc = "measure" /\ thread[u].at = "done" /\ thread \in [Users -> Futures] /\ u \in Users /\ StepUsers \subseteq Users
      /\ UNCHANGED <<steps, StepUsers>> /\ results' = results \union {Result(u)}
      /\ results \subseteq [user : Users, turn : Nat, ok : BOOLEAN]
      /\ Chained /\ WarmupTurns \in Nat /\ thread[u].turn \in Nat
  BY StepsOfAPlan, RampConstants DEF RampCollect, Runs, RampInv, CountInv, StepUsers, Futures
<1>1. /\ Result(u) = [user |-> u, turn |-> thread[u].turn, ok |-> thread[u].ok]
      /\ u \in Pending
  BY <1>0 DEF Result, Pending
<1>2. \A t \in (WarmupTurns + 1)..(thread[u].turn - 1) : [user |-> u, turn |-> t, ok |-> TRUE] \in results
  BY <1>0, <1>1 DEF Chained
<1>3. ASSUME NEW r \in results', r.turn > WarmupTurns + 1
      PROVE  [user |-> r.user, turn |-> r.turn - 1, ok |-> TRUE] \in results'
  <2>1. CASE r \in results
    BY <1>0, <1>3, <2>1 DEF Chained
  <2>2. CASE r = Result(u)
    <3>1. r.user = u /\ r.turn = thread[u].turn
      BY <1>1, <2>2
    <3>2. thread[u].turn > WarmupTurns + 1
      BY <1>1, <1>3, <2>2
    <3>3. thread[u].turn - 1 \in (WarmupTurns + 1)..(thread[u].turn - 1)
      BY <1>0, <3>2
    <3> QED BY <1>0, <1>2, <3>1, <3>3
  <2> QED BY <1>0, <1>3, <2>1, <2>2
<1>4. PICK f \in Futures : /\ thread' = [thread EXCEPT ![u] = f]
                           /\ f.at # "idle" => f.turn = thread[u].turn + 1 /\ thread[u].ok
  <2>1. Future(thread[u].turn + 1) \in Futures /\ Future(thread[u].turn + 1).turn = thread[u].turn + 1
    BY <1>0 DEF Future, Futures
  <2>2. Idle \in Futures /\ Idle.at = "idle"
    BY DEF Idle, Futures
  <2> QED BY <2>1, <2>2 DEF RampCollect, Set
<1>5. ASSUME NEW v \in Pending', NEW t \in (WarmupTurns + 1)..(thread'[v].turn - 1)
      PROVE  [user |-> v, turn |-> t, ok |-> TRUE] \in results'
  <2>1. CASE v # u
    <3>1. thread'[v] = thread[v] /\ v \in Pending
      BY <1>0, <1>4, <1>5, <2>1 DEF Pending
    <3> QED BY <1>0, <1>5, <3>1 DEF Chained
  <2>2. CASE v = u
    <3>1. thread'[u] = f /\ f.at # "idle"
      BY <1>0, <1>4, <1>5, <2>2 DEF Pending
    <3>2. f.turn = thread[u].turn + 1 /\ thread[u].ok = TRUE
      BY <1>0, <1>4, <3>1 DEF Futures
    <3>3. t \in (WarmupTurns + 1)..thread[u].turn
      BY <1>0, <1>5, <2>2, <3>1, <3>2
    <3>4. CASE t = thread[u].turn
      BY <1>0, <1>1, <2>2, <3>2, <3>4
    <3>5. CASE t # thread[u].turn
      BY <1>0, <1>2, <2>2, <3>3, <3>5
    <3> QED BY <3>4, <3>5
  <2> QED BY <2>1, <2>2
<1> QED BY <1>3, <1>5 DEF Chained

LEMMA CountCollectStep ==
  ASSUME CountInv, RampInv, client = "ramp", client' = "ramp", NEW u \in Users, RampCollect(u)
  PROVE  CountInv'
<1>0. /\ pc = "measure" /\ pc' = "measure" /\ thread[u].at = "done" /\ thread \in [Users -> Futures]
      /\ UNCHANGED steps /\ results' = results \union {Result(u)} /\ Suffix
      /\ WarmupTurns \in Nat /\ TurnsPerUser \in Nat \ {0} /\ LastTurn \in Nat
  BY RampConstants DEF RampCollect, Runs, stepVars, RampInv, CountInv, LastTurn
<1>1. u \in StepUsers /\ thread[u].turn \in (WarmupTurns + 1)..LastTurn
  BY <1>0 DEF CountInv
<1>2. /\ submitted \in Nat /\ skipped \in Nat /\ Cardinality(Ahead(LastTurn)) \in Nat /\ Cardinality(Pending) \in Nat
      /\ IsFiniteSet(results) /\ Cardinality(results) \in Nat
      /\ submitted = Cardinality(results) + Cardinality(Pending)
      /\ submitted + skipped + Cardinality(Ahead(LastTurn)) = Planned
  BY <1>0, CountsAreFinite, FS_CardinalityType DEF CountInv
<1>3. Suffix' /\ StepUsers' = StepUsers /\ Planned' = Planned
  BY <1>0 DEF Suffix, StepUsers, Planned
<1>4. IsFiniteSet(results') /\ Cardinality(results') = Cardinality(results) + 1
  <2>1. Result(u) \notin results
    BY <1>0 DEF Result, RampInv, Futures
  <2> QED BY <1>0, <1>2, <2>1, FS_AddElement
<1>5. Chained'
  BY <1>1, CollectIsChained
<1>6. ASSUME NEW f, thread' = [thread EXCEPT ![u] = f], f.try \in 0..2, f.at = "idle" => f.turn = 0,
             f.at # "idle" => f.turn \in (WarmupTurns + 1)..LastTurn
      PROVE  \A v \in Users : /\ thread'[v].try \in 0..2
                              /\ thread'[v].at = "idle" => thread'[v].turn = 0
                              /\ thread'[v].at # "idle" => v \in StepUsers /\ thread'[v].turn \in (WarmupTurns + 1)..LastTurn
  <2> SUFFICES ASSUME NEW v \in Users
               PROVE  /\ thread'[v].try \in 0..2
                      /\ thread'[v].at = "idle" => thread'[v].turn = 0
                      /\ thread'[v].at # "idle" => v \in StepUsers /\ thread'[v].turn \in (WarmupTurns + 1)..LastTurn
    OBVIOUS
  <2>1. CASE v = u
    BY <1>0, <1>1, <1>6, <2>1
  <2>2. CASE v # u
    BY <1>0, <1>6, <2>2 DEF CountInv
  <2> QED BY <2>1, <2>2
<1>7. CASE /\ Set(u, Future(thread[u].turn + 1)) /\ submitted' = submitted + 1 /\ skipped' = skipped
           /\ thread[u].turn - WarmupTurns < TurnsPerUser
  <2>1. thread[u].turn < LastTurn
    BY <1>0, <1>1, <1>7 DEF LastTurn
  <2>2. Pending' = Pending /\ Cardinality(Ahead(LastTurn)') = Cardinality(Ahead(LastTurn)) - 1
    BY <1>0, <1>1, <1>7, <2>1, GoesOnCounted
  <2>3. /\ submitted' = Cardinality(results') + Cardinality(Pending')
        /\ submitted' + skipped' + Cardinality(Ahead(LastTurn)') = Planned'
        /\ submitted' \in Nat /\ skipped' \in Nat
    BY <1>2, <1>3, <1>4, <1>7, <2>2
  <2>4. /\ Future(thread[u].turn + 1).try \in 0..2 /\ Future(thread[u].turn + 1).at = "send"
        /\ Future(thread[u].turn + 1).turn \in (WarmupTurns + 1)..LastTurn
    BY <1>0, <1>1, <2>1 DEF Future
  <2>5. LastTurn' = LastTurn /\ Ahead(LastTurn)' = Ahead(LastTurn)'
    BY DEF LastTurn
  <2>6. \A v \in Users : /\ thread'[v].try \in 0..2
                         /\ thread'[v].at = "idle" => thread'[v].turn = 0
                         /\ thread'[v].at # "idle" => v \in StepUsers /\ thread'[v].turn \in (WarmupTurns + 1)..LastTurn
    BY <1>6, <1>7, <2>4 DEF Set
  <2> HIDE DEF Chained
  <2> QED BY <1>0, <1>3, <1>4, <1>5, <2>3, <2>5, <2>6 DEF CountInv
<1>8. CASE /\ Set(u, Idle) /\ submitted' = submitted
           /\ skipped' = IF thread[u].ok THEN skipped ELSE skipped + TurnsPerUser - (thread[u].turn - WarmupTurns)
           /\ ~(thread[u].ok /\ thread[u].turn - WarmupTurns < TurnsPerUser)
  <2>1. /\ Cardinality(Pending') = Cardinality(Pending) - 1
        /\ Cardinality(Ahead(LastTurn)') = Cardinality(Ahead(LastTurn)) - (LastTurn - thread[u].turn)
    BY <1>0, <1>1, <1>8, StopsCounted
  <2>2. skipped' = skipped + (LastTurn - thread[u].turn) /\ skipped' \in Nat
    <3>1. CASE thread[u].ok
      BY <1>0, <1>1, <1>2, <1>8, <3>1 DEF LastTurn
    <3>2. CASE ~thread[u].ok
      BY <1>0, <1>1, <1>2, <1>8, <3>2 DEF LastTurn
    <3> QED BY <3>1, <3>2
  <2>3. /\ submitted' = Cardinality(results') + Cardinality(Pending')
        /\ submitted' + skipped' + Cardinality(Ahead(LastTurn)') = Planned'
        /\ submitted' \in Nat
    BY <1>0, <1>1, <1>2, <1>3, <1>4, <1>8, <2>1, <2>2
  <2>4. Idle.try \in 0..2 /\ Idle.at = "idle" /\ Idle.turn = 0
    BY DEF Idle
  <2>5. LastTurn' = LastTurn
    BY DEF LastTurn
  <2>6. \A v \in Users : /\ thread'[v].try \in 0..2
                         /\ thread'[v].at = "idle" => thread'[v].turn = 0
                         /\ thread'[v].at # "idle" => v \in StepUsers /\ thread'[v].turn \in (WarmupTurns + 1)..LastTurn
    BY <1>6, <1>8, <2>4 DEF Set
  <2> HIDE DEF Chained
  <2> QED BY <1>0, <1>3, <1>4, <1>5, <2>2, <2>3, <2>5, <2>6 DEF CountInv
<1> QED BY <1>7, <1>8 DEF RampCollect

LEMMA CountMainStep ==
  ASSUME CountInv, RampInv, client = "ramp", client' = "ramp", RampMain
  PROVE  CountInv'
<1>0. Suffix /\ thread \in [Users -> Futures] /\ WarmupTurns \in Nat /\ TurnsPerUser \in Nat \ {0} /\ LastTurn \in Nat
      /\ LastTurn' = LastTurn
  BY RampConstants DEF RampInv, CountInv, LastTurn
<1>1. Head(steps) \in Nat \ {0} /\ StepUsers \subseteq Users
  BY <1>0, StepsOfAPlan
<1>2. ASSUME UNCHANGED steps
      PROVE  Suffix' /\ StepUsers' = StepUsers /\ Planned' = Planned /\ Head(steps)' = Head(steps)
  BY <1>0, <1>2 DEF Suffix, StepUsers, Planned
<1>3. ASSUME UNCHANGED thread, pc \notin {"warmup", "measure"} \/ \A u \in Users : thread[u].at = "idle"
      PROVE  /\ \A u \in Users : thread'[u].at = "idle" /\ thread'[u].turn = 0 /\ thread'[u].try \in 0..2
             /\ \A u \in Users : thread[u].at = "idle"
  BY <1>3 DEF CountInv
<1>4. ASSUME NEW base \in Nat, Submits(base + 1), NEW u \in Users
      PROVE  /\ thread'[u].try \in 0..2
             /\ thread'[u].at = "idle" => thread'[u].turn = 0
             /\ thread'[u].at # "idle" => u \in StepUsers /\ thread'[u].turn = base + 1
  BY <1>4 DEF Submits, Future, Idle
<1>5. CASE RampWarmup
  <2>1. pc = "start" /\ UNCHANGED steps /\ submitted = 0 /\ skipped = 0
    BY <1>5 DEF RampWarmup, Runs, CountInv
  <2>2. CASE WarmupTurns > 0 /\ Submits(1) /\ Goto("warmup")
    <3>1. 0 + 1 = 1 /\ 0 \in Nat
      OBVIOUS
    <3>2. /\ submitted' = Head(steps) /\ skipped' = 0
          /\ submitted' + Cardinality(Ahead(WarmupTurns)') = Head(steps) * (WarmupTurns - 0)
      BY <1>0, <2>1, <2>2, <3>1, SubmitsCounted
    <3>3. submitted' + Cardinality(Ahead(WarmupTurns)') <= Head(steps) * WarmupTurns
      <4>1. WarmupTurns - 0 = WarmupTurns /\ Head(steps) * WarmupTurns \in Int
        BY <1>0, <1>1
      <4> QED BY <3>2, <4>1
    <3>4. \A u \in Users : /\ thread'[u].try \in 0..2
                           /\ thread'[u].at = "idle" => thread'[u].turn = 0
                           /\ thread'[u].at # "idle" => u \in StepUsers' /\ thread'[u].turn \in 1..WarmupTurns
      BY <1>0, <1>2, <1>4, <2>1, <2>2, <3>1
    <3>5. pc' = "warmup" /\ IsFiniteSet(results')
      BY <2>2, FS_EmptySet DEF Goto, Submits
    <3> QED BY <1>0, <1>1, <1>2, <2>1, <3>2, <3>3, <3>4, <3>5 DEF CountInv
  <2>3. CASE ~(WarmupTurns > 0) /\ Goto("scrape") /\ UNCHANGED <<thread, submitted, skipped, results>>
    <3>1. \A u \in Users : thread'[u].at = "idle" /\ thread'[u].turn = 0 /\ thread'[u].try \in 0..2
      BY <1>3, <2>1, <2>3
    <3>2. Cardinality(Ahead(WarmupTurns)) = 0 /\ Ahead(WarmupTurns)' = Ahead(WarmupTurns)
      BY <1>0, <1>3, <2>1, <2>3, AllIdle DEF Ahead, StepUsers
    <3>3. submitted' + Cardinality(Ahead(WarmupTurns)') <= Head(steps)' * WarmupTurns
      BY <1>0, <1>1, <1>2, <2>1, <2>3, <3>2
    <3>4. pc' = "scrape" /\ IsFiniteSet(results')
      BY <2>3 DEF Goto, CountInv
    <3> QED BY <1>2, <2>1, <2>3, <3>1, <3>3, <3>4 DEF CountInv
  <2>4. CASE End("raised") /\ UNCHANGED <<thread, submitted, skipped, results>>
    <3>1. \A u \in Users : thread'[u].at = "idle" /\ thread'[u].turn = 0 /\ thread'[u].try \in 0..2
      BY <1>3, <2>1, <2>4
    <3>2. pc' = "ended" /\ IsFiniteSet(results')
      BY <2>4 DEF End, CountInv
    <3> QED BY <1>2, <2>1, <2>4, <3>1, <3>2 DEF CountInv
  <2> QED BY <1>5, <2>2, <2>3, <2>4 DEF RampWarmup
<1>6. CASE RampWarmupEnds
  <2>1. /\ pc = "warmup" /\ pc' = "scrape" /\ UNCHANGED <<steps, thread, submitted, skipped, results>>
        /\ \A u \in Users : thread[u].at = "idle"
    BY <1>6 DEF RampWarmupEnds, Runs, Goto, rampVars
  <2>2. \A u \in Users : thread'[u].at = "idle" /\ thread'[u].turn = 0 /\ thread'[u].try \in 0..2
    BY <1>3, <2>1
  <2>3. Ahead(WarmupTurns)' = Ahead(WarmupTurns)
    BY <2>1 DEF Ahead, StepUsers
  <2> QED BY <1>2, <2>1, <2>2, <2>3 DEF CountInv
<1>7. CASE RampScrape
  <2>1. Submits(WarmupTurns + 1) /\ pc' = "measure" /\ UNCHANGED steps
    BY <1>7 DEF RampScrape, Goto
  <2>2. WarmupTurns < LastTurn /\ LastTurn - WarmupTurns = TurnsPerUser
    BY <1>0 DEF LastTurn
  <2>3. /\ submitted' = Head(steps) /\ skipped' = 0 /\ Pending' = StepUsers /\ Cardinality(Pending') = Head(steps)
        /\ submitted' + Cardinality(Ahead(LastTurn)') = Head(steps) * (LastTurn - WarmupTurns)
        /\ Cardinality(Ahead(LastTurn)') = Head(steps) * (LastTurn - (WarmupTurns + 1))
    BY <1>0, <2>1, <2>2, SubmitsCounted
  <2>4. results' = {} /\ IsFiniteSet(results') /\ Cardinality(results') = 0
    BY <2>1, FS_EmptySet DEF Submits
  <2>5. submitted' = Cardinality(results') + Cardinality(Pending')
    BY <1>1, <2>3, <2>4
  <2>6. submitted' + skipped' + Cardinality(Ahead(LastTurn)') = Planned'
    <3>1. submitted' + Cardinality(Ahead(LastTurn)') = Planned
      BY <2>2, <2>3 DEF Planned
    <3>2. Cardinality(Ahead(LastTurn)') \in Int
      BY <1>0, <1>1, <2>3
    <3> QED BY <1>1, <1>2, <2>1, <2>3, <3>1, <3>2
  <2>7. \A u \in Users : /\ thread'[u].try \in 0..2
                         /\ thread'[u].at = "idle" => thread'[u].turn = 0
                         /\ thread'[u].at # "idle" => u \in StepUsers' /\ thread'[u].turn = WarmupTurns + 1
    BY <1>0, <1>2, <1>4, <2>1
  <2>8. \A u \in Users : thread'[u].at # "idle" => thread'[u].turn \in (WarmupTurns + 1)..LastTurn
    BY <1>0, <2>2, <2>7
  <2>9. Chained'
    <3>1. \A u \in Pending' : thread'[u].turn = WarmupTurns + 1
      BY <1>1, <1>2, <2>1, <2>7 DEF Pending
    <3> QED BY <1>0, <2>4, <3>1 DEF Chained
  <2>10. submitted' \in Nat /\ skipped' \in Nat
    BY <1>1, <2>3
  <2> HIDE DEF Chained
  <2> QED BY <1>0, <1>2, <2>1, <2>4, <2>5, <2>6, <2>7, <2>8, <2>9, <2>10 DEF CountInv
<1>8. CASE RampMeasured
  <2>1. /\ pc = "measure" /\ pc' = "report" /\ UNCHANGED <<steps, thread, submitted, skipped, results>>
        /\ \A u \in Users : thread[u].at = "idle"
    BY <1>8 DEF RampMeasured, Runs, Goto
  <2>2. \A u \in Users : thread'[u].at = "idle" /\ thread'[u].turn = 0 /\ thread'[u].try \in 0..2
    BY <1>3, <2>1
  <2>3. /\ Pending' = Pending /\ Ahead(LastTurn)' = Ahead(LastTurn) /\ Chained' = Chained
    BY <2>1, CountsStay
  <2> HIDE DEF Chained
  <2> QED BY <1>0, <1>2, <2>1, <2>2, <2>3 DEF CountInv
<1>9. CASE RampReport
  <2>1. /\ pc = "report" /\ pc' \in {"start", "ended"} /\ UNCHANGED thread
        /\ submitted' = 0 /\ skipped' = 0 /\ results' = {}
    BY <1>9 DEF RampReport, Runs, Goto, End
  <2>2. \A u \in Users : thread'[u].at = "idle" /\ thread'[u].turn = 0 /\ thread'[u].try \in 0..2
    BY <1>3, <2>1
  <2>3. Suffix'
    <3>1. CASE pc' = "start"
      BY <1>0, <1>9, <3>1, NextStepOfAPlan DEF RampReport, End
    <3>2. CASE pc' # "start"
      BY <1>2, <1>9, <3>2 DEF RampReport
    <3> QED BY <3>1, <3>2
  <2> QED BY <2>1, <2>2, <2>3, FS_EmptySet DEF CountInv
<1> QED BY <1>5, <1>6, <1>7, <1>8, <1>9, CountWarmedStep, CountCollectStep DEF RampMain

LEMMA CountInvStep == RampInv /\ CountInv /\ [Next]_vars => CountInv'
<1> SUFFICES ASSUME RampInv, CountInv, [Next]_vars PROVE CountInv'
  OBVIOUS
<1>1. client' = client
  BY ClientStays
<1>2. CASE RampStep
  BY <1>1, <1>2, CountMainStep, CountThreadStep DEF RampStep
<1>3. CASE UNCHANGED rampVars /\ (client = "ramp" => UNCHANGED pc)
  <2>1. UNCHANGED <<steps, thread, submitted, skipped, results>>
    BY <1>3 DEF rampVars
  <2>2. /\ Suffix' = Suffix /\ StepUsers' = StepUsers /\ Planned' = Planned
        /\ Pending' = Pending /\ Ahead(WarmupTurns)' = Ahead(WarmupTurns) /\ Ahead(LastTurn)' = Ahead(LastTurn)
        /\ Chained' = Chained /\ LastTurn' = LastTurn
    BY <2>1, CountsStay DEF Suffix, StepUsers, Planned, LastTurn
  <2> HIDE DEF Suffix, Planned, Chained
  <2> QED BY <1>1, <1>3, <2>1, <2>2 DEF CountInv
<1> QED
  BY <1>2, <1>3
  DEF Next, vars, stepVars, ClientStep, Environment, BenchStep, BenchStart, BenchSubmit, BenchExpires, BenchAnswered, BenchBreaks, BenchEnds,
      LadderStep, LadderRead, LadderSend, LadderAnswered, LadderBreaks, JudgeSkips, JudgeLeetcode, JudgeProse,
      AgenticStep, AgenticSend, AgenticAnswered, AgenticHttpError, AgenticBreaks, AgenticRelease, AgenticNoRelease,
      PiStep, PiLaunch, PiPasteFails, PiPaste, PiPoll, PiTimeout, PiWorks, Runs

-----------------------------------------------------------------------------
(* The quick bench *)

\* Each request is served, has failed, or is out; 0 is the end of a bench with
\* nothing out, nothing failed and something served.
BenchInv ==
  /\ issued \in Nat /\ served \in Nat /\ errors \in Nat
  /\ IsFiniteSet(flying) /\ flying \subseteq 1..issued
  /\ issued = served + errors + Cardinality(flying)
  /\ client = "bench" =>
       /\ pc # "ended" => outcome = Null
       /\ outcome = "0" => flying = {} /\ errors = 0 /\ served > 0

LEMMA BenchInvInit == Init => BenchInv
<1> SUFFICES ASSUME Init PROVE BenchInv
  OBVIOUS
<1>1. flying = {} /\ issued = 0 /\ served = 0 /\ errors = 0 /\ outcome = Null
  BY DEF Init, BenchInit
<1>2. IsFiniteSet(flying) /\ Cardinality(flying) = 0
  BY <1>1, FS_EmptySet
<1>3. outcome # "0"
  BY <1>1, BenchConstants
<1> QED BY <1>1, <1>2, <1>3 DEF BenchInv

LEMMA BenchInvStep == BenchInv /\ [Next]_vars => BenchInv'
<1> SUFFICES ASSUME BenchInv, [Next]_vars PROVE BenchInv'
  OBVIOUS
<1>0. /\ client' = client
      /\ issued \in Nat /\ served \in Nat /\ errors \in Nat /\ IsFiniteSet(flying) /\ flying \subseteq 1..issued
      /\ issued = served + errors + Cardinality(flying) /\ Cardinality(flying) \in Nat
      /\ client = "bench" /\ pc # "ended" => outcome = Null /\ outcome # "0"
  BY ClientStays, FS_CardinalityType, BenchConstants DEF BenchInv
<1>1. CASE BenchSubmit
  <2>1. issued' = issued + 1 /\ flying' = flying \union {issued + 1} /\ UNCHANGED <<pc, outcome, served, errors>> /\ pc = "load"
    BY <1>1 DEF BenchSubmit, Runs, stepVars
  <2>2. issued + 1 \notin flying /\ flying' \subseteq 1..issued' /\ issued' \in Nat
    <3>1. /\ issued + 1 \notin 1..issued /\ issued + 1 \in 1..(issued + 1)
          /\ 1..issued \subseteq 1..(issued + 1) /\ issued + 1 \in Nat
      BY <1>0
    <3> QED BY <1>0, <2>1, <3>1
  <2>3. IsFiniteSet(flying') /\ Cardinality(flying') = Cardinality(flying) + 1
    BY <1>0, <2>1, <2>2, FS_AddElement
  <2>4. issued' = served' + errors' + Cardinality(flying')
    BY <1>0, <2>1, <2>3
  <2> QED BY <1>0, <2>1, <2>2, <2>3, <2>4 DEF BenchInv
<1>2. CASE BenchAnswered \/ BenchBreaks
  <2>1. PICK n \in flying : flying' = flying \ {n}
    BY <1>2 DEF BenchAnswered, BenchBreaks
  <2>2. /\ UNCHANGED <<pc, outcome, issued>> /\ pc = "load"
        /\ \/ served' = served + 1 /\ errors' = errors
           \/ served' = served /\ errors' = errors + 1
    BY <1>2 DEF BenchAnswered, BenchBreaks, Runs, stepVars
  <2>3. IsFiniteSet(flying') /\ Cardinality(flying') = Cardinality(flying) - 1
    BY <1>0, <2>1, FS_RemoveElement
  <2>4. issued' = served' + errors' + Cardinality(flying') /\ served' \in Nat /\ errors' \in Nat
    BY <1>0, <2>2, <2>3
  <2>5. flying' \subseteq 1..issued'
    BY <1>0, <2>1, <2>2
  <2> QED BY <1>0, <2>2, <2>3, <2>4, <2>5 DEF BenchInv
<1>3. CASE BenchEnds
  <2>1. flying = {} /\ UNCHANGED <<issued, flying, served, errors>> /\ pc' = "ended"
    BY <1>3 DEF BenchEnds, End, benchVars
  <2>2. outcome' = "0" => errors = 0 /\ served > 0
    BY <1>3 DEF BenchEnds, End
  <2> QED BY <1>0, <2>1, <2>2 DEF BenchInv
<1>4. CASE BenchStart \/ BenchExpires
  <2>1. UNCHANGED <<issued, flying, served, errors>> /\ pc # "ended"
    BY <1>4 DEF BenchStart, BenchExpires, Runs, benchVars
  <2>2. UNCHANGED <<pc, outcome>> \/ (pc' # "ended" /\ outcome' = outcome) \/ (pc' = "ended" /\ outcome' = "raised")
    BY <1>4 DEF BenchStart, BenchExpires, Goto, End, stepVars
  <2> QED BY <1>0, <2>1, <2>2 DEF BenchInv
<1>5. CASE UNCHANGED benchVars /\ (client = "bench" => UNCHANGED stepVars)
  BY <1>0, <1>5 DEF BenchInv, stepVars, benchVars
<1> QED
  BY <1>1, <1>2, <1>3, <1>4, <1>5
  DEF Next, vars, ClientStep, Environment, BenchStep, RampStep,
      LadderStep, LadderRead, LadderSend, LadderAnswered, LadderBreaks, JudgeSkips, JudgeLeetcode, JudgeProse,
      AgenticStep, AgenticSend, AgenticAnswered, AgenticHttpError, AgenticBreaks, AgenticRelease, AgenticNoRelease,
      PiStep, PiLaunch, PiPasteFails, PiPaste, PiPoll, PiTimeout, PiWorks, Runs

\* No turn of the ramp is lost or counted twice, and a user's turns follow each
\* other, whatever breaks, is retried or fails; the quick bench ends with 0
\* only if every request it submitted was served.
THEOREM EveryRequestCounted == Spec => []EveryRequestIsCounted
<1>1. CountInv /\ BenchInv => EveryRequestIsCounted
  <2> SUFFICES ASSUME CountInv, BenchInv PROVE EveryRequestIsCounted
    OBVIOUS
  <2>1. ASSUME client = "ramp", pc \in {"measure", "report"}
        PROVE  /\ submitted = Cardinality(results) + Cardinality(Pending)
               /\ Pending = {} => Cardinality(results) + skipped = Planned
               /\ Chained
    <3>1. /\ submitted = Cardinality(results) + Cardinality(Pending)
          /\ submitted + skipped + Cardinality(Ahead(LastTurn)) = Planned
          /\ Chained /\ Suffix /\ submitted \in Nat /\ skipped \in Nat /\ IsFiniteSet(results)
      BY <2>1 DEF CountInv
    <3>2. ASSUME Pending = {}
          PROVE  Cardinality(results) + skipped = Planned
      <4>1. Ahead(LastTurn) = {}
        BY <3>2 DEF Pending, Ahead
      <4>2. Cardinality(Pending) = 0 /\ Cardinality(Ahead(LastTurn)) = 0 /\ Cardinality(results) \in Nat
        BY <3>1, <3>2, <4>1, FS_EmptySet, FS_CardinalityType
      <4> QED BY <3>1, <4>2
    <3> QED BY <3>1, <3>2
  <2>2. ASSUME client = "bench"
        PROVE  /\ issued = served + errors + Cardinality(flying)
               /\ outcome = "0" => served = issued /\ issued > 0
    <3>1. /\ issued = served + errors + Cardinality(flying) /\ served \in Nat
          /\ outcome = "0" => flying = {} /\ errors = 0 /\ served > 0
      BY <2>2 DEF BenchInv
    <3>2. Cardinality({}) = 0
      BY FS_EmptySet
    <3> QED BY <3>1, <3>2
  <2> QED BY <2>1, <2>2 DEF EveryRequestIsCounted, Pending, Chained
<1> QED BY RampInvInit, RampInvStep, CountInvInit, CountInvStep, BenchInvInit, BenchInvStep, <1>1, PTL DEF Spec

-----------------------------------------------------------------------------
(* Types *)

\* The server: a request's tokens are bounded, what is stray is part of what was
\* counted, and incidents are bounded.
ServerInv ==
  /\ CountersOK /\ RequestsOK
  /\ \A r \in serving : r.tokens <= MaxTokens
  /\ \A f \in Fields : strays[f] <= counters[f]
  /\ others \in Nat /\ epoch + others <= Incidents

LEMMA ServerInvInit == Init => ServerInv
  BY ServerConstants DEF Init, ServerInit, Zero, ServerInv, CountersOK, Counts, RequestsOK, Fields

\* What a step of a program or of the server does to the server.
LEMMA ServerMoves ==
  ASSUME [Next]_vars
  PROVE  \/ UNCHANGED serverVars
         \/ \E who : Accept(who)
         \/ \E r \in serving : Finish(r) \/ Abandon(r)
         \/ ServerNext
<1>1. RampStep => UNCHANGED serverVars \/ (\E who : Accept(who)) \/ \E r \in serving : Finish(r) \/ Abandon(r)
  BY DEF RampStep, RampMain, RampWarmup, RampWarmupEnds, RampScrape, RampMeasured, RampReport, RampWarmed, RampCollect,
         RampThread, RampSend, RampAnswered, RampBreaks, Waiting
<1>2. BenchStep => UNCHANGED serverVars \/ (\E who : Accept(who)) \/ \E r \in serving : Finish(r) \/ Abandon(r)
  BY DEF BenchStep, BenchStart, BenchSubmit, BenchExpires, BenchAnswered, BenchBreaks, BenchEnds, Waiting
<1>3. LadderStep => UNCHANGED serverVars \/ (\E who : Accept(who)) \/ \E r \in serving : Finish(r) \/ Abandon(r)
  BY DEF LadderStep, LadderRead, LadderSend, LadderAnswered, LadderBreaks, JudgeSkips, JudgeLeetcode, JudgeProse, Waiting
<1>4. AgenticStep => UNCHANGED serverVars \/ (\E who : Accept(who)) \/ \E r \in serving : Finish(r) \/ Abandon(r)
  BY DEF AgenticStep, AgenticSend, AgenticAnswered, AgenticHttpError, AgenticBreaks, AgenticRelease, AgenticNoRelease, Waiting
<1>5. PiStep \/ PiWorks => UNCHANGED serverVars
  BY DEF PiStep, PiLaunch, PiPasteFails, PiPaste, PiPoll, PiTimeout, PiWorks
<1>6. UNCHANGED vars => UNCHANGED serverVars
  BY DEF vars
<1> QED BY <1>1, <1>2, <1>3, <1>4, <1>5, <1>6 DEF Next, ClientStep, Environment

\* A count on behalf of a request counts at least as much as is stray.
LEMMA CountedCoversStray ==
  ASSUME CountersOK, \A f \in Fields : strays[f] <= counters[f],
         NEW r, NEW field \in Fields, Count(r, field)
  PROVE  \A f \in Fields : strays'[f] <= counters'[f]
<1>1. \A f \in Fields : strays[f] \in Nat /\ counters[f] \in Nat
  BY DEF CountersOK, Counts, Fields
<1>2. \A f \in Fields : counters'[f] = (IF f = field THEN counters[f] + 1 ELSE counters[f])
  BY DEF Count, Plus, CountersOK, Counts, Fields
<1>3. \A f \in Fields : strays'[f] \in {strays[f], IF f = field THEN strays[f] + 1 ELSE strays[f]}
  BY DEF Count, Plus, CountersOK, Counts, Fields
<1> QED BY <1>1, <1>2, <1>3

LEMMA ServerInvStep == ServerInv /\ [Next]_vars => ServerInv'
<1> SUFFICES ASSUME ServerInv, [Next]_vars PROVE ServerInv'
  OBVIOUS
<1>0. CountersOK /\ RequestsOK /\ MaxTokens \in Nat /\ Incidents \in Nat /\ epoch \in Nat /\ others \in Nat
  BY ServerConstants DEF ServerInv, CountersOK
<1>1. CASE UNCHANGED serverVars
  BY <1>1 DEF serverVars, ServerInv, CountersOK, RequestsOK
<1>2. ASSUME NEW new, new = [who |-> new.who, tokens |-> 0, heard |-> new.heard], new.heard \in BOOLEAN,
             serving' = serving \union {new}, UNCHANGED <<counters, strays, epoch>>,
             others' \in Nat, epoch + others' <= Incidents
      PROVE  ServerInv'
  <2>1. new.tokens = 0
    BY <1>2
  <2>2. RequestsOK' /\ \A r \in serving' : r.tokens <= MaxTokens
    BY <1>0, <1>2, <2>1 DEF ServerInv, RequestsOK
  <2> QED BY <1>0, <1>2, <2>2 DEF ServerInv, CountersOK
<1>3. ASSUME NEW who, Accept(who)
      PROVE  ServerInv'
  <2> DEFINE new == [who |-> who, tokens |-> 0, heard |-> TRUE]
  <2>1. new = [who |-> new.who, tokens |-> 0, heard |-> new.heard] /\ new.heard \in BOOLEAN
    OBVIOUS
  <2>2. serving' = serving \union {new} /\ UNCHANGED <<counters, strays, epoch, others>>
    BY <1>3 DEF Accept
  <2> HIDE DEF new
  <2> QED BY <1>0, <1>2, <2>1, <2>2 DEF ServerInv
<1>4. ASSUME NEW r \in serving, Finish(r) \/ Drop(r)
      PROVE  ServerInv'
  <2>1. serving' = serving \ {r} /\ UNCHANGED <<epoch, others>>
    BY <1>4 DEF Finish, Drop
  <2>2. RequestsOK' /\ \A x \in serving' : x.tokens <= MaxTokens
    BY <2>1 DEF ServerInv, RequestsOK
  <2>3. CountersOK' /\ \A f \in Fields : strays'[f] <= counters'[f]
    <3>1. CASE Drop(r)
      BY <3>1 DEF Drop, ServerInv, CountersOK
    <3>2. CASE Finish(r)
      <4>1. Count(r, "succeeded") /\ "succeeded" \in Fields /\ epoch' = epoch
        BY <3>2 DEF Finish, Fields
      <4> QED BY <1>0, <4>1, CountIsOwn, CountedCoversStray DEF ServerInv
    <3> QED BY <1>4, <3>1, <3>2
  <2> QED BY <2>1, <2>2, <2>3 DEF ServerInv
<1>5. ASSUME NEW r \in serving, NEW s, s = [who |-> s.who, tokens |-> s.tokens, heard |-> s.heard],
             s.tokens \in 0..MaxTokens, s.heard \in BOOLEAN, serving' = (serving \ {r}) \union {s}
      PROVE  RequestsOK' /\ \A x \in serving' : x.tokens <= MaxTokens
  BY <1>0, <1>5 DEF ServerInv, RequestsOK
<1>6. ASSUME NEW r \in serving, Abandon(r)
      PROVE  ServerInv'
  <2>1. CASE Drop(r)
    BY <1>4, <2>1
  <2>2. CASE serving' = (serving \ {r}) \union {[r EXCEPT !.heard = FALSE]} /\ UNCHANGED <<counters, strays, epoch, others, late, log>>
    <3>1. PICK s : s = [r EXCEPT !.heard = FALSE]
      OBVIOUS
    <3>2. s = [who |-> s.who, tokens |-> s.tokens, heard |-> s.heard] /\ s.tokens = r.tokens /\ s.heard = FALSE
      BY <1>0, <3>1 DEF RequestsOK
    <3>3. r.tokens \in 0..MaxTokens
      BY <1>0 DEF ServerInv, RequestsOK
    <3>4. RequestsOK' /\ \A x \in serving' : x.tokens <= MaxTokens
      BY <1>5, <2>2, <3>1, <3>2, <3>3
    <3> QED BY <2>2, <3>4 DEF ServerInv, CountersOK
  <2> QED BY <1>6, <2>1, <2>2 DEF Abandon
<1>7. CASE Generates
  <2>1. PICK r \in serving : /\ r.tokens < MaxTokens /\ Count(r, "generated")
                             /\ serving' = (serving \ {r}) \union {[r EXCEPT !.tokens = @ + 1]}
    BY <1>7 DEF Generates
  <2>2. UNCHANGED <<epoch, others>> /\ "generated" \in Fields
    BY <1>7 DEF Generates, Fields
  <2>3. PICK s : s = [r EXCEPT !.tokens = @ + 1]
    OBVIOUS
  <2>4. s = [who |-> s.who, tokens |-> s.tokens, heard |-> s.heard] /\ s.tokens = r.tokens + 1 /\ s.heard = r.heard
    BY <1>0, <2>1, <2>3 DEF RequestsOK
  <2>5. r.tokens \in Nat /\ r.heard \in BOOLEAN
    BY <1>0, <2>1 DEF RequestsOK
  <2>6. s.tokens \in 0..MaxTokens
    BY <1>0, <2>1, <2>4, <2>5
  <2>7. RequestsOK' /\ \A x \in serving' : x.tokens <= MaxTokens
    BY <1>5, <2>1, <2>3, <2>4, <2>5, <2>6
  <2>8. CountersOK' /\ \A f \in Fields : strays'[f] <= counters'[f]
    BY <1>0, <2>1, <2>2, CountIsOwn, CountedCoversStray DEF ServerInv
  <2> QED BY <2>2, <2>7, <2>8 DEF ServerInv
<1>8. CASE OtherArrives
  <2>1. epoch + others < Incidents /\ others' = others + 1 /\ UNCHANGED <<counters, strays, epoch>>
    BY <1>8 DEF OtherArrives
  <2> DEFINE new == [who |-> <<others', 0>>, tokens |-> 0, heard |-> FALSE]
  <2>2. new = [who |-> new.who, tokens |-> 0, heard |-> new.heard] /\ new.heard \in BOOLEAN
    OBVIOUS
  <2>3. serving' = serving \union {new}
    BY <1>8 DEF OtherArrives
  <2>4. others' \in Nat /\ epoch + others' <= Incidents
    BY <1>0, <2>1
  <2> HIDE DEF new
  <2> QED BY <1>2, <2>1, <2>2, <2>3, <2>4
<1>9. CASE Restart
  <2>1. /\ epoch + others < Incidents /\ epoch' = epoch + 1 /\ others' = others
        /\ serving' = {} /\ counters' = Zero /\ strays' = Zero
    BY <1>9 DEF Restart
  <2>2. epoch' \in Nat /\ epoch' + others' <= Incidents
    BY <1>0, <2>1
  <2>3. CountersOK' /\ \A f \in Fields : strays'[f] <= counters'[f]
    BY <2>1, <2>2 DEF Zero, CountersOK, Counts, Fields
  <2> QED BY <1>0, <2>1, <2>2, <2>3 DEF ServerInv, RequestsOK
<1>10. CASE WritesLog
  BY <1>10 DEF WritesLog, ServerInv, CountersOK, RequestsOK
<1> QED BY <1>1, <1>3, <1>4, <1>6, <1>7, <1>8, <1>9, <1>10, ServerMoves DEF ServerNext, EndsUnheard


\* The ladder ends at its last level, and a gate ends at its third read.
LadderBounds ==
  /\ level \in 0..(Levels + 1) /\ try \in 1..ProseTries /\ reads \in 0..3
  /\ client = "ladder" /\ pc # "ended" => level <= Levels /\ reads < 3

LEMMA LadderBoundsInit == Init => LadderBounds
  BY LadderConstants DEF Init, LadderInit, LadderBounds

LEMMA LadderBoundsStep == LadderBounds /\ [Next]_vars => LadderBounds'
<1> SUFFICES ASSUME LadderBounds, [Next]_vars PROVE LadderBounds'
  OBVIOUS
<1>0. /\ client' = client /\ Levels \in Nat /\ ProseTries \in Nat \ {0}
      /\ level \in 0..(Levels + 1) /\ try \in 1..ProseTries /\ reads \in 0..3
  BY ClientStays, LadderConstants DEF LadderBounds
<1>1. ASSUME NEW step, UNCHANGED <<level, try>>, Settle(step), client = "ladder" => level <= Levels
      PROVE  LadderBounds'
  BY <1>0, <1>1 DEF Settle, Goto, LadderBounds
<1>2. ASSUME NEW how, UNCHANGED <<level, try>>, End(how), reads' \in 0..3
      PROVE  LadderBounds'
  BY <1>0, <1>2 DEF End, LadderBounds
<1>3. CASE LadderRead
  <2>1. client = "ladder" /\ pc # "ended" /\ UNCHANGED <<level, try>> /\ level <= Levels /\ reads < 3
    BY <1>3 DEF LadderRead, LadderBounds
  <2>2. CASE End("raised") /\ UNCHANGED reads
    BY <1>0, <1>2, <2>1, <2>2
  <2>3. CASE reads' = reads + 1 /\ (IF reads' = 3 THEN End("raised") ELSE UNCHANGED stepVars)
    <3>1. reads' \in 0..3 /\ (reads' # 3 => reads' < 3)
      BY <1>0, <2>1, <2>3
    <3>2. CASE reads' = 3
      BY <1>2, <2>1, <2>3, <3>1, <3>2
    <3>3. CASE reads' # 3
      BY <1>0, <2>1, <2>3, <3>1, <3>3 DEF stepVars, LadderBounds
    <3> QED BY <3>2, <3>3
  <2>4. CASE Settle("request") \/ Settle("judge")
    BY <1>1, <2>1, <2>4
  <2> QED BY <1>3, <2>2, <2>3, <2>4 DEF LadderRead
<1>4. CASE LadderSend
  BY <1>0, <1>4 DEF LadderSend, Runs, Goto, ladderVars, LadderBounds
<1>5. CASE LadderAnswered
  <2>1. UNCHANGED <<level, try>> /\ level <= Levels /\ Settle("end_gate")
    BY <1>5 DEF LadderAnswered, Runs, LadderBounds
  <2> QED BY <1>1, <2>1
<1>6. ASSUME NEW r, client = "ladder", pc # "ended", Emit(r)
      PROVE  LadderBounds'
  <2>1. level <= Levels /\ reads < 3
    BY <1>6 DEF LadderBounds
  <2>2. CASE End("stopped") /\ UNCHANGED <<level, try, reads>>
    BY <1>0, <1>2, <2>2
  <2>3. CASE NextRound
    <3>1. try' = 1 /\ try' \in 1..ProseTries
      BY <1>0, <2>3 DEF NextRound
    <3>2. CASE UNCHANGED level /\ Settle("start_gate")
      BY <1>0, <2>1, <3>1, <3>2 DEF Settle, Goto, LadderBounds
    <3>3. CASE level' = level + 1 /\ (IF level' > Levels THEN End("complete") /\ UNCHANGED <<reads, last>> ELSE Settle("start_gate"))
      <4>1. level' \in 0..(Levels + 1) /\ (~(level' > Levels) => level' <= Levels)
        BY <1>0, <2>1, <3>3
      <4> QED BY <1>0, <3>1, <3>3, <4>1 DEF Settle, Goto, End, LadderBounds
    <3> QED BY <2>3, <3>2, <3>3 DEF NextRound
  <2> QED BY <1>6, <2>2, <2>3 DEF Emit
<1>7. CASE LadderBreaks \/ JudgeSkips \/ JudgeLeetcode
  BY <1>6, <1>7 DEF LadderBreaks, JudgeSkips, JudgeLeetcode, Runs
<1>8. CASE JudgeProse
  <2>1. client = "ladder" /\ pc # "ended" /\ level <= Levels
    BY <1>8 DEF JudgeProse, Runs, LadderBounds
  <2>2. CASE try < ProseTries /\ try' = try + 1 /\ Settle("start_gate") /\ UNCHANGED level
    <3>1. try' \in 1..ProseTries
      BY <1>0, <2>2
    <3> QED BY <1>0, <2>1, <2>2, <3>1 DEF Settle, Goto, LadderBounds
  <2>3. CASE End("raised") /\ UNCHANGED <<level, try, reads>>
    BY <1>0, <1>2, <2>3
  <2>4. CASE \E r : Emit(r)
    BY <1>6, <2>1, <2>4
  <2> QED BY <1>8, <2>2, <2>3, <2>4 DEF JudgeProse
<1>9. CASE UNCHANGED ladderVars /\ (client = "ladder" => UNCHANGED stepVars)
  BY <1>0, <1>9 DEF ladderVars, stepVars, LadderBounds
<1> QED
  BY <1>3, <1>4, <1>5, <1>7, <1>8, <1>9
  DEF Next, vars, ClientStep, Environment, RampStep, BenchStep, BenchStart, BenchSubmit, BenchExpires, BenchAnswered, BenchBreaks, BenchEnds,
      LadderStep, AgenticStep, AgenticSend, AgenticAnswered, AgenticHttpError, AgenticBreaks, AgenticRelease, AgenticNoRelease,
      PiStep, PiLaunch, PiPasteFails, PiPaste, PiPoll, PiTimeout, PiWorks, Runs

\* Releases are counted once for each iteration at most.
AgenticBounds ==
  /\ iteration \in 1..Iterations /\ previous \in 0..iteration
  /\ client = "agentic" /\ pc # "ended" => previous < iteration

LEMMA AgenticBoundsInit == Init => AgenticBounds
  BY AgenticConstants DEF Init, AgenticInit, AgenticBounds

LEMMA AgenticBoundsStep == AgenticBounds /\ [Next]_vars => AgenticBounds'
<1> SUFFICES ASSUME AgenticBounds, [Next]_vars PROVE AgenticBounds'
  OBVIOUS
<1>0. client' = client /\ Iterations \in Nat \ {0} /\ iteration \in 1..Iterations /\ previous \in 0..iteration
  BY ClientStays, AgenticConstants DEF AgenticBounds
<1>1. ASSUME client = "agentic", pc # "ended", NEW status, NEW release, Conclude(status, release), previous' \in {previous, previous + 1}
      PROVE  AgenticBounds'
  <2>1. previous < iteration /\ previous' \in 0..iteration
    BY <1>0, <1>1 DEF AgenticBounds
  <2>2. CASE UNCHANGED iteration /\ pc' = "ended"
    BY <1>0, <2>1, <2>2 DEF AgenticBounds
  <2>3. CASE iteration < Iterations /\ iteration' = iteration + 1
    <3>1. iteration' \in 1..Iterations /\ previous' \in 0..iteration' /\ previous' < iteration'
      BY <1>0, <2>1, <2>3
    <3> QED BY <3>1 DEF AgenticBounds
  <2> QED BY <1>1, <2>2, <2>3 DEF Conclude, NoContext, WriteRow, NextIteration, End
<1>2. CASE AgenticHttpError \/ AgenticRelease \/ AgenticNoRelease
  BY <1>1, <1>2 DEF AgenticHttpError, AgenticRelease, AgenticNoRelease, Runs
<1>3. CASE AgenticSend \/ AgenticAnswered \/ AgenticBreaks
  BY <1>0, <1>3 DEF AgenticSend, AgenticAnswered, AgenticBreaks, Runs, Goto, End, agenticVars, AgenticBounds
<1>4. CASE UNCHANGED agenticVars /\ (client = "agentic" => UNCHANGED stepVars)
  BY <1>0, <1>4 DEF agenticVars, stepVars, AgenticBounds
<1> QED
  BY <1>2, <1>3, <1>4
  DEF Next, vars, ClientStep, Environment, RampStep, BenchStep, BenchStart, BenchSubmit, BenchExpires, BenchAnswered, BenchBreaks, BenchEnds,
      LadderStep, LadderRead, LadderSend, LadderAnswered, LadderBreaks, JudgeSkips, JudgeLeetcode, JudgeProse,
      AgenticStep, PiStep, PiLaunch, PiPasteFails, PiPaste, PiPoll, PiTimeout, PiWorks, Runs

\* An answer is taken at the second poll in a row that found no change.
PiBounds ==
  /\ prompt \in 1..Prompts /\ stable \in 0..2 /\ rounds \in 0..ToolRounds
  /\ client = "pi" /\ pc = "poll" => stable < 2

LEMMA PiBoundsInit == Init => PiBounds
  BY PiConstants DEF Init, PiInit, PiBounds, FirstStep

LEMMA PiBoundsStep == PiBounds /\ [Next]_vars => PiBounds'
<1> SUFFICES ASSUME PiBounds, [Next]_vars PROVE PiBounds'
  OBVIOUS
<1>0. /\ client' = client /\ Prompts \in Nat \ {0} /\ ToolRounds \in Nat
      /\ prompt \in 1..Prompts /\ stable \in 0..2 /\ rounds \in 0..ToolRounds
  BY ClientStays, PiConstants DEF PiBounds
<1>1. ASSUME NEW a, PiConclude(a)
      PROVE  prompt' \in 1..Prompts /\ pc' # "poll"
  <2>1. CASE UNCHANGED prompt /\ End("complete")
    BY <1>0, <2>1 DEF End
  <2>2. CASE prompt < Prompts /\ prompt' = prompt + 1 /\ Goto("paste")
    BY <1>0, <2>2 DEF Goto
  <2> QED BY <1>1, <2>1, <2>2 DEF PiConclude, NextPrompt
<1>2. CASE PiLaunch \/ PiPasteFails
  BY <1>0, <1>2 DEF PiLaunch, PiPasteFails, Goto, End, piVars, PiBounds
<1>3. CASE PiPaste
  BY <1>0, <1>3 DEF PiPaste, PiBounds
<1>4. CASE PiPoll
  <2>1. stable < 2 /\ UNCHANGED rounds
    BY <1>4 DEF PiPoll, Runs, PiBounds
  <2>2. stable' \in {0, stable + 1} /\ stable' \in 0..2
    BY <1>0, <1>4, <2>1 DEF PiPoll
  <2>3. CASE UNCHANGED <<stepVars, prompt, answers>> /\ stable' < 2
    BY <1>0, <2>1, <2>2, <2>3 DEF PiBounds
  <2>4. CASE \E a : PiConclude(a)
    BY <1>0, <1>1, <2>1, <2>2, <2>4 DEF PiBounds
  <2>5. stable' < 2 \/ stable' = 2
    BY <2>2
  <2> QED BY <1>4, <2>2, <2>3, <2>4, <2>5 DEF PiPoll
<1>5. CASE PiTimeout
  BY <1>0, <1>1, <1>5 DEF PiTimeout, PiBounds
<1>6. CASE PiWorks
  <2>1. rounds' \in 0..ToolRounds
    <3>1. rounds' = 0 \/ rounds' = rounds \/ (rounds < ToolRounds /\ rounds' = rounds + 1)
      BY <1>6 DEF PiWorks, PiTakes, PiUsesTool, PiReadsTool, PiAnswers
    <3> QED BY <1>0, <3>1
  <2>2. UNCHANGED <<pc, prompt, stable>>
    BY <1>6 DEF PiWorks, stepVars
  <2> QED BY <1>0, <2>1, <2>2 DEF PiBounds
<1>7. CASE UNCHANGED piVars /\ (client = "pi" => UNCHANGED stepVars)
  BY <1>0, <1>7 DEF piVars, stepVars, PiBounds
<1> QED
  BY <1>2, <1>3, <1>4, <1>5, <1>6, <1>7
  DEF Next, vars, ClientStep, Environment, RampStep, BenchStep, BenchStart, BenchSubmit, BenchExpires, BenchAnswered, BenchBreaks, BenchEnds,
      LadderStep, LadderRead, LadderSend, LadderAnswered, LadderBreaks, JudgeSkips, JudgeLeetcode, JudgeProse,
      AgenticStep, AgenticSend, AgenticAnswered, AgenticHttpError, AgenticBreaks, AgenticRelease, AgenticNoRelease,
      PiStep, Runs

\* What is counted in a step of the ramp stays within the step's plan.
LEMMA CountsAreBounded ==
  ASSUME RampInv, CountInv, client \in DOMAIN FirstStep
  PROVE  /\ {submitted, skipped} \subseteq 0..(Head(steps) * (WarmupTurns + TurnsPerUser))
         /\ \A u \in Users :
              /\ thread[u].at \in {"idle", "send", "wait", "done"} /\ thread[u].try \in 0..2
              /\ thread[u].turn \in 0..(WarmupTurns + TurnsPerUser)
<1>0. /\ WarmupTurns \in Nat /\ TurnsPerUser \in Nat \ {0} /\ LastTurn \in Nat /\ Suffix
      /\ submitted \in Nat /\ skipped \in Nat /\ Head(steps) \in Nat \ {0}
  BY RampConstants, StepsOfAPlan DEF LastTurn, CountInv
<1>1. \A n \in Nat, w \in Nat, t \in Nat : n * w >= 0 /\ n * t >= 0 /\ n * (w + t) = n * w + n * t
  OBVIOUS
<1>2. /\ Head(steps) * WarmupTurns \in Nat /\ Planned \in Nat
      /\ Head(steps) * (WarmupTurns + TurnsPerUser) = Head(steps) * WarmupTurns + Planned
  BY <1>0, <1>1 DEF Planned
<1>3. CASE client # "ramp"
  <2>1. thread = [u \in Users |-> Idle] /\ submitted = 0 /\ skipped = 0
    BY <1>3 DEF CountInv
  <2> QED BY <1>0, <1>2, <2>1 DEF Idle
<1>4. CASE client = "ramp"
  <2>1. Cardinality(Ahead(WarmupTurns)) \in Nat /\ Cardinality(Ahead(LastTurn)) \in Nat
    BY <1>0, CountsAreFinite
  <2>2. ASSUME pc \in {"start", "ended"}
        PROVE  {submitted, skipped} \subseteq 0..(Head(steps) * (WarmupTurns + TurnsPerUser))
    BY <1>0, <1>2, <1>4, <2>2 DEF CountInv
  <2>3. ASSUME pc \in {"warmup", "scrape"}
        PROVE  {submitted, skipped} \subseteq 0..(Head(steps) * (WarmupTurns + TurnsPerUser))
    <3>1. skipped = 0 /\ submitted + Cardinality(Ahead(WarmupTurns)) <= Head(steps) * WarmupTurns
      BY <1>4, <2>3 DEF CountInv
    <3>2. submitted <= Head(steps) * WarmupTurns /\ submitted <= Head(steps) * WarmupTurns + Planned
      <4>1. \A a, b, m, p \in Nat : a + b <= m => a <= m /\ a <= m + p
        OBVIOUS
      <4> QED BY <1>0, <1>2, <2>1, <3>1, <4>1
    <3>3. {submitted, skipped} \subseteq 0..(Head(steps) * WarmupTurns + Planned)
      BY <1>0, <1>2, <3>1, <3>2
    <3> QED BY <1>2, <3>3
  <2>4. ASSUME pc \in {"measure", "report"}
        PROVE  {submitted, skipped} \subseteq 0..(Head(steps) * (WarmupTurns + TurnsPerUser))
    <3>1. submitted + skipped + Cardinality(Ahead(LastTurn)) = Planned
      BY <1>4, <2>4 DEF CountInv
    <3>2. submitted <= Head(steps) * WarmupTurns + Planned /\ skipped <= Head(steps) * WarmupTurns + Planned
      <4>1. \A a, b, c, m, p \in Nat : a + b + c = p => a <= m + p /\ b <= m + p
        OBVIOUS
      <4> QED BY <1>0, <1>2, <2>1, <3>1, <4>1
    <3>3. {submitted, skipped} \subseteq 0..(Head(steps) * WarmupTurns + Planned)
      BY <1>0, <1>2, <3>2
    <3> QED BY <1>2, <3>3
  <2>5. {submitted, skipped} \subseteq 0..(Head(steps) * (WarmupTurns + TurnsPerUser))
    BY <1>4, <2>2, <2>3, <2>4 DEF CountInv
  <2>6. ASSUME NEW u \in Users
        PROVE  /\ thread[u].at \in {"idle", "send", "wait", "done"} /\ thread[u].try \in 0..2
               /\ thread[u].turn \in 0..(WarmupTurns + TurnsPerUser)
    <3>1. thread[u].at \in {"idle", "send", "wait", "done"}
      BY <1>4 DEF RampInv, Futures
    <3>2. thread[u].try \in 0..2
      BY <1>4 DEF CountInv
    <3>3. thread[u].turn = 0 \/ thread[u].turn \in 1..WarmupTurns \/ thread[u].turn \in (WarmupTurns + 1)..LastTurn
      BY <1>4 DEF CountInv
    <3> QED BY <1>0, <3>1, <3>2, <3>3 DEF LastTurn
  <2> QED BY <2>5, <2>6
<1> QED BY <1>3, <1>4

\* Each program's counters and each user's turns stay within their bounds, the
\* steps of a ramp are what is left of its plan, and nothing is stray that was
\* not counted.
THEOREM LoadTypeCorrect == Spec => []LoadTypeOK
<1>1. Init => client \in DOMAIN FirstStep
  BY DEF Init
<1>2. client \in DOMAIN FirstStep /\ [Next]_vars => (client \in DOMAIN FirstStep)'
  BY ClientStays DEF FirstStep
<1>3. client \in DOMAIN FirstStep /\ RampInv /\ CountInv /\ BenchInv /\ ServerInv /\ LadderBounds /\ AgenticBounds /\ PiBounds
        => LoadTypeOK
  <2> SUFFICES ASSUME client \in DOMAIN FirstStep, RampInv, CountInv, BenchInv, ServerInv, LadderBounds, AgenticBounds, PiBounds
               PROVE  LoadTypeOK
    OBVIOUS
  <2>1. \A r \in serving : r.tokens \in 0..MaxTokens
    BY ServerConstants DEF ServerInv, RequestsOK
  <2>2. strays.generated \in 0..counters.generated /\ strays.succeeded \in 0..counters.succeeded
    BY DEF ServerInv, CountersOK, Counts, Fields
  <2>3. {epoch, others} \subseteq 0..Incidents
    BY ServerConstants DEF ServerInv, CountersOK
  <2>4. \E plan \in Plans : \E n \in 0..(Len(plan) - 1) : steps = SubSeq(plan, n + 1, Len(plan))
    BY DEF CountInv, Suffix
  <2>5. issued \in Nat /\ flying \subseteq 1..issued /\ {served, errors} \subseteq 0..issued
    <3>1. /\ issued \in Nat /\ served \in Nat /\ errors \in Nat /\ Cardinality(flying) \in Nat
          /\ issued = served + errors + Cardinality(flying) /\ flying \subseteq 1..issued
      BY FS_CardinalityType DEF BenchInv
    <3> QED BY <3>1
  <2>6. previous \in 0..Iterations
    BY AgenticConstants DEF AgenticBounds
  <2> QED BY <2>1, <2>2, <2>3, <2>4, <2>5, <2>6, CountsAreBounded DEF LoadTypeOK, LadderBounds, AgenticBounds, PiBounds
<1> QED
  BY <1>1, <1>2, <1>3, RampInvInit, RampInvStep, CountInvInit, CountInvStep, BenchInvInit, BenchInvStep, ServerInvInit, ServerInvStep,
     LadderBoundsInit, LadderBoundsStep, AgenticBoundsInit, AgenticBoundsStep, PiBoundsInit, PiBoundsStep, PTL
  DEF Spec

-----------------------------------------------------------------------------
(* Why the load programs end.  LoadTestsEnd itself needs fairness and stays *)
(* with TLC; what it rests on is that no step of a program leads back.      *)

\* the stations of a round that are still ahead
RampPlace == [start |-> 5, warmup |-> 4, scrape |-> 3, measure |-> 2, report |-> 1, ended |-> 0]
LadderPlace == [start_gate |-> 5, request |-> 4, answer |-> 3, end_gate |-> 2, judge |-> 1, ended |-> 0]
AgenticPlace == [start |-> 3, answer |-> 2, release |-> 1, ended |-> 0]
BenchPlace == [start |-> 2, load |-> 1, ended |-> 0]
PiPlace == [start |-> 3, paste |-> 2, poll |-> 1, ended |-> 0]

\* a user's future after a step of its thread, or after its result was taken
Forward(old, new) ==
  /\ old.at # "idle"
  /\ \/ new = Idle
     \/ new.turn = old.turn + 1
     \/ new.turn = old.turn /\ new.try = old.try + 1
     \/ /\ new.turn = old.turn /\ new.try = old.try
        /\ <<old.at, new.at>> \in {<<"send", "wait">>, <<"send", "done">>, <<"wait", "done">>}

\* a step of the plan less, a station less, or one user further
RampAdvances ==
  \/ Len(steps) > 1 /\ steps' = Tail(steps)
  \/ steps' = steps /\ RampPlace[pc'] < RampPlace[pc]
  \/ /\ UNCHANGED <<steps, pc>>
     /\ \E u \in Users : /\ Forward(thread[u], thread'[u])
                         /\ \A v \in Users \ {u} : thread'[v] = thread[v]

\* the next level, the prose round, the next try, a station less, one more read
LadderAdvances ==
  \/ level' = level + 1
  \/ level' = level /\ ~prose /\ prose'
  \/ UNCHANGED <<level, prose>> /\ try' = try + 1
  \/ UNCHANGED <<level, prose, try>> /\ LadderPlace[pc'] < LadderPlace[pc]
  \/ UNCHANGED <<level, prose, try, pc>> /\ reads' = reads + 1

\* the next request, or a station less
AgenticAdvances ==
  \/ iteration' = iteration + 1
  \/ iteration' = iteration /\ AgenticPlace[pc'] < AgenticPlace[pc]

\* a station less, the deadline, one more request of those it may submit, or
\* one less in flight
BenchAdvances ==
  \/ BenchPlace[pc'] < BenchPlace[pc]
  \/ pc' = pc /\ ~expired /\ expired'
  \/ /\ UNCHANGED <<pc, expired>> /\ ~expired
     /\ issued' = issued + 1 /\ (BenchMaxRequests > 0 => issued' <= BenchMaxRequests)
  \/ /\ UNCHANGED <<pc, expired, issued>>
     /\ \E n \in flying : flying' = flying \ {n}

\* the next prompt, a station less, or one more poll, which only the deadline ends
PiAdvances ==
  \/ prompt' = prompt + 1
  \/ prompt' = prompt /\ PiPlace[pc'] < PiPlace[pc]
  \/ UNCHANGED <<prompt, pc>> /\ pc = "poll"

Advances ==
  CASE client = "ramp" -> RampAdvances
    [] client = "bench" -> BenchAdvances
    [] client = "ladder" -> LadderAdvances
    [] client = "agentic" -> AgenticAdvances
    [] client = "pi" -> PiAdvances

\* what the environment leaves alone
Standing == <<pc, rampVars, benchVars, ladderVars, agenticVars, prompt>>

LEMMA RampOn ==
  ASSUME RampInv, CountInv, client = "ramp", RampStep
  PROVE  RampAdvances
<1>0. thread \in [Users -> Futures] /\ steps \in Seq(Nat \ {0})
  BY StepsOfAPlan DEF RampInv, CountInv
<1>1. ASSUME NEW u \in Users, NEW f, Set(u, f), Forward(thread[u], f), UNCHANGED <<steps, pc>>
      PROVE  RampAdvances
  BY <1>0, <1>1 DEF Set, RampAdvances
<1>2. ASSUME NEW u \in Users, RampThread(u)
      PROVE  RampAdvances
  <2>0. thread[u].at \in {"send", "wait"} /\ UNCHANGED <<steps, pc>> /\ thread[u] \in Futures
    BY <1>0, <1>2 DEF RampThread, RampSend, RampAnswered, RampBreaks, stepVars
  <2>1. ASSUME NEW ok, Done(u, ok) PROVE RampAdvances
    <3>1. PICK f : f = [thread[u] EXCEPT !.at = "done", !.ok = ok]
      OBVIOUS
    <3>2. f.at = "done" /\ f.turn = thread[u].turn /\ f.try = thread[u].try
      BY <2>0, <3>1 DEF Futures
    <3>3. Forward(thread[u], f)
      BY <2>0, <3>2 DEF Forward
    <3> QED BY <1>1, <2>0, <2>1, <3>1, <3>3 DEF Done
  <2>2. CASE thread[u].at = "send" /\ Set(u, [thread[u] EXCEPT !.at = "wait"])
    <3>1. PICK f : f = [thread[u] EXCEPT !.at = "wait"]
      OBVIOUS
    <3>2. f.at = "wait" /\ f.turn = thread[u].turn /\ f.try = thread[u].try
      BY <2>0, <3>1 DEF Futures
    <3>3. Forward(thread[u], f)
      BY <2>2, <3>2 DEF Forward
    <3> QED BY <1>1, <2>0, <2>2, <3>1, <3>3
  <2>3. CASE thread[u].try = 1 /\ Set(u, [thread[u] EXCEPT !.at = "send", !.try = 2])
    <3>1. PICK f : f = [thread[u] EXCEPT !.at = "send", !.try = 2]
      OBVIOUS
    <3>2. f.turn = thread[u].turn /\ f.try = thread[u].try + 1
      BY <2>0, <2>3, <3>1 DEF Futures
    <3>3. Forward(thread[u], f)
      BY <2>0, <3>2 DEF Forward
    <3> QED BY <1>1, <2>0, <2>3, <3>1, <3>3
  <2> QED BY <1>2, <2>1, <2>2, <2>3 DEF RampThread, RampSend, RampAnswered, RampBreaks, Retries
<1>3. ASSUME NEW u \in Users, RampWarmed(u) \/ RampCollect(u)
      PROVE  RampAdvances
  <2>1. thread[u].at = "done" /\ UNCHANGED <<steps, pc>>
    BY <1>3 DEF RampWarmed, RampCollect, stepVars
  <2>2. Set(u, Idle) \/ Set(u, Future(thread[u].turn + 1))
    BY <1>3 DEF RampWarmed, RampCollect
  <2>3. Forward(thread[u], Idle) /\ Forward(thread[u], Future(thread[u].turn + 1))
    BY <2>1 DEF Forward, Future
  <2> QED BY <1>1, <2>1, <2>2, <2>3
<1>4. CASE RampWarmup \/ RampWarmupEnds \/ RampScrape \/ RampMeasured
  BY <1>4 DEF RampWarmup, RampWarmupEnds, RampScrape, RampMeasured, Runs, Goto, End, rampVars, RampPlace, RampAdvances
<1>5. CASE RampReport
  <2>1. Runs("ramp", "report") /\ (pc' = "ended" \/ (Len(steps) > 1 /\ pc' = "start"))
    BY <1>5 DEF RampReport, End, Goto
  <2>2. steps' = IF pc' = "start" THEN Tail(steps) ELSE steps
    BY <1>5 DEF RampReport
  <2> QED BY <2>1, <2>2 DEF Runs, RampPlace, RampAdvances
<1> QED BY <1>2, <1>3, <1>4, <1>5 DEF RampStep, RampMain

LEMMA BenchOn ==
  ASSUME BenchInv, client = "bench", BenchStep
  PROVE  BenchAdvances
<1>1. CASE BenchStart \/ BenchEnds
  BY <1>1 DEF BenchStart, BenchEnds, Runs, Goto, End, BenchPlace, BenchAdvances
<1>2. CASE BenchSubmit
  BY <1>2, BenchConstants DEF BenchInv, BenchSubmit, Room, stepVars, BenchAdvances
<1>3. CASE BenchExpires
  BY <1>3 DEF BenchExpires, stepVars, BenchAdvances
<1>4. CASE BenchAnswered \/ BenchBreaks
  BY <1>4 DEF BenchAnswered, BenchBreaks, stepVars, BenchAdvances
<1> QED BY <1>1, <1>2, <1>3, <1>4 DEF BenchStep

LEMMA LadderOn ==
  ASSUME LadderBounds, client = "ladder", LadderStep
  PROVE  LadderAdvances
<1>1. CASE LadderRead
  <2>1. pc \in {"start_gate", "end_gate"} /\ UNCHANGED <<level, prose, try>>
    BY <1>1 DEF LadderRead
  <2>2. CASE \E how : End(how)
    BY <2>1, <2>2 DEF End, LadderPlace, LadderAdvances
  <2>3. CASE reads' = reads + 1 /\ UNCHANGED stepVars
    BY <2>1, <2>3 DEF stepVars, LadderAdvances
  <2>4. CASE (pc = "start_gate" /\ Settle("request")) \/ (pc = "end_gate" /\ Settle("judge"))
    BY <2>1, <2>4 DEF Settle, Goto, LadderPlace, LadderAdvances
  <2> QED BY <1>1, <2>2, <2>3, <2>4 DEF LadderRead
<1>2. CASE LadderSend \/ LadderAnswered
  BY <1>2 DEF LadderSend, LadderAnswered, Runs, Goto, Settle, ladderVars, LadderPlace, LadderAdvances
<1>3. ASSUME NEW r, pc \in {"answer", "judge"}, Emit(r)
      PROVE  LadderAdvances
  <2>1. CASE End("stopped") /\ UNCHANGED <<level, prose, try>>
    BY <1>3, <2>1 DEF End, LadderPlace, LadderAdvances
  <2>2. CASE NextRound
    BY <2>2 DEF NextRound, LadderAdvances
  <2> QED BY <1>3, <2>1, <2>2 DEF Emit
<1>4. CASE LadderBreaks \/ JudgeSkips \/ JudgeLeetcode
  BY <1>3, <1>4 DEF LadderBreaks, JudgeSkips, JudgeLeetcode, Runs
<1>5. CASE JudgeProse
  <2>1. pc = "judge"
    BY <1>5 DEF JudgeProse, Runs
  <2>2. CASE try' = try + 1 /\ UNCHANGED <<level, prose>>
    BY <2>2 DEF LadderAdvances
  <2>3. CASE End("raised") /\ UNCHANGED <<level, prose, try>>
    BY <2>1, <2>3 DEF End, LadderPlace, LadderAdvances
  <2>4. CASE \E r : Emit(r)
    BY <1>3, <2>1, <2>4
  <2> QED BY <1>5, <2>2, <2>3, <2>4 DEF JudgeProse
<1> QED BY <1>1, <1>2, <1>4, <1>5 DEF LadderStep

LEMMA AgenticOn ==
  ASSUME client = "agentic", AgenticStep
  PROVE  AgenticAdvances
<1>1. CASE AgenticSend \/ AgenticAnswered \/ AgenticBreaks
  BY <1>1 DEF AgenticSend, AgenticAnswered, AgenticBreaks, Runs, Goto, End, agenticVars, AgenticPlace, AgenticAdvances
<1>2. ASSUME NEW status, NEW release, pc \in {"answer", "release"}, Conclude(status, release)
      PROVE  AgenticAdvances
  <2>1. iteration' = iteration + 1 \/ (iteration' = iteration /\ pc' = "ended")
    BY <1>2 DEF Conclude, NoContext, WriteRow, NextIteration, End
  <2> QED BY <1>2, <2>1 DEF AgenticPlace, AgenticAdvances
<1> QED BY <1>1, <1>2 DEF AgenticStep, AgenticHttpError, AgenticRelease, AgenticNoRelease, Runs

LEMMA PiOn ==
  ASSUME client = "pi", PiStep
  PROVE  PiAdvances
<1>1. CASE PiLaunch \/ PiPasteFails \/ PiPaste
  BY <1>1 DEF PiLaunch, PiPasteFails, PiPaste, Runs, Goto, End, piVars, PiPlace, PiAdvances
<1>2. ASSUME NEW a, pc = "poll", PiConclude(a)
      PROVE  PiAdvances
  BY <1>2 DEF PiConclude, NextPrompt, Goto, End, PiPlace, PiAdvances
<1>3. CASE PiPoll
  BY <1>2, <1>3 DEF PiPoll, Runs, stepVars, PiAdvances
<1>4. CASE PiTimeout
  BY <1>2, <1>4 DEF PiTimeout, Runs
<1> QED BY <1>1, <1>3, <1>4 DEF PiStep

\* No step of a load program leads back: each takes it one station, turn, try,
\* round, prompt or request further in an order that only goes so far
\* (LoadTypeOK), and neither the server nor pi moves it.  The two waits that the
\* order leaves open end by the clock: an unlimited quick bench at its deadline,
\* pi's polls at the prompt's.
THEOREM ProgramsAdvance ==
  Spec => [][(ClientStep => Advances) /\ (Environment => UNCHANGED Standing)]_vars
<1>1. client \in DOMAIN FirstStep /\ RampInv /\ CountInv /\ BenchInv /\ LadderBounds /\ Next
        => (ClientStep => Advances)
  <2> SUFFICES ASSUME client \in DOMAIN FirstStep, RampInv, CountInv, BenchInv, LadderBounds, ClientStep
               PROVE  Advances
    OBVIOUS
  <2>1. CASE RampStep
    BY <2>1, RampOn DEF RampStep, Advances
  <2>2. CASE BenchStep
    <3>1. client = "bench"
      BY <2>2 DEF BenchStep, BenchStart, BenchSubmit, BenchExpires, BenchAnswered, BenchBreaks, BenchEnds, Runs
    <3> QED BY <2>2, <3>1, BenchOn DEF Advances
  <2>3. CASE LadderStep
    <3>1. client = "ladder"
      BY <2>3 DEF LadderStep, LadderRead, LadderSend, LadderAnswered, LadderBreaks, JudgeSkips, JudgeLeetcode, JudgeProse, Runs
    <3> QED BY <2>3, <3>1, LadderOn DEF Advances
  <2>4. CASE AgenticStep
    <3>1. client = "agentic"
      BY <2>4 DEF AgenticStep, AgenticSend, AgenticAnswered, AgenticHttpError, AgenticBreaks, AgenticRelease, AgenticNoRelease, Runs
    <3> QED BY <2>4, <3>1, AgenticOn DEF Advances
  <2>5. CASE PiStep
    <3>1. client = "pi"
      BY <2>5 DEF PiStep, PiLaunch, PiPasteFails, PiPaste, PiPoll, PiTimeout, Runs
    <3> QED BY <2>5, <3>1, PiOn DEF Advances
  <2> QED BY <2>1, <2>2, <2>3, <2>4, <2>5 DEF ClientStep
<1>2. Environment => UNCHANGED Standing
  BY DEF Environment, PiWorks, piVars, stepVars, Standing
<1>3. Init => client \in DOMAIN FirstStep
  BY DEF Init
<1>4. client \in DOMAIN FirstStep /\ [Next]_vars => (client \in DOMAIN FirstStep)'
  BY ClientStays DEF FirstStep
<1> DEFINE On == (ClientStep => Advances) /\ (Environment => UNCHANGED Standing)
<1>5. client \in DOMAIN FirstStep /\ RampInv /\ CountInv /\ BenchInv /\ LadderBounds /\ [Next]_vars => [On]_vars
  BY <1>1, <1>2
<1> QED
  BY <1>3, <1>4, <1>5, RampInvInit, RampInvStep, CountInvInit, CountInvStep, BenchInvInit, BenchInvStep, LadderBoundsInit, LadderBoundsStep, PTL
  DEF Spec
=============================================================================
