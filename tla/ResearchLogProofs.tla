------------------------- MODULE ResearchLogProofs -------------------------
(***************************************************************************)
(* Proofs about ResearchLog for any writers, hypotheses and registrations, *)
(* and a log of any length: however many writers race and die, verify()    *)
(* tells a file without a stale line and without an edit from any other,   *)
(* and what it accepts obeys the rules of registration.                    *)
(***************************************************************************)
EXTENDS ResearchLog, SequenceTheorems, FiniteSetTheorems, WellFoundedInduction, TLAPS

IsSeq(s) == \E S : s \in Seq(S)

\* What every appended line owes to the entries its writer had read.
GoodLine(s, e) ==
  /\ e.seq = NextSeq(s) /\ e.prev = PrevHash(s) /\ e.hash = Hash(e)
  /\ "verdict" \in DOMAIN e
  /\ e.type = "hypothesis" => /\ ~IsRegistered(s, e.id)
                              /\ Accepted(s, e.form) /\ e.form \in Forms
  /\ e.type = "marker" /\ e.id = V3 => HasMarker(s, V2)

\* The same of a stored line i whose writer had read the first k.
Follows(i, k) ==
  /\ log[i].seq = IF k = 0 THEN 0 ELSE log[k].seq + 1
  /\ log[i].type = "hypothesis" => \A j \in 1..k :
       /\ ~(log[j].type = "hypothesis" /\ log[j].id = log[i].id)
       /\ log[j].type = "marker" /\ log[j].id = V2 => V2Supplied(log[i].form)
       /\ log[j].type = "marker" /\ log[j].id = V3 => log[i].form.v3 = "given"
  /\ log[i].type = "marker" /\ log[i].id = V3 =>
       \E j \in 1..k : log[j].type = "marker" /\ log[j].id = V2

Sequences == IsSeq(log) /\ \A w \in Writers : IsSeq(seen[w])

\* Until a line is edited, what a writer has read is a prefix of the file.
ViewsArePrefixes ==
  ~edited => \A w \in Writers :
    /\ Len(seen[w]) <= Len(log)
    /\ \A i \in 1..Len(seen[w]) : seen[w][i] = log[i]
    /\ pc[w] \in {V3, "markV3"} => HasMarker(seen[w], V2)

LinesFollow ==
  ~edited => \A i \in 1..Len(log) :
    /\ log[i].hash = Hash(log[i]) /\ "verdict" \in DOMAIN log[i] /\ log[i].seq \in Nat
    /\ \E k \in 0..(i - 1) : Follows(i, k)

\* A readable, unedited chain is broken by stale lines and by nothing else.
ChainTellsStale == ~torn /\ ~edited => (ChainOk(log) <=> ~stale)

IInv == /\ Sequences /\ DOMAIN pc = Writers
        /\ DOMAIN seen = Writers /\ seen = [w \in Writers |-> seen[w]]
        /\ ViewsArePrefixes /\ LinesFollow /\ ChainTellsStale
        /\ edited => ~ChainOk(log)

LEMMA SeqFacts ==
  ASSUME NEW s, IsSeq(s)
  PROVE  /\ Len(s) \in Nat /\ DOMAIN s = 1..Len(s)
         /\ s = <<>> <=> Len(s) = 0
  BY DEF IsSeq

LEMMA AppendFacts ==
  ASSUME NEW s, NEW e, IsSeq(s)
  PROVE  /\ IsSeq(Append(s, e)) /\ Len(Append(s, e)) = Len(s) + 1
         /\ \A i \in 1..Len(s) : Append(s, e)[i] = s[i]
         /\ Append(s, e)[Len(s) + 1] = e
<1>1. PICK S : s \in Seq(S)
  BY DEF IsSeq
<1>2. s \in Seq(S \union {e})
  BY <1>1
<1>3. Append(s, e) \in Seq(S \union {e})
  BY <1>2
<1> QED
  BY <1>2, <1>3 DEF IsSeq

\* Appending does not mend a chain, and a good line read from the file extends it.
LEMMA AppendToChain ==
  ASSUME NEW s, NEW e, IsSeq(s)
  PROVE  /\ ChainOk(Append(s, e)) => ChainOk(s)
         /\ ChainOk(s) /\ GoodLine(s, e) => ChainOk(Append(s, e))
<1>1. Len(s) \in Nat /\ DOMAIN s = 1..Len(s) /\ (s = <<>> <=> Len(s) = 0)
  BY SeqFacts
<1>2. /\ DOMAIN Append(s, e) = 1..(Len(s) + 1)
      /\ \A i \in 1..Len(s) : Append(s, e)[i] = s[i]
      /\ Append(s, e)[Len(s) + 1] = e
  BY AppendFacts, SeqFacts
<1>3. ASSUME ChainOk(Append(s, e))
      PROVE  ChainOk(s)
  BY <1>1, <1>2, <1>3 DEF ChainOk
<1>4. ASSUME ChainOk(s), GoodLine(s, e)
      PROVE  ChainOk(Append(s, e))
  <2> DEFINE t == Append(s, e)
  <2>1. ASSUME NEW i \in 1..Len(s)
        PROVE  /\ t[i].seq = i - 1
               /\ t[i].prev = IF i = 1 THEN <<>> ELSE t[i - 1].hash
               /\ t[i].hash = Hash(t[i])
    BY <1>1, <1>2, <1>4, <2>1 DEF ChainOk
  <2>2. CASE s = <<>>
    BY <1>1, <1>2, <1>4, <2>2 DEF ChainOk, GoodLine, NextSeq, PrevHash
  <2>3. CASE s # <<>>
    <3>1. Last(s) = s[Len(s)] /\ Len(s) \in 1..Len(s) /\ Len(s) + 1 # 1
      BY <1>1, <2>3 DEF Last
    <3>2. s[Len(s)].seq = Len(s) - 1
      BY <1>1, <1>4, <3>1 DEF ChainOk
    <3>3. e.seq = Len(s) /\ e.prev = s[Len(s)].hash /\ e.hash = Hash(e)
      BY <1>1, <1>4, <2>3, <3>1, <3>2 DEF GoodLine, NextSeq, PrevHash
    <3>4. ASSUME NEW i \in 1..(Len(s) + 1)
          PROVE  /\ t[i].seq = i - 1
                 /\ t[i].prev = IF i = 1 THEN <<>> ELSE t[i - 1].hash
                 /\ t[i].hash = Hash(t[i])
      <4>1. CASE i \in 1..Len(s)
        BY <2>1, <4>1
      <4>2. CASE i = Len(s) + 1
        BY <1>1, <1>2, <3>1, <3>3, <4>2
      <4> QED
        BY <1>1, <4>1, <4>2
    <3> QED
      BY <1>2, <3>4 DEF ChainOk
  <2> QED
    BY <2>2, <2>3
<1> QED
  BY <1>3, <1>4

LEMMA Labels == /\ "idle" \notin {V3, "markV3"} /\ "read" \notin {V3, "markV3"}
                /\ "markV2" \notin {V3, "markV3"} /\ V2 \notin {V3, "markV3"}
  BY IdAssumption

LEMMA InitInductive == Init => IInv
<1> SUFFICES ASSUME Init PROVE IInv
  OBVIOUS
<1>1. log = <<>> /\ ~edited /\ \A w \in Writers : seen[w] = <<>> /\ pc[w] = "idle"
  BY DEF Init
<1>2. IsSeq(<<>>) /\ Len(<<>>) = 0 /\ DOMAIN <<>> = {}
  BY DEF IsSeq
<1>3. /\ Sequences /\ DOMAIN pc = Writers
      /\ DOMAIN seen = Writers /\ seen = [w \in Writers |-> seen[w]]
  BY <1>1, <1>2 DEF Init, Sequences
<1>4. ViewsArePrefixes
  BY <1>1, <1>2, Labels DEF ViewsArePrefixes
<1>5. LinesFollow
  BY <1>1, <1>2 DEF LinesFollow
<1>6. ChainTellsStale
  BY <1>1, <1>2 DEF Init, ChainTellsStale, ChainOk
<1> QED
  BY <1>1, <1>3, <1>4, <1>5, <1>6 DEF IInv

\* A good line, seen from the file it is appended to, follows what its writer read.
LEMMA GoodLineFollows ==
  ASSUME IInv, ~edited, NEW w \in Writers, NEW e, GoodLine(seen[w], e),
         log' = Append(log, e)
  PROVE  \A i \in 1..Len(log') :
           /\ log'[i].hash = Hash(log'[i]) /\ "verdict" \in DOMAIN log'[i] /\ log'[i].seq \in Nat
           /\ (\E k \in 0..(i - 1) : Follows(i, k))'
<1> DEFINE v == seen[w]
<1>0. PICK n, m : n = Len(log) /\ m = Len(v)
  OBVIOUS
<1>1. /\ n \in Nat /\ m \in Nat /\ DOMAIN v = 1..m
      /\ v = <<>> <=> m = 0
      /\ m <= n
      /\ \A i \in 1..m : v[i] = log[i]
  BY <1>0, SeqFacts DEF IInv, Sequences, ViewsArePrefixes
<1>2. /\ Len(log') = n + 1
      /\ \A i \in 1..n : log'[i] = log[i]
      /\ log'[n + 1] = e
  BY <1>0, AppendFacts DEF IInv, Sequences
<1>3. ASSUME NEW i \in 1..n
      PROVE  /\ log'[i].hash = Hash(log'[i]) /\ "verdict" \in DOMAIN log'[i] /\ log'[i].seq \in Nat
             /\ (\E k \in 0..(i - 1) : Follows(i, k))'
  <2>1. PICK k \in 0..(i - 1) : Follows(i, k)
    BY <1>0, <1>3 DEF IInv, LinesFollow
  <2>2. \A j \in 1..k : log'[j] = log[j]
    BY <1>1, <1>2, <1>3, <2>1
  <2>3. k # 0 => log'[k] = log[k]
    <3>1. k # 0 => k \in 1..k
      BY <1>1, <1>3
    <3> QED
      BY <2>2, <3>1
  <2>4. log'[i] = log[i]
    BY <1>2
  <2>5. Follows(i, k)'
    BY <2>1, <2>2, <2>3, <2>4, ZenonT(60) DEF Follows
  <2> QED
    BY <1>0, <1>2, <1>3, <2>5 DEF IInv, LinesFollow
<1>4. /\ e.hash = Hash(e) /\ "verdict" \in DOMAIN e /\ e.seq \in Nat
      /\ Follows(n + 1, m)'
  <2>1. e.seq = IF m = 0 THEN 0 ELSE v[m].seq + 1
    BY <1>0, <1>1 DEF GoodLine, NextSeq, Last
  <2>2. \A j \in 1..m : log'[j] = v[j] /\ v[j].seq \in Nat
    BY <1>0, <1>1, <1>2 DEF IInv, LinesFollow
  <2>3. e.seq \in Nat /\ e.seq = IF m = 0 THEN 0 ELSE log'[m].seq + 1
    <3>1. CASE m = 0
      BY <2>1, <3>1
    <3>2. CASE m # 0
      <4>1. m \in 1..m
        BY <1>1, <3>2
      <4>2. log'[m] = v[m] /\ v[m].seq \in Nat
        BY <2>2, <4>1
      <4> QED
        BY <2>1, <3>2, <4>2
    <3> QED
      BY <3>1, <3>2
  <2>4. ASSUME e.type = "hypothesis", NEW j \in 1..m
        PROVE  /\ ~(v[j].type = "hypothesis" /\ v[j].id = e.id)
               /\ v[j].type = "marker" /\ v[j].id = V2 => V2Supplied(e.form)
               /\ v[j].type = "marker" /\ v[j].id = V3 => e.form.v3 = "given"
    BY <1>1, <2>4, FormAssumption DEF GoodLine, IsRegistered, Accepted, HasMarker
  <2>5. ASSUME e.type = "marker", e.id = V3
        PROVE  \E j \in 1..m : v[j].type = "marker" /\ v[j].id = V2
    BY <1>1, <2>5 DEF GoodLine, HasMarker
  <2> QED
    BY <1>2, <2>2, <2>3, <2>4, <2>5 DEF Follows, GoodLine
<1>5. SUFFICES ASSUME NEW i \in 1..(n + 1)
               PROVE  /\ log'[i].hash = Hash(log'[i]) /\ "verdict" \in DOMAIN log'[i]
                      /\ log'[i].seq \in Nat
                      /\ (\E k \in 0..(i - 1) : Follows(i, k))'
  BY <1>2
<1>6. CASE i \in 1..n
  BY <1>3, <1>6
<1>7. CASE i = n + 1
  <2>1. m \in 0..(i - 1)
    BY <1>1, <1>7
  <2> QED
    BY <1>2, <1>4, <1>7, <2>1, ZenonT(60) DEF Follows
<1>8. i \in 1..n \/ i = n + 1
  BY <1>1
<1> QED
  BY <1>6, <1>7, <1>8

\* A line of a writer that missed another one repeats that one's seq.
LEMMA StaleLineBreaksChain ==
  ASSUME IInv, ~edited, NEW w \in Writers, NEW e, GoodLine(seen[w], e), seen[w] # log
  PROVE  ~ChainOk(Append(log, e))
<1> SUFFICES ASSUME ChainOk(Append(log, e))
             PROVE  FALSE
  OBVIOUS
<1> DEFINE v == seen[w]
<1>1. /\ Len(log) \in Nat /\ Len(v) \in Nat
      /\ v = <<>> <=> Len(v) = 0
      /\ Len(v) <= Len(log)
      /\ \A i \in 1..Len(v) : v[i] = log[i]
  BY SeqFacts DEF IInv, Sequences, ViewsArePrefixes
<1>2. Len(v) # Len(log)
  <2>1. PICK S : v \in Seq(S)
    BY DEF IInv, Sequences, IsSeq
  <2>2. PICK T : log \in Seq(T)
    BY DEF IInv, Sequences, IsSeq
  <2>3. v \in Seq(S \union T) /\ log \in Seq(S \union T)
    BY <2>1, <2>2
  <2> HIDE DEF v
  <2>4. Len(v) = Len(log) => v = log
    BY <1>1, <2>3, SeqEqual
  <2> QED
    BY <2>4 DEF v
<1>3. PICK t : t = Append(log, e)
  OBVIOUS
<1>4. /\ DOMAIN t = 1..(Len(log) + 1)
      /\ \A i \in 1..Len(log) : t[i] = log[i]
      /\ t[Len(log) + 1] = e
      /\ ChainOk(t)
  <2>1. IsSeq(log)
    BY DEF IInv, Sequences
  <2>2. IsSeq(Append(log, e)) /\ Len(Append(log, e)) = Len(log) + 1
    BY <2>1, AppendFacts
  <2>3. DOMAIN Append(log, e) = 1..(Len(log) + 1)
    BY <2>2, SeqFacts
  <2>4. \A i \in 1..Len(log) : Append(log, e)[i] = log[i]
    BY <2>1, AppendFacts
  <2>5. Append(log, e)[Len(log) + 1] = e
    BY <2>1, AppendFacts
  <2> QED
    BY <1>3, <2>3, <2>4, <2>5
<1>5. e.seq = Len(log)
  <2>1. Len(log) + 1 \in DOMAIN t /\ t[Len(log) + 1] = e
    BY <1>1, <1>4
  <2>2. t[Len(log) + 1].seq = (Len(log) + 1) - 1
    BY <1>4, <2>1 DEF ChainOk
  <2> QED
    BY <1>1, <2>1, <2>2
<1>6. e.seq = IF Len(v) = 0 THEN 0 ELSE v[Len(v)].seq + 1
  <2>1. e.seq = NextSeq(v)
    BY DEF GoodLine
  <2>2. v = <<>> <=> Len(v) = 0
    BY <1>1
  <2> HIDE DEF v
  <2> QED
    BY <2>1, <2>2 DEF NextSeq, Last
<1>7. CASE Len(v) = 0
  BY <1>2, <1>5, <1>6, <1>7
<1>8. CASE Len(v) # 0
  <2>1. Len(v) \in 1..Len(v) /\ Len(v) \in 1..Len(log)
    BY <1>1, <1>8
  <2>2. Len(v) \in DOMAIN t /\ t[Len(v)] = v[Len(v)]
    BY <1>1, <1>4, <2>1
  <2>3. v[Len(v)].seq = Len(v) - 1
    BY <1>4, <2>2 DEF ChainOk
  <2> QED
    BY <1>1, <1>2, <1>5, <1>6, <1>8, <2>3
<1> QED
  BY <1>7, <1>8

LEMMA WriteInductive ==
  ASSUME IInv, NEW w \in Writers, NEW e, pc[w] # "idle", Write(w, e),
         edited \/ GoodLine(seen[w], e)
  PROVE  IInv'
<1> USE DEF Write, Goto
<1>1. Sequences' /\ (/\ DOMAIN pc = Writers /\ DOMAIN seen = Writers
                 /\ seen = [u \in Writers |-> seen[u]])'
  <2>1. IsSeq(<<>>)
    BY DEF IsSeq
  <2> QED
    BY <2>1, AppendFacts DEF IInv, Sequences
<1>2. Len(log) \in Nat /\ (torn => log' = log) /\ (~torn => log' = Append(log, e))
  BY SeqFacts DEF IInv, Sequences
<1>3. Len(log') >= Len(log) /\ \A i \in 1..Len(log) : log'[i] = log[i]
  BY <1>2, AppendFacts DEF IInv, Sequences
<1>4. ViewsArePrefixes'
  <2>1. ASSUME ~edited, NEW u \in Writers
        PROVE  /\ Len(seen'[u]) <= Len(log')
               /\ \A i \in 1..Len(seen'[u]) : seen'[u][i] = log'[i]
               /\ pc'[u] \in {V3, "markV3"} => HasMarker(seen'[u], V2)
    <3>1. CASE u = w
      <4>1. seen'[u] = <<>> /\ pc'[u] = "idle" /\ Len(<<>>) = 0
        BY <3>1 DEF IInv
      <4>2. Len(log') \in Nat
        BY <1>1, SeqFacts DEF Sequences
      <4> QED
        BY <4>1, <4>2, Labels
    <3>2. CASE u # w
      <4>1. seen'[u] = seen[u] /\ pc'[u] = pc[u]
        BY <3>2 DEF IInv
      <4>2. Len(seen[u]) \in Nat
        BY SeqFacts DEF IInv, Sequences
      <4> QED
        BY <1>2, <1>3, <2>1, <4>1, <4>2 DEF IInv, ViewsArePrefixes
    <3> QED
      BY <3>1, <3>2
  <2> QED
    BY <2>1 DEF ViewsArePrefixes
<1>5. LinesFollow'
  <2>1. CASE torn
    BY <1>2, <2>1 DEF IInv, LinesFollow, Follows
  <2>2. CASE ~torn
    BY <1>2, <2>2, GoodLineFollows DEF LinesFollow
  <2> QED
    BY <2>1, <2>2
<1>6. ChainTellsStale'
  <2>1. ASSUME ~torn, ~edited, seen[w] = log
        PROVE  ChainOk(log') <=> ~stale'
    BY <1>2, <2>1, AppendToChain DEF IInv, Sequences, ChainTellsStale
  <2>2. ASSUME ~torn, ~edited, seen[w] # log
        PROVE  ~ChainOk(log') /\ stale'
    BY <1>2, <2>2, StaleLineBreaksChain
  <2> QED
    BY <2>1, <2>2 DEF ChainTellsStale
<1>7. edited' => ~ChainOk(log')
  BY <1>2, AppendToChain DEF IInv, Sequences
<1> QED
  BY <1>1, <1>4, <1>5, <1>6, <1>7 DEF IInv

\* A step of a writer that leaves the file alone.
LEMMA QuietInductive ==
  ASSUME IInv, NEW w \in Writers, NEW label, NEW view,
         UNCHANGED <<log, edited>>,
         pc' = [pc EXCEPT ![w] = label], seen' = [seen EXCEPT ![w] = view],
         view \in {<<>>, log, seen[w]},
         label \in {V3, "markV3"} => edited \/ HasMarker(view, V2),
         UNCHANGED stale, torn' \/ UNCHANGED torn
  PROVE  IInv'
<1>1. IsSeq(<<>>) /\ Len(<<>>) = 0
  BY DEF IsSeq
<1>2. Sequences' /\ (/\ DOMAIN pc = Writers /\ DOMAIN seen = Writers
                 /\ seen = [u \in Writers |-> seen[u]])'
  BY <1>1 DEF IInv, Sequences
<1>3. ViewsArePrefixes'
  <2>1. Len(log) \in Nat
    BY SeqFacts DEF IInv, Sequences
  <2>2. ASSUME ~edited
        PROVE  /\ Len(view) <= Len(log)
               /\ \A i \in 1..Len(view) : view[i] = log[i]
    BY <1>1, <2>1, <2>2 DEF IInv, ViewsArePrefixes
  <2> QED
    BY <2>2 DEF IInv, ViewsArePrefixes
<1>4. LinesFollow' /\ (edited => ~ChainOk(log))'
  BY DEF IInv, LinesFollow, Follows
<1>5. ChainTellsStale'
  BY DEF IInv, ChainTellsStale
<1> QED
  BY <1>2, <1>3, <1>4, <1>5 DEF IInv

LEMMA LineGood ==
  ASSUME NEW s, NEW type, NEW id, NEW now, NEW counts, NEW form,
         type = "hypothesis" => ~IsRegistered(s, id) /\ Accepted(s, form) /\ form \in Forms,
         type = "marker" /\ id = V3 => HasMarker(s, V2)
  PROVE  GoodLine(s, Line(s, type, id, now, counts, form))
  BY DEF GoodLine, Line, Hash

\* What a line removed or moved from a good chain leaves has a wrong seq.
LEMMA EditBreaksChain ==
  ASSUME IInv, Edit
  PROVE  IsSeq(log') /\ ~ChainOk(log')
<1>1. PICK S : log \in Seq(S)
  BY DEF IInv, Sequences, IsSeq
<1>2. /\ Len(log) \in Nat /\ DOMAIN log = 1..Len(log)
      /\ ChainOk(log) /\ ~edited
  BY <1>1 DEF Edit
<1>3. ASSUME NEW i \in DOMAIN log, NEW v \in Verdicts,
             log[i].verdict # v, log' = [log EXCEPT ![i].verdict = v]
      PROVE  IsSeq(log') /\ ~ChainOk(log')
  <2> DEFINE e == [log[i] EXCEPT !.verdict = v]
  <2>1. log' \in Seq(S \union {e}) /\ i \in DOMAIN log' /\ log'[i] = e
    BY <1>1, <1>2, <1>3
  <2>2. log[i].hash = Hash(log[i]) /\ "verdict" \in DOMAIN log[i]
    BY <1>2, <1>3 DEF IInv, LinesFollow
  <2>3. e.verdict = v /\ e.hash = log[i].hash
    BY <2>2
  <2>4. e.hash # Hash(e)
    BY <1>3, <2>2, <2>3 DEF Hash
  <2> QED
    BY <2>1, <2>4 DEF ChainOk, IsSeq
<1>4. ASSUME NEW i \in DOMAIN log, i < Len(log),
             log' = [log EXCEPT ![i] = log[i + 1], ![i + 1] = log[i]]
      PROVE  IsSeq(log') /\ ~ChainOk(log')
  <2>1. log' \in Seq(S) /\ i \in DOMAIN log' /\ log'[i] = log[i + 1]
    BY <1>1, <1>2, <1>4
  <2>2. log[i + 1].seq = i
    BY <1>2, <1>4 DEF ChainOk
  <2> QED
    BY <1>2, <1>4, <2>1, <2>2 DEF ChainOk, IsSeq
<1>5. ASSUME NEW i \in DOMAIN log, i < Len(log), log' = RemoveAt(log, i)
      PROVE  IsSeq(log') /\ ~ChainOk(log')
  <2> DEFINE before == SubSeq(log, 1, i - 1)
             after == SubSeq(log, i + 1, Len(log))
  <2>1. /\ before \in Seq(S) /\ Len(before) = i - 1
        /\ after \in Seq(S) /\ Len(after) = Len(log) - i /\ after[1] = log[i + 1]
    BY <1>1, <1>2, <1>5
  <2>2. /\ log' \in Seq(S) /\ Len(log') = Len(log) - 1
        /\ log'[i] = log[i + 1]
    <3>1. /\ before \o after \in Seq(S) /\ Len(before \o after) = Len(before) + Len(after)
          /\ \A j \in 1..(Len(before) + Len(after)) : (before \o after)[j] =
                IF j <= Len(before) THEN before[j] ELSE after[j - Len(before)]
      BY <2>1, ConcatProperties
    <3>2. log' = before \o after
      BY <1>5 DEF RemoveAt
    <3> HIDE DEF before, after
    <3>3. i \in 1..Len(log) /\ Len(before) + Len(after) = Len(log) - 1
      BY <1>2, <1>5, <2>1
    <3>4. i \in 1..(Len(before) + Len(after)) /\ ~(i <= Len(before)) /\ i - Len(before) = 1
      BY <1>2, <1>5, <2>1, <3>3
    <3>5. (before \o after)[i] = after[1]
      BY <3>1, <3>4
    <3> QED
      BY <2>1, <3>1, <3>2, <3>3, <3>5
  <2>3. i \in DOMAIN log' /\ log[i + 1].seq = i
    BY <1>2, <1>5, <2>2 DEF ChainOk
  <2> QED
    BY <1>2, <1>5, <2>2, <2>3 DEF ChainOk, IsSeq
<1> QED
  BY <1>3, <1>4, <1>5 DEF Edit

LEMMA StepInductive ==
  ASSUME IInv, [Next]_vars
  PROVE  IInv'
<1>1. ASSUME NEW w \in Writers, Read(w)
      PROVE  IInv'
  BY <1>1, QuietInductive, Labels DEF Read, Goto
<1>2. ASSUME NEW w \in Writers, End(w) \/ Tear(w)
      PROVE  IInv'
  BY <1>2, QuietInductive, Labels DEF End, Tear, Goto
<1>3. ASSUME NEW w \in Writers, AppendRecord(w)
      PROVE  IInv'
  <2> DEFINE e == Line(seen[w], "record", Record, Initial, FALSE, None)
  <2>1. GoodLine(seen[w], e)
    BY LineGood
  <2> QED
    BY <1>3, <2>1, WriteInductive DEF AppendRecord
<1>4. ASSUME NEW w \in Writers, ReadAgain(w)
      PROVE  IInv'
  <2> DEFINE label == IF pc[w] = V2 THEN "markV2" ELSE "markV3"
  <2>1. label = "markV3" => edited \/ HasMarker(log, V2)
    <3> SUFFICES ASSUME label = "markV3", ~edited
                 PROVE  HasMarker(log, V2)
      OBVIOUS
    <3>1. HasMarker(seen[w], V2) /\ Len(seen[w]) <= Len(log)
      BY <1>4 DEF ReadAgain, IInv, ViewsArePrefixes
    <3>2. \A i \in 1..Len(seen[w]) : seen[w][i] = log[i]
      BY DEF IInv, ViewsArePrefixes
    <3>3. /\ Len(log) \in Nat /\ DOMAIN log = 1..Len(log)
          /\ Len(seen[w]) \in Nat /\ DOMAIN seen[w] = 1..Len(seen[w])
      BY SeqFacts DEF IInv, Sequences
    <3> QED
      BY <3>1, <3>2, <3>3 DEF HasMarker
  <2>2. label \notin {V3} /\ label # "idle"
    BY IdAssumption
  <2>3. pc' = [pc EXCEPT ![w] = label] /\ seen' = [seen EXCEPT ![w] = log]
        /\ UNCHANGED <<log, edited, stale, torn>>
    BY <1>4 DEF ReadAgain, Goto
  <2> HIDE DEF label
  <2> QED
    BY <2>1, <2>2, <2>3, QuietInductive
<1>5. ASSUME NEW w \in Writers, NEW h \in Hypotheses, NEW f \in Forms, Register(w, h, f)
      PROVE  IInv'
  <2> DEFINE e == Line(seen[w], "hypothesis", h, Initial, TRUE, f)
  <2>1. GoodLine(seen[w], e)
    BY <1>5, LineGood DEF Register
  <2> QED
    BY <1>5, <2>1, WriteInductive DEF Register
<1>6. ASSUME NEW w \in Writers, NEW h \in Hypotheses, NEW s \in Stages \union {None},
             NEW v \in Verdicts \union {None}, NEW c \in BOOLEAN, Update(w, h, s, v, c)
      PROVE  IInv'
  <2> DEFINE now == Merged(seen[w], h)
             new == [stage |-> OrCarried(s, now.stage), verdict |-> OrCarried(v, now.verdict)]
             e == Line(seen[w], "update", h, new, c, None)
  <2>1. GoodLine(seen[w], e)
    BY LineGood
  <2>2. Write(w, e) /\ pc[w] # "idle"
    BY <1>6 DEF Update
  <2> HIDE DEF e
  <2> QED
    BY <2>1, <2>2, WriteInductive
<1>7. ASSUME NEW w \in Writers, NEW m \in {V2, V3}, CheckMarker(w, m)
      PROVE  IInv'
  <2>1. /\ pc[w] # "idle" /\ m # "idle" /\ m # "markV3"
        /\ m = V3 => HasMarker(seen[w], V2)
    BY <1>7, IdAssumption DEF CheckMarker, MayMigrate
  <2>2. /\ pc' = [pc EXCEPT ![w] = m] /\ seen' = [seen EXCEPT ![w] = seen[w]]
        /\ UNCHANGED <<log, edited, stale, torn>>
    BY <1>7 DEF CheckMarker, Goto, IInv
  <2> QED
    BY <2>1, <2>2, QuietInductive
<1>8. ASSUME NEW w \in Writers, NEW m \in {V2, V3}, AppendMarker(w, m)
      PROVE  IInv'
  <2> DEFINE e == Line(seen[w], "marker", m, Initial, FALSE, None)
  <2>1. pc[w] # "idle" /\ Write(w, e)
    BY <1>8 DEF AppendMarker
  <2>2. m = V3 => edited \/ HasMarker(seen[w], V2)
    BY <1>8, IdAssumption DEF AppendMarker, IInv, ViewsArePrefixes
  <2>3. edited \/ GoodLine(seen[w], e)
    BY <2>2, LineGood
  <2> QED
    BY <2>1, <2>3, WriteInductive
<1>9. ASSUME Edit
      PROVE  IInv'
  <2>1. edited' /\ UNCHANGED <<pc, seen>> /\ IsSeq(log') /\ ~ChainOk(log')
    BY <1>9, EditBreaksChain DEF Edit
  <2> QED
    BY <2>1 DEF IInv, Sequences, ViewsArePrefixes, LinesFollow, ChainTellsStale
<1>10. ASSUME UNCHANGED vars
       PROVE  IInv'
  BY <1>10 DEF vars, IInv, Sequences, ViewsArePrefixes, LinesFollow, Follows,
               ChainTellsStale
<1> QED
  BY <1>1, <1>2, <1>3, <1>4, <1>5, <1>6, <1>7, <1>8, <1>9, <1>10 DEF Next

LEMMA Inductive == Spec => []IInv
  BY InitInductive, StepInductive, PTL DEF Spec

\* In a chain that verifies, a line's writer had read exactly the lines before it.
LEMMA NoStaleLine ==
  ASSUME IInv, Verify
  PROVE  \A i \in 1..Len(log) : Follows(i, i - 1)
<1> SUFFICES ASSUME NEW i \in 1..Len(log)
             PROVE  Follows(i, i - 1)
  OBVIOUS
<1>1. ~edited /\ ChainOk(log) /\ Len(log) \in Nat /\ DOMAIN log = 1..Len(log)
  BY SeqFacts DEF IInv, Sequences, Verify
<1>2. PICK k \in 0..(i - 1) : Follows(i, k)
  BY <1>1 DEF IInv, LinesFollow
<1>3. log[i].seq = i - 1
  BY <1>1 DEF ChainOk
<1>4. log[i].seq = k
  <2>1. CASE k = 0
    BY <1>2, <2>1 DEF Follows
  <2>2. CASE k # 0
    <3>1. k \in 1..Len(log)
      BY <1>1, <2>2
    <3>2. log[k].seq = k - 1
      BY <1>1, <3>1 DEF ChainOk
    <3> QED
      BY <1>1, <1>2, <2>2, <3>2 DEF Follows
  <2> QED
    BY <2>1, <2>2
<1> QED
  BY <1>2, <1>3, <1>4

LEMMA SoundIfVerified ==
  ASSUME IInv
  PROVE  VerifiedIsSound
<1> SUFFICES ASSUME Verify
             PROVE  RegisteredOnce /\ FieldsAfterMarker /\ V2BeforeV3
  BY DEF VerifiedIsSound
<1>1. Len(log) \in Nat /\ DOMAIN log = 1..Len(log)
  BY SeqFacts DEF IInv, Sequences
<1>2. \A i \in 1..Len(log) : Follows(i, i - 1)
  BY NoStaleLine
<1>3. ASSUME NEW i \in DOMAIN log, NEW j \in DOMAIN log, i < j
      PROVE  j \in 1..Len(log) /\ i \in 1..(j - 1)
  BY <1>1, <1>3
<1>4. FieldsAfterMarker
  BY <1>2, <1>3 DEF Follows, FieldsAfterMarker
<1>5. RegisteredOnce
  <2>1. \A i, j \in DOMAIN log : i < j =>
          ~(log[i].type = "hypothesis" /\ log[j].type = "hypothesis" /\ log[i].id = log[j].id)
    BY <1>2, <1>3 DEF Follows
  <2>2. \A i, j \in DOMAIN log : i < j \/ j < i \/ i = j
    BY <1>1
  <2> QED
    BY <2>1, <2>2 DEF RegisteredOnce
<1>6. V2BeforeV3
  BY <1>1, <1>2 DEF Follows, V2BeforeV3
<1> QED
  BY <1>4, <1>5, <1>6

(***************************************************************************)
(* Any number of writers that race and die: verify() accepts a readable    *)
(* file exactly when no line in it was written from a stale read and none  *)
(* has been changed, moved or removed by hand.                             *)
(***************************************************************************)
THEOREM VerifyExact == Spec => []VerifyIsExact
<1>1. IInv => VerifyIsExact
  BY DEF IInv, ChainTellsStale, VerifyIsExact
<1> QED
  BY <1>1, Inductive, PTL

(***************************************************************************)
(* Any number of writers that race and die: a file that verify() accepts   *)
(* registers each hypothesis once, and no registration in it escaped a     *)
(* schema marker before it.                                                *)
(***************************************************************************)
THEOREM VerifiedLogIsSound == Spec => []VerifiedIsSound
  BY Inductive, SoundIfVerified, PTL
----------------------------------------------------------------------------
(* What the log says of a hypothesis, against what was last set. *)

\* The lines that _merge looks at, for the verdict and for the stage.
Later(s, h) == {i \in DOMAIN s : s[i].id = h /\ s[i].type # "hypothesis"}

Moved(s, h) == {i \in Later(s, h) : s[i].stage # Start}

IsLast(m, S) == m \in S /\ \A i \in S : i <= m

\* Stage and verdict are those of the last line of each kind, if there is one.
AsSaid(s, h, now) ==
  /\ now = [stage |-> now.stage, verdict |-> now.verdict]
  /\ \/ Later(s, h) = {} /\ now.verdict = Open
     \/ \E m \in Later(s, h) : IsLast(m, Later(s, h)) /\ now.verdict = s[m].verdict
  /\ \/ Moved(s, h) = {} /\ now.stage = Start
     \/ \E m \in Moved(s, h) : IsLast(m, Moved(s, h)) /\ now.stage = s[m].stage

\* A hypothesis that is not registered has no lines.
StateOK(s, h, now) ==
  IF IsRegistered(s, h) THEN AsSaid(s, h, now) ELSE \A i \in DOMAIN s : s[i].id # h

SaidOK == /\ said = [h \in Hypotheses |-> said[h]]
          /\ ~torn /\ ~stale /\ ~edited => \A h \in Hypotheses : StateOK(log, h, said[h])

LEMMA MaxIsLast ==
  ASSUME NEW S \in SUBSET Nat, NEW m, IsLast(m, S)
  PROVE  Max(S) = m
<1>1. \A x \in S : (\A y \in S : x >= y) <=> x = m
  BY DEF IsLast
<1> QED
  BY <1>1 DEF Max, IsLast

LEMMA MergedAsSaid ==
  ASSUME NEW s, IsSeq(s), NEW h, NEW now, AsSaid(s, h, now)
  PROVE  Merged(s, h) = now
<1>1. Later(s, h) \in SUBSET Nat /\ Moved(s, h) \in SUBSET Nat
  BY SeqFacts DEF Later, Moved
<1>2. now.verdict = IF Later(s, h) = {} THEN Open ELSE s[Max(Later(s, h))].verdict
  BY <1>1, MaxIsLast DEF AsSaid, IsLast
<1>3. now.stage = IF Moved(s, h) = {} THEN Start ELSE s[Max(Moved(s, h))].stage
  BY <1>1, MaxIsLast DEF AsSaid, IsLast
<1>4. Merged(s, h) =
        [stage   |-> IF Moved(s, h) = {} THEN Start ELSE s[Max(Moved(s, h))].stage,
         verdict |-> IF Later(s, h) = {} THEN Open ELSE s[Max(Later(s, h))].verdict]
  BY DEF Merged, Later, Moved
<1> QED
  BY <1>2, <1>3, <1>4 DEF AsSaid

\* A line about something else says nothing of h.
LEMMA OtherLine ==
  ASSUME NEW s, IsSeq(s), NEW e, NEW h, e.id # h, NEW now, StateOK(s, h, now)
  PROVE  StateOK(Append(s, e), h, now)
<1> DEFINE t == Append(s, e)
<1>1. /\ Len(s) \in Nat /\ DOMAIN s = 1 .. Len(s) /\ DOMAIN t = 1 .. (Len(s) + 1)
      /\ \A i \in 1 .. Len(s) : t[i] = s[i]
      /\ t[Len(s) + 1] = e
  BY SeqFacts, AppendFacts
<1> HIDE DEF t
<1>2. /\ DOMAIN s \subseteq DOMAIN t
      /\ \A i \in DOMAIN t : t[i].id = h => i \in DOMAIN s
      /\ \A i \in DOMAIN s : t[i] = s[i]
  BY <1>1
<1>3. Later(t, h) = Later(s, h) /\ Moved(t, h) = Moved(s, h)
  BY <1>2 DEF Later, Moved
<1>4. IsRegistered(t, h) <=> IsRegistered(s, h)
  BY <1>2 DEF IsRegistered
<1>5. AsSaid(s, h, now) => AsSaid(t, h, now)
  <2>1. \A m \in Later(s, h) : t[m] = s[m]
    BY <1>2 DEF Later
  <2>2. Moved(s, h) \subseteq Later(s, h)
    BY DEF Moved
  <2> QED
    BY <1>3, <2>1, <2>2 DEF AsSaid
<1>6. StateOK(t, h, now)
  BY <1>2, <1>4, <1>5 DEF StateOK
<1> QED
  BY <1>6 DEF t

\* The first registration of h: nothing else is said of it.
LEMMA FirstLine ==
  ASSUME NEW s, IsSeq(s), NEW e, NEW h, e.id = h, e.type = "hypothesis",
         \A i \in DOMAIN s : s[i].id # h
  PROVE  StateOK(Append(s, e), h, Initial)
<1> DEFINE t == Append(s, e)
<1>1. /\ Len(s) \in Nat /\ DOMAIN s = 1 .. Len(s) /\ DOMAIN t = 1 .. (Len(s) + 1)
      /\ \A i \in 1 .. Len(s) : t[i] = s[i]
      /\ t[Len(s) + 1] = e
  BY SeqFacts, AppendFacts
<1> HIDE DEF t
<1>2. IsRegistered(t, h) /\ Later(t, h) = {} /\ Moved(t, h) = {}
  BY <1>1 DEF IsRegistered, Later, Moved
<1> QED
  BY <1>2 DEF StateOK, AsSaid, Initial, t

\* An update of h: it is the last line, and its stage is the last that moved.
LEMMA UpdateLine ==
  ASSUME NEW s, IsSeq(s), NEW e, NEW h, e.id = h, e.type # "hypothesis",
         IsRegistered(s, h), NEW now, NEW old, AsSaid(s, h, old),
         now = [stage |-> e.stage, verdict |-> e.verdict],
         e.stage = Start => old.stage = Start
  PROVE  StateOK(Append(s, e), h, now)
<1> DEFINE t == Append(s, e)
<1>1. /\ Len(s) \in Nat /\ DOMAIN s = 1 .. Len(s) /\ DOMAIN t = 1 .. (Len(s) + 1)
      /\ \A i \in 1 .. Len(s) : t[i] = s[i]
      /\ t[Len(s) + 1] = e
  BY SeqFacts, AppendFacts
<1> HIDE DEF t
<1>2. IsRegistered(t, h)
  BY <1>1 DEF IsRegistered
<1>3. Len(s) + 1 \in Later(t, h) /\ IsLast(Len(s) + 1, Later(t, h))
  BY <1>1 DEF Later, IsLast
<1>4. Later(t, h) = Later(s, h) \union {Len(s) + 1}
  BY <1>1 DEF Later
<1>5. \/ Moved(t, h) = {} /\ now.stage = Start
      \/ \E m \in Moved(t, h) : IsLast(m, Moved(t, h)) /\ now.stage = t[m].stage
  <2>1. CASE e.stage # Start
    <3>1. Len(s) + 1 \in Moved(t, h) /\ IsLast(Len(s) + 1, Moved(t, h))
      BY <1>1, <1>3, <2>1 DEF Moved, IsLast
    <3> QED
      BY <1>1, <3>1
  <2>2. CASE e.stage = Start
    <3>1. Moved(s, h) = {}
      BY <2>2 DEF AsSaid, Moved
    <3>2. \A i \in Later(s, h) : t[i] = s[i]
      BY <1>1 DEF Later
    <3>3. Moved(t, h) = {}
      BY <1>1, <1>4, <2>2, <3>1, <3>2 DEF Moved
    <3> QED
      BY <2>2, <3>3
  <2> QED
    BY <2>1, <2>2
<1>6. AsSaid(t, h, now)
  BY <1>1, <1>3, <1>5 DEF AsSaid
<1> QED
  BY <1>2, <1>6 DEF StateOK, t

LEMMA StepSaid ==
  ASSUME Start \notin Stages, IInv, SaidOK, [Next]_vars
  PROVE  SaidOK'
<1>1. IsSeq(log) /\ said = [h \in Hypotheses |-> said[h]]
  BY DEF IInv, Sequences, SaidOK
<1>2. ASSUME UNCHANGED <<log, said>>, ~torn' /\ ~stale' /\ ~edited' => ~torn /\ ~stale /\ ~edited
      PROVE  SaidOK'
  BY <1>2 DEF SaidOK
\* What is to be shown of a write: nothing unless its writer had read the whole file.
<1>3. ASSUME NEW w \in Writers, NEW e, Write(w, e), said' = [h \in Hypotheses |-> said'[h]],
             /\ seen[w] = log /\ log' = Append(log, e)
             /\ \A h \in Hypotheses : StateOK(log, h, said[h])
             => \A h \in Hypotheses : StateOK(log', h, said'[h])
      PROVE  SaidOK'
  BY <1>3 DEF Write, SaidOK
<1>4. ASSUME NEW w \in Writers, NEW e, Write(w, e), e.id \notin Hypotheses, UNCHANGED said
      PROVE  SaidOK'
  <2>1. ASSUME log' = Append(log, e), NEW h \in Hypotheses, StateOK(log, h, said[h])
        PROVE  StateOK(log', h, said'[h])
    BY <1>1, <1>4, <2>1, OtherLine
  <2> QED
    BY <1>1, <1>3, <1>4, <2>1
<1>5. ASSUME NEW w \in Writers, NEW h \in Hypotheses, NEW f \in Forms, Register(w, h, f)
      PROVE  SaidOK'
  <2> DEFINE e == Line(seen[w], "hypothesis", h, Initial, TRUE, f)
  <2>1. /\ ~IsRegistered(seen[w], h) /\ Write(w, e) /\ said' = [said EXCEPT ![h] = Initial]
        /\ e.id = h /\ e.type = "hypothesis"
    BY <1>5 DEF Register, Line
  <2> HIDE DEF e
  <2>2. /\ said' = [g \in Hypotheses |-> said'[g]] /\ said'[h] = Initial
        /\ \A g \in Hypotheses \ {h} : said'[g] = said[g]
    BY <1>1, <2>1
  <2>3. ASSUME seen[w] = log, log' = Append(log, e), NEW g \in Hypotheses,
               StateOK(log, g, said[g])
        PROVE  StateOK(log', g, said'[g])
    <3>1. CASE g = h
      BY <1>1, <2>1, <2>2, <2>3, <3>1, FirstLine DEF StateOK
    <3>2. CASE g # h
      BY <1>1, <2>1, <2>2, <2>3, <3>2, OtherLine
    <3> QED
      BY <3>1, <3>2
  <2> QED
    BY <1>3, <2>1, <2>2, <2>3
<1>6. ASSUME NEW w \in Writers, NEW h \in Hypotheses, NEW stage \in Stages \union {None},
             NEW verdict \in Verdicts \union {None}, NEW c \in BOOLEAN,
             Update(w, h, stage, verdict, c)
      PROVE  SaidOK'
  <2> DEFINE now == Merged(seen[w], h)
             new == [stage   |-> OrCarried(stage, now.stage),
                     verdict |-> OrCarried(verdict, now.verdict)]
             e == Line(seen[w], "update", h, new, c, None)
             set == [stage   |-> OrCarried(stage, said[h].stage),
                     verdict |-> OrCarried(verdict, said[h].verdict)]
  <2>1. /\ IsRegistered(seen[w], h) /\ Write(w, e) /\ said' = [said EXCEPT ![h] = set]
        /\ e.id = h /\ e.type # "hypothesis"
        /\ e.stage = new.stage /\ e.verdict = new.verdict
    BY <1>6 DEF Update, Line
  <2>2. ASSUME seen[w] = log, StateOK(log, h, said[h])
        PROVE  /\ AsSaid(log, h, said[h]) /\ set = [stage |-> e.stage, verdict |-> e.verdict]
               /\ e.stage = Start => said[h].stage = Start
    <3>1. AsSaid(log, h, said[h]) /\ now = said[h]
      BY <1>1, <2>1, <2>2, MergedAsSaid DEF StateOK
    <3>2. new = set
      BY <3>1
    <3>3. OrCarried(stage, said[h].stage) = Start => said[h].stage = Start
      BY DEF OrCarried
    <3> QED
      BY <2>1, <3>1, <3>2, <3>3
  <2> HIDE DEF e, set
  <2>3. /\ said' = [g \in Hypotheses |-> said'[g]] /\ said'[h] = set
        /\ \A g \in Hypotheses \ {h} : said'[g] = said[g]
    BY <1>1, <2>1
  <2>4. ASSUME seen[w] = log, log' = Append(log, e), NEW g \in Hypotheses,
               StateOK(log, g, said[g])
        PROVE  StateOK(log', g, said'[g])
    <3>1. CASE g = h
      BY <1>1, <2>1, <2>2, <2>3, <2>4, <3>1, UpdateLine
    <3>2. CASE g # h
      BY <1>1, <2>1, <2>3, <2>4, <3>2, OtherLine
    <3> QED
      BY <3>1, <3>2
  <2> QED
    BY <1>3, <2>1, <2>3, <2>4
<1>7. ASSUME NEW w \in Writers, AppendRecord(w)
      PROVE  SaidOK'
  BY <1>4, <1>7, IdAssumption DEF AppendRecord, Line
<1>8. ASSUME NEW w \in Writers, NEW m \in {V2, V3}, AppendMarker(w, m)
      PROVE  SaidOK'
  BY <1>4, <1>8, IdAssumption DEF AppendMarker, Line
<1>9. ASSUME NEW w \in Writers,
             \/ Read(w) \/ End(w) \/ Tear(w) \/ ReadAgain(w)
             \/ \E m \in {V2, V3} : CheckMarker(w, m)
      PROVE  SaidOK'
  BY <1>2, <1>9 DEF Read, End, Tear, ReadAgain, CheckMarker
<1>10. CASE Edit
  BY <1>10 DEF Edit, SaidOK
<1>11. CASE UNCHANGED vars
  BY <1>2, <1>11 DEF vars
<1> QED
  BY <1>5, <1>6, <1>7, <1>8, <1>9, <1>10, <1>11 DEF Next

(***************************************************************************)
(* Any number of writers that race and die, and updates that do not set    *)
(* the initial stage again: in a file verify() accepts, what _merge says   *)
(* of a registered hypothesis is what was last set explicitly.             *)
(***************************************************************************)
THEOREM VerifiedStateAsSaid == Start \notin Stages => (Spec => []StateAsSaid)
<1> SUFFICES ASSUME Start \notin Stages
             PROVE  Spec => []StateAsSaid
  OBVIOUS
<1>1. Init => SaidOK
  BY DEF Init, SaidOK, StateOK, IsRegistered
<1>2. SaidOK /\ IInv /\ [Next]_vars => SaidOK'
  BY StepSaid
<1>3. SaidOK /\ IInv => StateAsSaid
  <2> SUFFICES ASSUME SaidOK, IInv, Verify, NEW h \in Hypotheses, IsRegistered(log, h)
               PROVE  Merged(log, h) = said[h]
    BY DEF StateAsSaid
  <2>1. ~torn /\ ~edited /\ ~stale /\ IsSeq(log)
    BY DEF IInv, Verify, ChainTellsStale, Sequences
  <2> QED
    BY <2>1, MergedAsSaid DEF SaidOK, StateOK
<1> QED
  BY <1>1, <1>2, <1>3, Inductive, PTL DEF Spec
-----------------------------------------------------------------------------
(* Sums over a finite set, the way the folds of the community modules make   *)
(* them: a function on the subsets that takes one member away at a time.     *)

Pick(t) == CHOOSE x \in t : TRUE

Tallies(F, D, v) ==
  F = [t \in SUBSET D |-> IF t = {} THEN 0 ELSE v[Pick(t)] + F[t \ {Pick(t)}]]

LEMMA NatLeast ==
  ASSUME NEW T \in SUBSET Nat, T # {}
  PROVE  \E x \in T : \A y \in T : x <= y
<1>1. PICK x \in T : \A y \in T : ~(<<y, x>> \in OpToRel(<, Nat))
  BY NatLessThanWellFounded, WFMin
<1> SUFFICES ASSUME NEW y \in T PROVE x <= y
  OBVIOUS
<1>2. /\ x \in Nat /\ y \in Nat
      /\ ~(<<y, x>> \in {p \in Nat \X Nat : p[1] < p[2]})
  BY <1>1 DEF OpToRel
<1>3. ~(y < x)
  BY <1>2
<1> QED
  BY <1>2, <1>3

\* Such a function exists: it is built up by the size of the subsets.
LEMMA TallyExists ==
  ASSUME NEW D, IsFiniteSet(D), NEW v
  PROVE  \E F : Tallies(F, D, v)
<1> DEFINE Small(n) == {t \in SUBSET D : Cardinality(t) <= n}
           Upto(n) == \E F : F = [t \in Small(n) |->
                                    IF t = {} THEN 0 ELSE v[Pick(t)] + F[t \ {Pick(t)}]]
           bad == {n \in Nat : ~Upto(n)}
<1>1. \A t \in SUBSET D : IsFiniteSet(t) /\ Cardinality(t) \in Nat
  BY FS_Subset, FS_CardinalityType
<1>2. Upto(0)
  <2>1. \A t \in Small(0) : t = {}
    BY <1>1, FS_EmptySet
  <2> DEFINE F == [t \in Small(0) |-> 0]
  <2>2. F = [t \in Small(0) |-> IF t = {} THEN 0 ELSE v[Pick(t)] + F[t \ {Pick(t)}]]
    BY <2>1
  <2> HIDE DEF F, Small
  <2> QED
    BY <2>2
<1>3. ASSUME NEW n \in Nat, n # 0, Upto(n - 1)
      PROVE  Upto(n)
  <2> DEFINE Sum(t, G) == IF t = {} THEN 0 ELSE v[Pick(t)] + G[t \ {Pick(t)}]
  <2>1. PICK F : F = [t \in Small(n - 1) |-> Sum(t, F)]
    BY <1>3
  <2> DEFINE G == [t \in Small(n) |-> Sum(t, F)]
  <2>2. \A t \in Small(n) : t # {} => t \ {Pick(t)} \in Small(n - 1)
    <3> SUFFICES ASSUME NEW t \in Small(n), t # {} PROVE t \ {Pick(t)} \in Small(n - 1)
      OBVIOUS
    <3>1. Pick(t) \in t /\ IsFiniteSet(t) /\ Cardinality(t) \in Nat /\ Cardinality(t) <= n
      BY <1>1 DEF Pick
    <3>2. Cardinality(t \ {Pick(t)}) = Cardinality(t) - 1
      BY <3>1, FS_RemoveElement, Zenon
    <3> QED
      BY <1>3, <3>1, <3>2
  <2>3. Small(n - 1) \subseteq Small(n)
    BY <1>1, <1>3
  <2> HIDE DEF Small
  <2>4. \A t \in Small(n - 1) : G[t] = F[t]
    BY <2>1, <2>3
  <2> HIDE DEF G
  <2>5. \A t \in Small(n) : Sum(t, F) = Sum(t, G)
    BY <2>2, <2>4
  <2>6. G = [t \in Small(n) |-> Sum(t, G)]
    BY <2>5 DEF G
  <2> QED
    BY <2>6
<1>4. bad = {}
  <2>1. SUFFICES ASSUME bad # {} PROVE FALSE
    OBVIOUS
  <2> HIDE DEF Upto
  <2>2. PICK n \in bad : \A m \in bad : n <= m
    BY <2>1, NatLeast
  <2>3. n # 0
    BY <1>2, <2>2
  <2>4. n - 1 \in Nat /\ n - 1 \notin bad
    BY <2>2, <2>3
  <2> QED
    BY <1>3, <2>2, <2>3, <2>4
<1>5. Upto(Cardinality(D))
  <2>1. Cardinality(D) \in Nat
    BY FS_CardinalityType
  <2> HIDE DEF Upto
  <2> QED
    BY <1>4, <2>1
<1>6. Small(Cardinality(D)) = SUBSET D
  BY FS_Subset
<1> HIDE DEF Small
<1> QED
  BY <1>5, <1>6 DEF Tallies

\* What holds of {} and of a set whenever it holds without one member holds of all.
LEMMA MinimalSubset ==
  ASSUME NEW D, IsFiniteSet(D), NEW bad \in SUBSET (SUBSET D), bad # {}
  PROVE  \E t \in bad : \A u \in bad : ~(u \subseteq t /\ u # t)
<1>1. IsWellFoundedOn(StrictSubsetOrdering(D), SUBSET D)
  BY FS_StrictSubsetOrderingWellFounded, FS_FiniteSubsetsOfFinite
<1>2. PICK t \in bad : \A u \in bad : ~(<<u, t>> \in StrictSubsetOrdering(D))
  BY <1>1, WFMin
<1> QED
  BY <1>2 DEF StrictSubsetOrdering

LEMMA TallyStep ==
  ASSUME NEW D, NEW v, NEW F, Tallies(F, D, v), NEW t \in SUBSET D
  PROVE  /\ t = {} => F[t] = 0
         /\ t # {} => /\ Pick(t) \in t /\ Pick(t) \in D /\ t \ {Pick(t)} \in SUBSET D
                      /\ F[t] = v[Pick(t)] + F[t \ {Pick(t)}]
<1>1. t # {} => Pick(t) \in t
  BY DEF Pick
<1> DEFINE Sum(u) == IF u = {} THEN 0 ELSE v[Pick(u)] + F[u \ {Pick(u)}]
<1>2. F = [u \in SUBSET D |-> Sum(u)]
  BY DEF Tallies
<1> HIDE DEF Sum
<1>3. F[t] = Sum(t)
  BY <1>2
<1> QED
  BY <1>1, <1>3 DEF Sum

LEMMA TallyEmpty ==
  ASSUME NEW D, NEW v, NEW F, Tallies(F, D, v)
  PROVE  F[{}] = 0
<1>1. \A t \in SUBSET D : t = {} => F[t] = 0
  <2> SUFFICES ASSUME NEW t \in SUBSET D, t = {} PROVE F[t] = 0
    OBVIOUS
  <2> QED
    BY TallyStep
<1>2. {} \in SUBSET D
  OBVIOUS
<1> QED
  BY <1>1, <1>2

\* A sum of naturals is at least the number of members that add something.
LEMMA TallyFloor ==
  ASSUME NEW D, IsFiniteSet(D), NEW v \in [D -> Nat], NEW F, Tallies(F, D, v),
         NEW c \in SUBSET D, \A x \in c : v[x] >= 1
  PROVE  F[D] \in Nat /\ Cardinality(c) <= F[D]
<1> DEFINE Fine(t) == F[t] \in Nat /\ Cardinality(t \cap c) <= F[t]
           bad == {t \in SUBSET D : ~Fine(t)}
<1>1. \A t \in SUBSET D : IsFiniteSet(t \cap c) /\ Cardinality(t \cap c) \in Nat
  <2> SUFFICES ASSUME NEW t \in SUBSET D
               PROVE  IsFiniteSet(t \cap c) /\ Cardinality(t \cap c) \in Nat
    OBVIOUS
  <2>1. t \cap c \in SUBSET D
    OBVIOUS
  <2> QED
    BY <2>1, FS_Subset, FS_CardinalityType
<1>2. bad \in SUBSET (SUBSET D) /\ \A t \in SUBSET D : t \in bad <=> ~Fine(t)
  OBVIOUS
<1> HIDE DEF bad
<1>3. bad = {}
  <2>1. SUFFICES ASSUME bad # {} PROVE FALSE
    OBVIOUS
  <2>2. PICK t \in bad : \A u \in bad : ~(u \subseteq t /\ u # t)
    BY <1>2, <2>1, MinimalSubset
  <2>3. t # {}
    <3>1. {} \in SUBSET D /\ {} \cap c = {}
      OBVIOUS
    <3>2. F[{}] = 0
      BY TallyEmpty
    <3>3. Fine({})
      BY <3>1, <3>2, FS_EmptySet
    <3> QED
      BY <1>2, <2>2, <3>1, <3>3
  <2> DEFINE x == Pick(t)
             u == t \ {x}
  <2>4. x \in t /\ x \in D /\ u \in SUBSET D /\ F[t] = v[x] + F[u]
    BY <1>2, <2>2, <2>3, TallyStep
  <2> HIDE DEF x
  <2>5. Fine(u)
    BY <1>2, <2>2, <2>4
  <2>6. v[x] \in Nat /\ (x \in c => v[x] >= 1)
    BY <2>4
  <2>7. Cardinality(t \cap c) \in Nat /\ Cardinality(u \cap c) \in Nat
    BY <1>1, <1>2, <2>2, <2>4
  <2>8. Cardinality(t \cap c) <= Cardinality(u \cap c) + (IF x \in c THEN 1 ELSE 0)
    <3>1. CASE x \in c
      <4>1. t \cap c = (u \cap c) \cup {x} /\ x \notin u \cap c
        BY <2>2, <2>4, <3>1
      <4>2. Cardinality(t \cap c) = Cardinality(u \cap c) + 1
        BY <1>1, <2>4, <4>1, FS_AddElement, Zenon
      <4> QED
        BY <2>7, <3>1, <4>2
    <3>2. CASE x \notin c
      <4>1. t \cap c = u \cap c
        BY <2>2, <2>4, <3>2
      <4> QED
        BY <2>7, <3>2, <4>1
    <3> QED
      BY <3>1, <3>2
  <2> HIDE DEF u
  <2>9. Fine(t)
    BY <2>4, <2>5, <2>6, <2>7, <2>8
  <2> QED
    BY <1>2, <2>2, <2>9
<1>4. D \cap c = c
  OBVIOUS
<1> QED
  BY <1>2, <1>3, <1>4

-----------------------------------------------------------------------------
(* Every line, written or edited, says whether it counts, and a registration *)
(* has a size: what it adds to the count is a number, and at least one.      *)

Countable(e) ==
  /\ {"type", "counts", "form"} \subseteq DOMAIN e
  /\ e.counts \in BOOLEAN
  /\ e.type = "hypothesis" => e.form.size \in Nat

CountsOK == \E S : log \in Seq(S) /\ \A e \in S : Countable(e)

LEMMA LineCounts ==
  ASSUME NEW s, NEW type, NEW id, NEW now, NEW counts \in BOOLEAN, NEW form,
         type = "hypothesis" => form \in Forms
  PROVE  Countable(Line(s, type, id, now, counts, form))
  BY FormAssumption DEF Countable, Line

LEMMA StepCounts ==
  ASSUME CountsOK, [Next]_vars
  PROVE  CountsOK'
<1>1. PICK S : log \in Seq(S) /\ \A e \in S : Countable(e)
  BY DEF CountsOK
<1>2. CASE UNCHANGED log
  BY <1>2 DEF CountsOK
<1>3. ASSUME NEW w \in Writers, NEW e, Write(w, e), Countable(e)
      PROVE  CountsOK'
  <2>1. log' \in Seq(S \cup {e})
    BY <1>1, <1>3 DEF Write
  <2> QED
    BY <1>1, <1>3, <2>1 DEF CountsOK
<1>4. ASSUME NEW w \in Writers, NEW h \in Hypotheses, NEW f \in Forms, Register(w, h, f)
      PROVE  CountsOK'
  BY <1>3, <1>4, LineCounts DEF Register
<1>5. ASSUME NEW w \in Writers, NEW h \in Hypotheses, NEW s \in Stages \union {None},
             NEW v \in Verdicts \union {None}, NEW c \in BOOLEAN, Update(w, h, s, v, c)
      PROVE  CountsOK'
  <2> DEFINE now == Merged(seen[w], h)
             new == [stage |-> OrCarried(s, now.stage), verdict |-> OrCarried(v, now.verdict)]
             e == Line(seen[w], "update", h, new, c, None)
  <2>1. Write(w, e)
    BY <1>5 DEF Update
  <2> HIDE DEF new
  <2>2. Countable(e)
    BY LineCounts
  <2> HIDE DEF e
  <2> QED
    BY <1>3, <2>1, <2>2
<1>6. ASSUME NEW w \in Writers, AppendRecord(w) \/ \E m \in {V2, V3} : AppendMarker(w, m)
      PROVE  CountsOK'
  BY <1>3, <1>6, LineCounts DEF AppendRecord, AppendMarker
<1>7. CASE Edit
  <2>1. ASSUME NEW i \in DOMAIN log, NEW v \in Verdicts, log' = [log EXCEPT ![i].verdict = v]
        PROVE  CountsOK'
    <3> DEFINE e == [log[i] EXCEPT !.verdict = v]
    <3>1. log[i] \in S
      BY <1>1
    <3>2. Countable(e)
      <4>1. Countable(log[i])
        BY <1>1, <3>1
      <4> QED
        BY <4>1 DEF Countable
    <3>3. log' = [log EXCEPT ![i] = e]
      BY <2>1
    <3> HIDE DEF e
    <3>4. log' \in Seq(S \cup {e})
      BY <1>1, <3>3
    <3> QED
      BY <1>1, <3>2, <3>4 DEF CountsOK
  <2>2. ASSUME NEW i \in DOMAIN log, i < Len(log),
               log' = [log EXCEPT ![i] = log[i + 1], ![i + 1] = log[i]]
        PROVE  CountsOK'
    <3>1. log[i] \in S /\ log[i + 1] \in S
      BY <1>1, <2>2
    <3>2. log' \in Seq(S)
      BY <1>1, <2>2, <3>1
    <3> QED
      BY <1>1, <3>2 DEF CountsOK
  <2>3. ASSUME NEW i \in DOMAIN log, i < Len(log), log' = RemoveAt(log, i)
        PROVE  CountsOK'
    <3>1. log' = SubSeq(log, 1, i - 1) \o SubSeq(log, i + 1, Len(log))
      BY <2>3 DEF RemoveAt
    <3>2. SubSeq(log, 1, i - 1) \in Seq(S) /\ SubSeq(log, i + 1, Len(log)) \in Seq(S)
      BY <1>1
    <3>3. log' \in Seq(S)
      BY <3>1, <3>2
    <3> QED
      BY <1>1, <3>3 DEF CountsOK
  <2> QED
    BY <1>7, <2>1, <2>2, <2>3 DEF Edit
<1> QED
  BY <1>2, <1>4, <1>5, <1>6, <1>7
     DEF Next, vars, Read, End, Tear, ReadAgain, CheckMarker

LEMMA CountIsTally ==
  ASSUME NEW s, NEW v, v = [i \in DOMAIN s |-> Trials(s[i])], IsFiniteSet(DOMAIN s)
  PROVE  \E F : Tallies(F, DOMAIN s, v) /\ TrialCount(s) = F[DOMAIN s]
<1> DEFINE Iter(F) == F = [t \in SUBSET DOMAIN s |->
                             IF t = {} THEN 0
                             ELSE Trials(s[CHOOSE x \in t : TRUE]) + F[t \ {CHOOSE x \in t : TRUE}]]
           iter == CHOOSE F : Iter(F)
<1>1. TrialCount(s) = iter[DOMAIN s]
  BY DEF TrialCount, MapThenSumSet, MapThenFoldSet
<1>2. \A F : Iter(F) <=> Tallies(F, DOMAIN s, v)
  <2> SUFFICES ASSUME NEW F PROVE Iter(F) <=> Tallies(F, DOMAIN s, v)
    OBVIOUS
  <2>1. \A t \in SUBSET DOMAIN s : t # {} => v[Pick(t)] = Trials(s[Pick(t)])
    BY DEF Pick
  <2> QED
    BY <2>1 DEF Tallies, Pick
<1> HIDE DEF Iter
<1>3. \E F : Iter(F)
  <2>1. \E F : Tallies(F, DOMAIN s, v)
    BY TallyExists
  <2> QED
    BY <1>2, <2>1
<1>4. Iter(iter)
  BY <1>3
<1> HIDE DEF iter
<1> QED
  BY <1>1, <1>2, <1>4

\* However the log is written and edited, the trial count is at least one per
\* registration and per update that says it is a trial, for any rule and size.
THEOREM TrialsNeverUndercounted == Spec => []TrialFloor
<1>1. Init => CountsOK
  <2> SUFFICES ASSUME Init PROVE CountsOK
    OBVIOUS
  <2>1. log \in Seq({})
    BY DEF Init
  <2> QED
    BY <2>1 DEF CountsOK
<1>2. CountsOK /\ [Next]_vars => CountsOK'
  BY StepCounts
<1>3. CountsOK => TrialFloor
  <2> SUFFICES ASSUME CountsOK PROVE TrialFloor
    OBVIOUS
  <2>1. PICK S : log \in Seq(S) /\ \A e \in S : Countable(e)
    BY DEF CountsOK
  <2>2. DOMAIN log = 1..Len(log) /\ Len(log) \in Nat /\ \A i \in DOMAIN log : Countable(log[i])
    BY <2>1
  <2>3. PICK D, v, c : /\ D = DOMAIN log /\ v = [i \in D |-> Trials(log[i])]
                       /\ c = {i \in D : log[i].counts}
    OBVIOUS
  <2>4. IsFiniteSet(D)
    BY <2>2, <2>3, FS_Interval
  <2>5. \A i \in D : Trials(log[i]) \in Nat /\ (log[i].counts => Trials(log[i]) >= 1)
    BY <2>2, <2>3 DEF Trials, Countable
  <2>6. v \in [D -> Nat] /\ c \in SUBSET D /\ \A x \in c : v[x] >= 1
    BY <2>3, <2>5
  <2>7. PICK F : Tallies(F, D, v) /\ TrialCount(log) = F[D]
    BY <2>3, <2>4, CountIsTally
  <2>8. F[D] \in Nat /\ Cardinality(c) <= F[D]
    BY <2>4, <2>6, <2>7, TallyFloor
  <2>9. Cardinality(c) \in Nat
    BY <2>4, <2>6, FS_Subset, FS_CardinalityType
  <2> QED
    BY <2>3, <2>7, <2>8, <2>9 DEF TrialFloor
<1> QED
  BY <1>1, <1>2, <1>3, PTL DEF Spec
============================================================================
