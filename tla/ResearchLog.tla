---------------------------- MODULE ResearchLog ----------------------------
(***************************************************************************)
(* The append-only research log.  Every operation reads the whole file,    *)
(* decides on what it read, and appends one line whose seq and prev_hash   *)
(* come from the last line it read; nothing locks the file in between.     *)
(* Writers are the processes that call the module.  A writer can die       *)
(* half way through its line, and a line can be edited by hand.            *)
(***************************************************************************)
EXTENDS Naturals, Sequences, SequencesExt, FiniteSetsExt

CONSTANTS Writers,
          Hypotheses,       \* hypothesis ids
          Record,           \* an id of append_record, which callers namespace
          V2, V3,           \* SCHEMA_MIGRATION_ID and SCHEMA_V3_MIGRATION_ID
          Stages, Verdicts, \* what an update may set; they may include the initial ones
          Start, Open,      \* Stage.HYPOTHESIS and Verdict.OPEN
          Forms,            \* registrations: [rule, size, rest, v3, keyed]
          Crashes,          \* can a writer die while it writes its line?
          Edits,            \* can a stored line be edited, moved or removed by hand?
          MaxEntries,       \* bound on the log
          None

ASSUME IdAssumption == /\ {Record, V2, V3} \cap Hypotheses = {}
                       /\ V2 # V3 /\ Record \notin {V2, V3}
                       /\ {V2, V3} \cap {"idle", "read", "markV2", "markV3"} = {}
ASSUME LogBoundAssumption == /\ MaxEntries \in Nat
                             /\ {Crashes, Edits} \subseteq BOOLEAN
ASSUME FormAssumption ==
  \A f \in Forms : /\ f.size \in Nat /\ {f.rest, f.keyed} \subseteq BOOLEAN
                   /\ f.v3 \in {"missing", "malformed", "given"}

VARIABLES
  log,     \* the complete lines of entries.jsonl
  torn,    \* does the file end in part of a line?
  pc,      \* idle, read (about to append), V2 or V3 (a migration that passed its check)
  seen,    \* the entries each writer has read
  said,    \* observer: stage and verdict last set explicitly, per hypothesis
  stale,   \* observer: has a line been written after the file changed under its writer?
  edited   \* observer: has a line been changed by hand?

vars == <<log, torn, pc, seen, said, stale, edited>>

----------------------------------------------------------------------------
\* The hash of an entry: an injective function of its payload without entry_hash.
Hash(e) == <<e.seq, e.prev, e.type, e.id, e.stage, e.verdict, e.counts, e.form>>

NextSeq(s) == IF s = <<>> THEN 0 ELSE Last(s).seq + 1

PrevHash(s) == IF s = <<>> THEN <<>> ELSE Last(s).hash

\* A line appended by a writer that has read s.
Line(s, type, id, now, counts, form) ==
  [seq |-> NextSeq(s), prev |-> PrevHash(s), type |-> type, id |-> id,
   stage |-> now.stage, verdict |-> now.verdict, counts |-> counts, form |-> form,
   hash |-> <<NextSeq(s), PrevHash(s), type, id, now.stage, now.verdict, counts, form>>]

Initial == [stage |-> Start, verdict |-> Open]

IsRegistered(s, h) == \E i \in DOMAIN s : s[i].type = "hypothesis" /\ s[i].id = h

HasMarker(s, m) == \E i \in DOMAIN s : s[i].type = "marker" /\ s[i].id = m

\* _merge: the last later event gives the verdict, the last one that leaves the
\* initial stage gives the stage.
MergedFirst(s, h) ==
  LET later == {i \in DOMAIN s : s[i].id = h /\ s[i].type # "hypothesis"}
  IN  IF later = {} THEN Initial
      ELSE [stage |-> s[Min(later)].stage, verdict |-> s[Min(later)].verdict]

Merged(s, h) ==
  LET later == {i \in DOMAIN s : s[i].id = h /\ s[i].type # "hypothesis"}
      moved == {i \in later : s[i].stage # Start}
  IN  [stage   |-> IF moved = {} THEN Start ELSE s[Max(moved)].stage,
       verdict |-> IF later = {} THEN Open ELSE s[Max(later)].verdict]

OrCarried(new, old) == IF new = None THEN old ELSE new

\* What register_hypothesis asks of its fields, given the entries read.
V2Supplied(f) == f.rule # None /\ f.size > 0 /\ f.rest

AcceptedPastV3(s, f) ==
  /\ ~(f.keyed /\ f.size > 1)
  /\ HasMarker(s, V2) => V2Supplied(f)
  /\ f.v3 # "malformed"

Accepted(s, f) ==
  /\ ~(f.keyed /\ f.size > 1)
  /\ HasMarker(s, V2) => V2Supplied(f)
  /\ HasMarker(s, V3) => f.v3 # "missing"
  /\ f.v3 # "malformed"

TrialsBySize(e) == IF ~e.counts THEN 0
                   ELSE IF e.type = "hypothesis" /\ e.form.rule = "post_hoc" THEN e.form.size
                   ELSE 1

Trials(e) == IF ~e.counts THEN 0
             ELSE IF e.type = "hypothesis" /\ e.form.rule = "post_hoc" /\ e.form.size > 1
             THEN e.form.size ELSE 1

TrialCount(s) == MapThenSumSet(LAMBDA i : Trials(s[i]), DOMAIN s)

\* verify(): every line carries its index, the hash of the one before and its own hash.
ChainOkUnhashed(s) == \A i \in DOMAIN s :
  s[i].seq = i - 1 /\ s[i].prev = IF i = 1 THEN <<>> ELSE s[i - 1].hash

ChainOk(s) == \A i \in DOMAIN s :
                /\ s[i].seq = i - 1
                /\ s[i].prev = IF i = 1 THEN <<>> ELSE s[i - 1].hash
                /\ s[i].hash = Hash(s[i])

Verify == ~torn /\ ChainOk(log)

----------------------------------------------------------------------------
Init == /\ log = <<>> /\ torn = FALSE /\ stale = FALSE /\ edited = FALSE
        /\ pc = [w \in Writers |-> "idle"]
        /\ seen = [w \in Writers |-> <<>>]
        /\ said = [h \in Hypotheses |-> Initial]

Goto(w, label) == pc' = [pc EXCEPT ![w] = label]

\* _read_all() of a call; json.loads raises on a torn line and the call ends.
Read(w) == /\ pc[w] = "idle" /\ ~torn
           /\ Goto(w, "read") /\ seen' = [seen EXCEPT ![w] = log]
           /\ UNCHANGED <<log, torn, said, stale, edited>>

\* The call is refused, or its process dies before it writes.
End(w) == /\ pc[w] # "idle"
          /\ Goto(w, "idle") /\ seen' = [seen EXCEPT ![w] = <<>>]
          /\ UNCHANGED <<log, torn, said, stale, edited>>

\* _append(): a line written after a torn one becomes part of it.
Write(w, e) == /\ Len(log) < MaxEntries
               /\ log' = IF torn THEN log ELSE Append(log, e)
               /\ stale' = (stale \/ seen[w] # log)
               /\ Goto(w, "idle") /\ seen' = [seen EXCEPT ![w] = <<>>]
               /\ UNCHANGED <<torn, edited>>

\* The process dies when part of its line is in the file.
Tear(w) == /\ Crashes /\ pc[w] = "read"
           /\ torn' = TRUE
           /\ Goto(w, "idle") /\ seen' = [seen EXCEPT ![w] = <<>>]
           /\ UNCHANGED <<log, said, stale, edited>>

Register(w, h, f) ==
  /\ pc[w] = "read"
  /\ ~IsRegistered(seen[w], h) /\ Accepted(seen[w], f)
  /\ Write(w, Line(seen[w], "hypothesis", h, Initial, TRUE, f))
  /\ said' = [said EXCEPT ![h] = Initial]

Update(w, h, stage, verdict, counts) ==
  LET now == Merged(seen[w], h)
      new == [stage |-> OrCarried(stage, now.stage), verdict |-> OrCarried(verdict, now.verdict)]
  IN  /\ pc[w] = "read"
      /\ IsRegistered(seen[w], h)
      /\ Write(w, Line(seen[w], "update", h, new, counts, None))
      /\ said' = [said EXCEPT ![h] = [stage   |-> OrCarried(stage, said[h].stage),
                                      verdict |-> OrCarried(verdict, said[h].verdict)]]

AppendRecord(w) == /\ pc[w] = "read"
                   /\ Write(w, Line(seen[w], "record", Record, Initial, FALSE, None))
                   /\ UNCHANGED said

\* migrate_schema and migrate_schema_v3 check what they read, and append_record reads again.
MayMigrate(s, m) == ~HasMarker(s, m) /\ (m = V3 => HasMarker(s, V2))

CheckMarker(w, m) == /\ pc[w] = "read"
                     /\ MayMigrate(seen[w], m)
                     /\ Goto(w, m)
                     /\ UNCHANGED <<log, torn, seen, said, stale, edited>>

\* The second read, and with it the last entry that the marker will follow.
ReadAgain(w) == /\ pc[w] \in {V2, V3} /\ ~torn
                /\ seen' = [seen EXCEPT ![w] = log]
                /\ Goto(w, IF pc[w] = V2 THEN "markV2" ELSE "markV3")
                /\ UNCHANGED <<log, torn, said, stale, edited>>

AppendMarker(w, m) == /\ pc[w] = IF m = V2 THEN "markV2" ELSE "markV3"
                      /\ Write(w, Line(seen[w], "marker", m, Initial, FALSE, None))
                      /\ UNCHANGED said

\* By hand, once, on a log that verifies: a stored verdict is changed, two
\* neighbouring lines trade places, or a line that is not the last goes.
Edit == /\ Edits /\ ~edited /\ edited' = TRUE
        /\ ChainOk(log)
        /\ \/ \E i \in DOMAIN log, v \in Verdicts :
                 log[i].verdict # v /\ log' = [log EXCEPT ![i].verdict = v]
           \/ \E i \in DOMAIN log : /\ i < Len(log)
                 /\ log' = [log EXCEPT ![i] = log[i + 1], ![i + 1] = log[i]]
           \/ \E i \in DOMAIN log : i < Len(log) /\ log' = RemoveAt(log, i)
        /\ UNCHANGED <<torn, pc, seen, said, stale>>

Next == \/ \E w \in Writers :
             \/ Read(w) \/ End(w) \/ Tear(w) \/ AppendRecord(w) \/ ReadAgain(w)
             \/ \E h \in Hypotheses, f \in Forms : Register(w, h, f)
             \/ \E h \in Hypotheses, s \in Stages \union {None},
                   v \in Verdicts \union {None}, c \in BOOLEAN : Update(w, h, s, v, c)
             \/ \E m \in {V2, V3} : CheckMarker(w, m) \/ AppendMarker(w, m)
        \/ Edit

Spec == Init /\ [][Next]_vars

----------------------------------------------------------------------------
TypeOK ==
  /\ Len(log) <= MaxEntries
  /\ {torn, stale, edited} \subseteq BOOLEAN
  /\ pc \in [Writers -> {"idle", "read", V2, V3, "markV2", "markV3"}]
  /\ \A w \in Writers : Len(seen[w]) <= MaxEntries
  /\ said \in [Hypotheses -> [stage : Stages \union {Start}, verdict : Verdicts \union {Open}]]
  /\ \A i \in DOMAIN log :
       /\ log[i].seq \in Nat /\ log[i].id \in Hypotheses \union {Record, V2, V3}
       /\ log[i].stage \in Stages \union {Start} /\ log[i].verdict \in Verdicts \union {Open}
       /\ log[i].type = "hypothesis" <=> log[i].form \in Forms

(***************************************************************************)
(* "Detect tampering or reordering" (log.py:965): with writers that race   *)
(* and die, verify() accepts a readable file exactly when no line in it    *)
(* was written from a stale read and none has been changed, moved or       *)
(* removed by hand, also after further appends to the damaged file.        *)
(***************************************************************************)
VerifyIsExact == ~torn => (ChainOk(log) <=> ~stale /\ ~edited)

RegisteredOnce == \A i, j \in DOMAIN log :
  log[i].type = "hypothesis" /\ log[j].type = "hypothesis" /\ log[i].id = log[j].id => i = j

FieldsAfterMarker == \A i, j \in DOMAIN log :
  i < j /\ log[i].type = "marker" /\ log[j].type = "hypothesis" =>
     /\ log[i].id = V2 => V2Supplied(log[j].form)
     /\ log[i].id = V3 => log[j].form.v3 = "given"

V2BeforeV3 == \A j \in DOMAIN log : log[j].type = "marker" /\ log[j].id = V3 =>
  \E i \in 1..(j - 1) : log[i].type = "marker" /\ log[i].id = V2

(***************************************************************************)
(* Writers do not exclude each other, so a registration or a check may     *)
(* rest on a stale read.  Whenever verify() accepts the file, none did:    *)
(* every hypothesis is registered once, no registration behind a schema    *)
(* marker lacks its fields, and the v3 marker is not there without v2.     *)
(***************************************************************************)
VerifiedIsSound == Verify => RegisteredOnce /\ FieldsAfterMarker /\ V2BeforeV3

(***************************************************************************)
(* "UPDATE events overwrite only the fields they explicitly set" (log.py:  *)
(* 929): in a file verify() accepts, the current stage and verdict of a    *)
(* hypothesis are the ones last set explicitly, and no update that left    *)
(* them alone, in any order with any other writer, has put back old ones.  *)
(***************************************************************************)
StateAsSaid ==
  Verify => \A h \in Hypotheses : IsRegistered(log, h) => Merged(log, h) = said[h]

(***************************************************************************)
(* "The floor N for DSR" (log.py:747): the count never falls below one     *)
(* trial per registration and one per update that says it is one, whatever *)
(* selection rule and universe a registration gave.                        *)
(***************************************************************************)
TrialFloor == TrialCount(log) >= Cardinality({i \in DOMAIN log : log[i].counts})
============================================================================
