---------------------------- MODULE CaptureProofs ---------------------------
(***************************************************************************)
(* Proofs about Captures: records and requests agree once a session has    *)
(* reconciled them, what is published was checked, and every publication   *)
(* is acknowledged in full.                                                *)
(*                                                                         *)
(* A process may die between any two writes, so the invariant has to say   *)
(* what each write may leave behind.  Stored does, leaf by leaf, for what  *)
(* survives a process; Session says what the session that holds the lock   *)
(* knows at each of its steps.                                             *)
(***************************************************************************)
EXTENDS Captures, SequenceTheorems, TLAPS

-----------------------------------------------------------------------------
\* Shapes of the values.

RowShape ==
    [value : Value \cup {None}, token : Nat, state : {"pending", "committed", "aborted"},
     attempt : Nat, candidate : Candidate \cup {None}, batch : SUBSET (Leaf \X Nat), version : Nat]
ReceiptShape == [leaf : Leaf, seq : Nat, version : Nat, root : Tree]
Record ==
    [origin : Value, sequence : Nat, token : Nat, pending : PendingCapture \cup {None},
     last : ReceiptShape \cup {None}]

Typed ==
    /\ rows \in [Leaf -> Seq(RowShape)]
    /\ rec \in [Leaf -> Record]
    /\ lease \in [Leaf -> Nat] /\ next \in Nat
    /\ log \in Seq(Tree) /\ log # <<>>
    /\ staged \in Tree
    /\ tipNode \in Checkpoint /\ ref \in Checkpoint
    /\ checking \subseteq Candidate

-----------------------------------------------------------------------------
\* What is stored, leaf by leaf: a leaf's number l, record r, pending capture p
\* and rows s, the epochs g and the newest version v.

\* A leaf's record against its rows: what each write in between may leave.
RecordOK(r, s) ==
    LET p == r.pending
        n == Len(s)
    IN  IF p = None
        THEN r.sequence = n + 1 /\ \A seq \in 1..n : s[seq].state # "pending"
        ELSE /\ p.seq = r.sequence /\ p.seq \in {n, n + 1} /\ p.seq > 0
             /\ p.submitted => p.seq = n
             /\ p.seq = n =>
                  /\ s[n].state = "aborted" => p.aborting
                  /\ s[n].state # "aborted" => s[n].value = p.value
                  /\ s[n].state = "committed" => p.submitted /\ ~p.aborting
             /\ \A seq \in 1..n : seq # p.seq => s[seq].state # "pending"

\* What the record says of its candidate: a batch is of one tree, and the
\* one the authority prepared with it, as long as nothing newer was.
AssignmentOK(l, p, s, v) ==
    LET c == p.candidate
    IN  p # None /\ c # None =>
          /\ p.submitted /\ c.leaf = l /\ c.seq = p.seq
          /\ c.parent <= v /\ c.attempt <= s[p.seq].attempt
          /\ s[p.seq].candidate = c => s[p.seq].batch = {Request(d) : d \in p.batch}
          /\ \A d \in p.batch : Content(d) = Content(c)

\* What a row says of its candidate: its parent with the captured values.
PreparationOK(l, seq, row, g) ==
    LET c == row.candidate
    IN  c # None =>
          /\ c.leaf = l /\ c.seq = seq /\ c.attempt = row.attempt
          /\ c.parent < Len(g) /\ c.root[l] = row.value
          /\ \A k \in Leaf \ {l} :
                (\A q \in row.batch : q[1] # k) => c.root[k] = g[c.parent + 1][k]

RowsOK(l, s, g) ==
    \A seq \in 1..Len(s) :
        /\ PreparationOK(l, seq, s[seq], g)
        /\ s[seq].state = "committed" => s[seq].version \in 1..(Len(g) - 1)

\* A candidate on the newest epoch has passed.
Good(c, v, verdicts) == c.parent <= v /\ (c.parent = v => Content(c) \in verdicts)

VerdictOK(p, v, verdicts) ==
    p # None => (p.validation # None => Good(p.validation.candidate, v, verdicts))

\* A publication that the leaf's record does not know of yet ...
Unacknowledged(r, s) ==
    LET p == r.pending
    IN  p # None /\ p.submitted /\ ~p.aborting /\ p.seq <= Len(s) /\ s[p.seq].state = "committed"

Unsettled(r) == r.pending # None /\ (r.pending.aborting \/ ~r.pending.submitted)

\* The requests published as version v.
PublishedAs(table, v) ==
    UNION {{<<l, seq>> : seq \in {n \in 1..Len(table[l]) :
                table[l][n].state = "committed" /\ table[l][n].version = v}} : l \in Leaf}

MembersOf(p) == IF p.batch = {} THEN {p.candidate} ELSE p.batch

\* ... is the newest, and the record can finish it.
PublicationOK(p, s, g, published) ==
    /\ s[p.seq].version = Len(g) - 1
    /\ p.candidate # None /\ p.candidate = s[p.seq].candidate
    /\ p.candidate.root = g[Len(g)] /\ p.candidate.parent + 2 = Len(g)
    /\ {Request(c) : c \in MembersOf(p)} = published

AcknowledgmentOK(l, r, s, g) ==
    LET published == {seq \in 1..Len(s) : s[seq].state = "committed"}
    IN  IF published = {} THEN r.last = None
        ELSE /\ r.last.seq \in published
             /\ \A seq \in published : seq <= r.last.seq
             /\ r.last.version = s[r.last.seq].version
             /\ r.origin = g[Len(g)][l]

RecordsOK     == \A l \in Leaf : RecordOK(rec[l], rows[l])
AssignmentsOK == \A l \in Leaf : AssignmentOK(l, rec[l].pending, rows[l], version)
TablesOK      == \A l \in Leaf : RowsOK(l, rows[l], log)
VerdictsOK    == /\ \A c \in checking : c.parent <= version
                 /\ \A l \in Leaf : VerdictOK(rec[l].pending, version, passed)
PublicationsOK ==
    \A l \in Leaf :
        IF Unacknowledged(rec[l], rows[l])
        THEN PublicationOK(rec[l].pending, rows[l], log, PublishedAs(rows, version))
        ELSE AcknowledgmentOK(l, rec[l], rows[l], log)

\* Outside the leaves: receipts, tip and reference, unless they are still to come.
Newest == Node(version, tip)
Identities(receipt) == {<<r.leaf, r.seq>> : r \in receipt}
Recorded(v) == v \in DOMAIN receipts /\ Identities(receipts[v]) = PublishedAs(rows, v)
Open == \E l \in Leaf : Unacknowledged(rec[l], rows[l])

ReceiptsOK ==
    /\ DOMAIN receipts \subseteq 1..version
    /\ \A v \in 1..version : (v = version /\ Open) \/ Recorded(v)
NodesOK == Open \/ (tipNode = Newest /\ ref = Newest)

Stored ==
    /\ Typed /\ RecordsOK /\ AssignmentsOK /\ TablesOK /\ VerdictsOK
    /\ PublicationsOK /\ ReceiptsOK /\ NodesOK

-----------------------------------------------------------------------------
\* What a session knows at each of its steps.

Submitting == {"stage", "propose", "submitted"}
Cancelling == {"cancel", "cancelled"}
Finishing == {"reference", "receipt", "tip", "acknowledge"}
Passes == {"ready", "captures", "publications", "finish", "assign", "validate"}

SessionOK ==
    call # None =>
        /\ call = [step |-> call.step, mode |-> call.mode, rest |-> call.rest,
                   leaf |-> call.leaf, value |-> call.value]
        /\ \/ call.step = "visit" /\ call.mode \in Passes
           \/ call.step = "intent" /\ call.mode = "capture"
           \/ call.step \in Submitting /\ call.mode \in {"capture", "captures"}
           \/ call.step \in Cancelling /\ call.mode \in {"abort", "captures"}
           \/ call.step = "prepared" /\ call.mode = "prepare"
           \/ call.step \in Finishing /\ call.mode \in {"finish", "publications"}
        /\ call.rest \subseteq Leaf
        /\ call.mode \in {"ready", "capture", "abort", "prepare"} => call.rest = {}
        /\ call.step # "visit" => call.leaf \in Leaf \ call.rest

\* The leaves a pass has still to finish.
Left == call.rest \cup {l \in {call.leaf} : call.step # "visit"}

PassOK ==
    call # None =>
        /\ call.mode = "ready" => \A l \in Leaf : ~Unsettled(rec[l])
        /\ call.mode \in {"ready", "prepare", "assign"} => ~Open
        /\ call.mode = "captures" => \A l \in Leaf :
              (l \in call.rest => Unsettled(rec[l])) /\ (Unsettled(rec[l]) => l \in Left)
        /\ call.mode = "publications" => \A l \in Leaf :
              ~Unsettled(rec[l]) /\ (Unacknowledged(rec[l], rows[l]) => l \in Left)
        /\ call.mode \in {"publications", "finish"} =>
              \A l \in Left : Unacknowledged(rec[l], rows[l])

\* Candidates that belong together: one tree on one epoch, one per leaf.
Together(batch) ==
    /\ batch \subseteq Candidate
    /\ \A c, d \in batch : Content(c) = Content(d) /\ (c.leaf = d.leaf => c = d)
Covers(batch, leaves) == \A l \in leaves : \E c \in batch : c.leaf = l

CaptureOK(step, r, s, edit) ==
    /\ r.pending # None /\ ~r.pending.aborting /\ ~r.pending.submitted
    /\ step = "propose" => edit = r.pending.value
    /\ step = "submitted" => r.pending.seq = Len(s)
CancelOK(step, r, s) ==
    /\ r.pending # None /\ r.pending.aborting
    /\ step = "cancelled" => r.pending.seq = Len(s) /\ s[Len(s)].state = "aborted"
SubmittedOK(p) == p # None /\ p.submitted /\ ~p.aborting
AssignOK(c, batch, p, s) ==
    /\ SubmittedOK(p) /\ c.seq = p.seq
    /\ s[c.seq].candidate = c /\ s[c.seq].batch = {Request(d) : d \in batch}

StepsOK ==
    call # None =>
        /\ call.step = "intent" => rec[l0].pending = None /\ call.value \in Value
        /\ call.step \in Submitting => CaptureOK(call.step, rec[l0], rows[l0], staged[l0])
        /\ call.step \in Cancelling => CancelOK(call.step, rec[l0], rows[l0])
        /\ call.step = "prepared" =>
              /\ SubmittedOK(rec[l0].pending)
              /\ LET row == rows[l0][rec[l0].pending.seq] IN row.candidate # None /\ row.batch = {}
        /\ call.mode = "assign" =>
              /\ Together(call.value) /\ Covers(call.value, call.rest)
              /\ \A c \in call.value : AssignOK(c, call.value, rec[c.leaf].pending, rows[c.leaf])
        /\ call.mode = "validate" =>
              /\ Together(call.value.batch) /\ Covers(call.value.batch, call.rest)
              /\ call.value.check \in call.value.batch
              /\ \A c \in call.value.batch : rec[c.leaf].pending # None /\ Good(c, version, passed)
        /\ call.step \in {"receipt", "tip", "acknowledge"} => ref = Newest
        /\ call.step \in {"tip", "acknowledge"} => Recorded(version)
        /\ call.step = "acknowledge" => tipNode = Newest

Session == SessionOK /\ PassOK /\ StepsOK
IInv == Stored /\ Session

-----------------------------------------------------------------------------
\* Facts about the operators.

\* A request was published as a version if its row says so.
LEMMA InPublished ==
    ASSUME NEW table, NEW v, NEW l \in Leaf, NEW seq
    PROVE  <<l, seq>> \in PublishedAs(table, v)
             <=> seq \in 1..Len(table[l]) /\ table[l][seq].state = "committed" /\ table[l][seq].version = v
BY DEF PublishedAs

\* Only requests are published.
LEMMA PublishedShape ==
    ASSUME NEW table, NEW v, NEW q \in PublishedAs(table, v)
    PROVE  \E l \in Leaf : \E seq \in 1..Len(table[l]) : q = <<l, seq>>
BY DEF PublishedAs

SameCommits(old, new, v) ==
    \A l \in Leaf : \A seq :
        (seq \in 1..Len(old[l]) /\ old[l][seq].state = "committed" /\ old[l][seq].version = v)
          <=> (seq \in 1..Len(new[l]) /\ new[l][seq].state = "committed" /\ new[l][seq].version = v)

\* What was published depends on the committed rows alone.
LEMMA SamePublished ==
    ASSUME NEW old, NEW new, NEW v,
           SameCommits(old, new, v)
    PROVE  PublishedAs(new, v) = PublishedAs(old, v)
<1>1. ASSUME NEW q \in PublishedAs(old, v)
      PROVE  q \in PublishedAs(new, v)
  <2>1. PICK l \in Leaf : \E seq \in 1..Len(old[l]) : q = <<l, seq>>
    BY <1>1, PublishedShape
  <2> QED
    BY <1>1, <2>1, InPublished DEF SameCommits
<1>2. ASSUME NEW q \in PublishedAs(new, v)
      PROVE  q \in PublishedAs(old, v)
  <2>1. PICK l \in Leaf : \E seq \in 1..Len(new[l]) : q = <<l, seq>>
    BY <1>2, PublishedShape
  <2> QED
    BY <1>2, <2>1, InPublished DEF SameCommits
<1> QED
  BY <1>1, <1>2

\* Versions and rows are numbered as sequences are.
LEMMA Numbers ==
    ASSUME Typed
    PROVE  /\ version \in Nat /\ Len(log) = version + 1 /\ Len(log) \in Nat
           /\ tip = log[Len(log)] /\ tip \in Tree
           /\ \A l \in Leaf : /\ rows[l] \in Seq(RowShape) /\ rec[l] \in Record /\ Len(rows[l]) \in Nat
                              /\ \A seq \in 1..Len(rows[l]) : rows[l][seq] \in RowShape
<1>1. log \in Seq(Tree) /\ log # <<>>
  BY DEF Typed
<1>2. Len(log) \in Nat /\ Len(log) # 0
  BY <1>1
<1>3. version \in Nat /\ Len(log) = version + 1 /\ Len(log) \in Nat
  BY <1>2 DEF version
<1>4. tip \in Tree
  BY <1>1, <1>2 DEF tip
<1>5. \A l \in Leaf : rows[l] \in Seq(RowShape) /\ rec[l] \in Record
  BY DEF Typed
<1> HIDE DEF RowShape
<1>6. ASSUME NEW l \in Leaf
      PROVE  Len(rows[l]) \in Nat /\ \A seq \in 1..Len(rows[l]) : rows[l][seq] \in RowShape
  BY <1>5
<1> QED
  BY <1>3, <1>4, <1>5, <1>6 DEF tip

-----------------------------------------------------------------------------
\* Steps that change the record of one leaf, and the rows of one leaf.

\* A leaf's record is written.
LEMMA RecordStep ==
    ASSUME Stored, NEW l \in Leaf, NEW r \in Record,
           rec' = [rec EXCEPT ![l] = r],
           UNCHANGED <<rows, log, tipNode, ref, receipts>>,
           lease' \in [Leaf -> Nat], next' \in Nat, staged' \in Tree,
           passed \subseteq passed', checking' \subseteq Candidate, \A c \in checking' : c.parent <= version,
           RecordOK(r, rows[l]), AssignmentOK(l, r.pending, rows[l], version),
           VerdictOK(r.pending, version, passed'),
           Unacknowledged(r, rows[l]) <=> Unacknowledged(rec[l], rows[l]),
           IF Unacknowledged(rec[l], rows[l])
           THEN PublicationOK(r.pending, rows[l], log, PublishedAs(rows, version))
           ELSE AcknowledgmentOK(l, r, rows[l], log)
    PROVE  Stored'
<1>1. rec'[l] = r /\ \A k \in Leaf : k # l => rec'[k] = rec[k]
  BY DEF Stored, Typed
<1>2. version' = version
  BY DEF version
<1>3. Typed'
  BY DEF Stored, Typed
<1>4. RecordsOK' /\ AssignmentsOK' /\ TablesOK'
  BY <1>1, <1>2 DEF Stored, RecordsOK, AssignmentsOK, TablesOK
<1>5. \A k \in Leaf : VerdictOK(rec[k].pending, version, passed) => VerdictOK(rec[k].pending, version, passed')
  BY DEF VerdictOK, Good
<1>6. VerdictsOK'
  BY <1>1, <1>2, <1>5 DEF Stored, VerdictsOK
<1>7. \A k \in Leaf : Unacknowledged(rec'[k], rows'[k]) <=> Unacknowledged(rec[k], rows[k])
  BY <1>1
<1>8. PublicationsOK'
  BY <1>1, <1>2, <1>7 DEF Stored, PublicationsOK
<1>9. Open' <=> Open
  BY <1>7 DEF Open
<1>10. Newest' = Newest /\ \A v : Recorded(v)' <=> Recorded(v)
  BY <1>2 DEF Newest, Recorded, tip
<1>11. ReceiptsOK' /\ NodesOK'
  BY <1>2, <1>9, <1>10 DEF Stored, ReceiptsOK, NodesOK
<1> QED
  BY <1>3, <1>4, <1>6, <1>8, <1>11 DEF Stored

\* Reservations, views and running checks are not what is stored.
LEMMA QuietStep ==
    ASSUME Stored, UNCHANGED <<rec, rows, log, tipNode, ref, receipts, passed>>,
           lease' \in [Leaf -> Nat], next' \in Nat, staged' \in Tree,
           checking' \subseteq Candidate, \A c \in checking' : c.parent <= version
    PROVE  Stored'
<1>1. version' = version /\ Newest' = Newest
  BY DEF version, tip, Newest
<1>2. Typed'
  BY DEF Stored, Typed
<1>3. RecordsOK' /\ AssignmentsOK' /\ TablesOK' /\ VerdictsOK' /\ PublicationsOK'
  BY <1>1 DEF Stored, RecordsOK, AssignmentsOK, TablesOK, VerdictsOK, PublicationsOK
<1>4. (Open' <=> Open) /\ \A v : Recorded(v)' <=> Recorded(v)
  BY DEF Open, Recorded
<1>5. ReceiptsOK' /\ NodesOK'
  BY <1>1, <1>4 DEF Stored, ReceiptsOK, NodesOK
<1> QED
  BY <1>2, <1>3, <1>5 DEF Stored

\* What a change of a leaf's rows has to respect.
Rewritten(l, r, old, new, g) ==
    /\ RecordOK(r, new) /\ AssignmentOK(l, r.pending, new, Len(g) - 1) /\ RowsOK(l, new, g)
    /\ ~Unacknowledged(r, old) /\ ~Unacknowledged(r, new)
    /\ AcknowledgmentOK(l, r, new, g)
    /\ \A seq : /\ (seq \in 1..Len(new) /\ new[seq].state = "committed")
                      <=> (seq \in 1..Len(old) /\ old[seq].state = "committed")
                /\ seq \in 1..Len(new) /\ new[seq].state = "committed" => new[seq].version = old[seq].version

\* Rows are written, of any leaves, none of them published by it.
LEMMA RowsStep ==
    ASSUME Stored, rows' \in [Leaf -> Seq(RowShape)],
           UNCHANGED <<rec, log, tipNode, ref, receipts, passed, lease, next, staged, checking>>,
           \A l \in Leaf : rows'[l] = rows[l] \/ Rewritten(l, rec[l], rows[l], rows'[l], log)
    PROVE  Stored'
<1>1. version' = version /\ Newest' = Newest /\ version = Len(log) - 1
  BY DEF version, tip, Newest
<1>2. Typed'
  BY DEF Stored, Typed
<1>3. RecordsOK' /\ AssignmentsOK' /\ TablesOK' /\ VerdictsOK'
  BY <1>1 DEF Stored, RecordsOK, AssignmentsOK, TablesOK, VerdictsOK, Rewritten
<1>4. \A v : PublishedAs(rows', v) = PublishedAs(rows, v)
  <2> TAKE v
  <2>1. SameCommits(rows, rows', v)
    BY DEF SameCommits, Rewritten
  <2> QED
    BY <2>1, SamePublished
<1>5. \A l \in Leaf : Unacknowledged(rec'[l], rows'[l]) <=> Unacknowledged(rec[l], rows[l])
  BY DEF Rewritten
<1>6. PublicationsOK'
  BY <1>1, <1>4, <1>5 DEF Stored, PublicationsOK, Rewritten
<1>7. (Open' <=> Open) /\ \A v : Recorded(v)' <=> Recorded(v)
  BY <1>4, <1>5 DEF Open, Recorded
<1>8. ReceiptsOK' /\ NodesOK'
  BY <1>1, <1>7 DEF Stored, ReceiptsOK, NodesOK
<1> QED
  BY <1>2, <1>3, <1>6, <1>8 DEF Stored

\* The rows of one leaf are written.
LEMMA LeafRowsStep ==
    ASSUME Stored, NEW l \in Leaf, NEW s \in Seq(RowShape),
           rows' = [rows EXCEPT ![l] = s],
           UNCHANGED <<rec, log, tipNode, ref, receipts, passed, lease, next, staged, checking>>,
           Rewritten(l, rec[l], rows[l], s, log)
    PROVE  Stored'
<1>1. rows'[l] = s /\ \A k \in Leaf : k # l => rows'[k] = rows[k]
  BY DEF Stored, Typed
<1>2. rows' \in [Leaf -> Seq(RowShape)]
  BY DEF Stored, Typed
<1> QED
  BY <1>1, <1>2, RowsStep

-----------------------------------------------------------------------------
\* Steps of a capture.

\* capture: the path is reserved, the record only keeps its token.
LEMMA CaptureStored ==
    ASSUME Stored, Session, NEW l \in Leaf, NEW v \in Value, capture(l, v)
    PROVE  Stored'
<1> DEFINE r == [rec[l] EXCEPT !.token = lease'[l], !.origin = tip[l]]
<1>1. /\ rec[l] \in Record /\ rec[l].pending = None /\ tip[l] \in Value
      /\ RecordOK(rec[l], rows[l]) /\ ~Unacknowledged(rec[l], rows[l])
      /\ AcknowledgmentOK(l, rec[l], rows[l], log)
  BY Numbers DEF Stored, RecordsOK, PublicationsOK, Unacknowledged, capture, Tree
<1>2. lease' \in [Leaf -> Nat] /\ next' \in Nat
  BY DEF Stored, Typed, capture
<1>3. r \in Record /\ rec' = [rec EXCEPT ![l] = r]
  BY <1>1, <1>2 DEF Record, capture, Stored, Typed
<1>4. r.pending = None /\ r.sequence = rec[l].sequence /\ r.last = rec[l].last /\ r.origin = tip[l]
  BY <1>1 DEF Record
<1> HIDE DEF r
<1>5. RecordOK(r, rows[l]) /\ ~Unacknowledged(r, rows[l]) /\ VerdictOK(r.pending, version, passed')
  BY <1>1, <1>4 DEF RecordOK, Unacknowledged, VerdictOK
<1>6. AcknowledgmentOK(l, r, rows[l], log) /\ AssignmentOK(l, r.pending, rows[l], version)
  BY <1>1, <1>4 DEF AcknowledgmentOK, AssignmentOK, tip
<1>7. UNCHANGED <<rows, log, tipNode, ref, receipts, passed, staged, checking>>
  BY DEF capture, Rest, workspace, outside
<1> QED
  BY <1>1, <1>2, <1>3, <1>5, <1>6, <1>7, RecordStep DEF Stored, Typed, VerdictsOK

\* The intent is saved under the number the next request will have.
LEMMA IntentStored ==
    ASSUME Stored, Session, SaveIntent
    PROVE  Stored'
<1> DEFINE q == Capture(rec[l0].sequence, call.value)
           r == [rec[l0] EXCEPT !.pending = q]
<1>1. l0 \in Leaf /\ rec[l0].pending = None /\ call.value \in Value
  BY DEF Session, SessionOK, StepsOK, SaveIntent, At, l0
<1>2. /\ rec[l0] \in Record /\ Len(rows[l0]) \in Nat
      /\ RecordOK(rec[l0], rows[l0]) /\ ~Unacknowledged(rec[l0], rows[l0])
      /\ AcknowledgmentOK(l0, rec[l0], rows[l0], log)
  BY <1>1, Numbers DEF Stored, RecordsOK, PublicationsOK, Unacknowledged
<1>3. q \in PendingCapture
  BY <1>1, <1>2 DEF Record, PendingCapture, Capture
<1>4. /\ q.seq = rec[l0].sequence /\ ~q.submitted /\ ~q.aborting /\ q.candidate = None
      /\ q.validation = None /\ q # None
  BY <1>3, NoneAssumption DEF Capture
<1>5. r \in Record /\ rec' = [rec EXCEPT ![l0] = r]
  BY <1>1, <1>2, <1>3 DEF Record, SaveIntent, Stored, Typed
<1>6. r.pending = q /\ r.sequence = rec[l0].sequence /\ r.last = rec[l0].last /\ r.origin = rec[l0].origin
  BY <1>2 DEF Record
<1> HIDE DEF q, r
<1>7. RecordOK(r, rows[l0])
  BY <1>1, <1>2, <1>4, <1>6 DEF RecordOK, Record
<1>8. ~Unacknowledged(r, rows[l0]) /\ VerdictOK(r.pending, version, passed')
  BY <1>4, <1>6 DEF Unacknowledged, VerdictOK
<1>9. AcknowledgmentOK(l0, r, rows[l0], log) /\ AssignmentOK(l0, r.pending, rows[l0], version)
  BY <1>2, <1>4, <1>6 DEF AcknowledgmentOK, AssignmentOK
<1>10. UNCHANGED <<rows, lease, next, log, staged, tipNode, ref, receipts, passed, checking>>
  BY DEF SaveIntent, authority, Rest, workspace, outside
<1> QED
  BY <1>1, <1>2, <1>5, <1>7, <1>8, <1>9, <1>10, RecordStep DEF Stored, Typed, VerdictsOK

\* Staging writes a view.
LEMMA StageStored ==
    ASSUME Stored, Session, StageEdit
    PROVE  Stored'
<1>1. l0 \in Leaf /\ pending # None
  BY DEF Session, SessionOK, StepsOK, CaptureOK, StageEdit, At, l0, Submitting, pending
<1>2. pending.value \in Value
  BY <1>1, Numbers DEF pending, Stored, Record, PendingCapture
<1>3. staged' \in Tree
  BY <1>1, <1>2 DEF StageEdit, Refuse, authority, Stored, Typed, Tree
<1>4. UNCHANGED <<rec, rows, log, tipNode, ref, receipts, passed, lease, next, checking>>
  BY DEF StageEdit, Refuse, authority, Rest, workspace, outside
<1> QED
  BY <1>3, <1>4, QuietStep DEF Stored, Typed, VerdictsOK

\* The request is added under the number the record has reserved.
LEMMA ProposeStored ==
    ASSUME Stored, Session, Propose
    PROVE  Stored'
<1>1. l0 \in Leaf /\ CaptureOK("propose", rec[l0], rows[l0], staged[l0])
  BY DEF Session, SessionOK, StepsOK, Propose, At, l0, Submitting
<1> DEFINE row == NewRow(staged[l0], lease[l0], "pending")
           s == Append(rows[l0], row)
           n == Len(rows[l0])
           p == rec[l0].pending
<1>2. CASE UNCHANGED <<rec, rows, log, tipNode, ref, receipts, passed, lease, next, checking, staged>>
  BY <1>2, QuietStep DEF Stored, Typed, VerdictsOK
<1>3. CASE /\ p.seq = n + 1 /\ rows' = [rows EXCEPT ![l0] = s]
           /\ UNCHANGED <<rec, log, tipNode, ref, receipts, passed, lease, next, staged, checking>>
  <2>1. /\ rec[l0] \in Record /\ rows[l0] \in Seq(RowShape) /\ n \in Nat
        /\ p # None /\ ~p.submitted /\ ~p.aborting /\ staged[l0] = p.value
        /\ RecordOK(rec[l0], rows[l0]) /\ RowsOK(l0, rows[l0], log)
        /\ AssignmentOK(l0, p, rows[l0], version)
    BY <1>1, Numbers DEF CaptureOK, Stored, RecordsOK, TablesOK, AssignmentsOK
  <2>2. row \in RowShape
    BY <1>1, <2>1 DEF NewRow, RowShape, Stored, Typed, Tree
  <2>3. row.state = "pending" /\ row.value = p.value /\ row.candidate = None
    BY <2>1 DEF NewRow
  <2> HIDE DEF row
  <2> HIDE DEF RowShape
  <2>4. /\ s \in Seq(RowShape) /\ Len(s) = n + 1 /\ s[n + 1] = row
        /\ \A seq \in 1..n : s[seq] = rows[l0][seq]
    BY <2>1, <2>2
  <2> HIDE DEF s, n, p
  <2>5. RecordOK(rec[l0], s)
    BY <1>3, <2>1, <2>3, <2>4 DEF RecordOK, p, n
  <2>6. AssignmentOK(l0, p, s, version)
    BY <2>1 DEF AssignmentOK
  <2>7. \A seq : /\ (seq \in 1..Len(s) /\ s[seq].state = "committed")
                       <=> (seq \in 1..n /\ rows[l0][seq].state = "committed")
                 /\ seq \in 1..Len(s) /\ s[seq].state = "committed" => s[seq].version = rows[l0][seq].version
    BY <2>1, <2>3, <2>4
  <2>8. RowsOK(l0, s, log)
    <3>1. PreparationOK(l0, n + 1, row, log)
      BY <2>3 DEF PreparationOK
    <3>2. ASSUME NEW seq \in 1..Len(s)
          PROVE  seq \in 1..n \/ seq = n + 1
      BY <2>1, <2>4
    <3> QED
      BY <2>1, <2>3, <2>4, <3>1, <3>2 DEF RowsOK, n
  <2>9. ~Unacknowledged(rec[l0], rows[l0]) /\ ~Unacknowledged(rec[l0], s)
    BY <2>1 DEF Unacknowledged, p
  <2>10. AcknowledgmentOK(l0, rec[l0], rows[l0], log)
    BY <1>1, <2>9 DEF Stored, PublicationsOK
  <2>11. AcknowledgmentOK(l0, rec[l0], s, log)
    BY <2>7, <2>10 DEF AcknowledgmentOK, n
  <2> QED
    <3>1. Rewritten(l0, rec[l0], rows[l0], s, log)
      BY <2>5, <2>6, <2>7, <2>8, <2>9, <2>11 DEF Rewritten, n, p, version
    <3> QED
      BY <1>1, <1>3, <2>4, <3>1, LeafRowsStep
<1>4. \/ UNCHANGED <<rec, rows, log, tipNode, ref, receipts, passed, lease, next, checking, staged>>
      \/ /\ p.seq = n + 1 /\ rows' = [rows EXCEPT ![l0] = s]
         /\ UNCHANGED <<rec, log, tipNode, ref, receipts, passed, lease, next, staged, checking>>
  BY DEF Propose, Refuse, authority, Rest, workspace, outside, pending
<1> QED
  BY <1>2, <1>3, <1>4

\* The record learns that the request was added.
LEMMA SubmittedStored ==
    ASSUME Stored, Session, SaveSubmitted
    PROVE  Stored'
<1>1. l0 \in Leaf /\ CaptureOK("submitted", rec[l0], rows[l0], staged[l0])
  BY DEF Session, SessionOK, StepsOK, SaveSubmitted, At, l0, Submitting
<1> DEFINE p == rec[l0].pending
           q == [p EXCEPT !.submitted = TRUE]
           r == [rec[l0] EXCEPT !.pending = q]
<1>2. /\ rec[l0] \in Record /\ p # None /\ p \in PendingCapture /\ ~p.submitted /\ ~p.aborting
      /\ p.seq = Len(rows[l0]) /\ Len(rows[l0]) \in Nat
      /\ RecordOK(rec[l0], rows[l0]) /\ ~Unacknowledged(rec[l0], rows[l0])
      /\ AssignmentOK(l0, p, rows[l0], version)
  BY <1>1, Numbers DEF CaptureOK, Stored, RecordsOK, AssignmentsOK, Unacknowledged, Record
<1>3. AcknowledgmentOK(l0, rec[l0], rows[l0], log) /\ VerdictOK(p, version, passed)
  BY <1>1, <1>2 DEF Stored, PublicationsOK, VerdictsOK
<1>4. /\ q \in PendingCapture /\ q # None
      /\ q.seq = p.seq /\ q.submitted /\ ~q.aborting /\ q.candidate = p.candidate
      /\ q.validation = p.validation /\ q.batch = p.batch /\ q.value = p.value
  BY <1>2, NoneAssumption DEF PendingCapture
<1>5. r \in Record /\ rec' = [rec EXCEPT ![l0] = r]
  BY <1>1, <1>2, <1>4 DEF Record, SaveSubmitted, Stored, Typed
<1>6. r.pending = q /\ r.sequence = rec[l0].sequence /\ r.last = rec[l0].last /\ r.origin = rec[l0].origin
  BY <1>2 DEF Record
<1> HIDE DEF p, q, r
<1>7. RecordOK(r, rows[l0]) /\ ~Unacknowledged(r, rows[l0])
  BY <1>1, <1>2, <1>4, <1>6 DEF RecordOK, Unacknowledged, p
<1>8. AcknowledgmentOK(l0, r, rows[l0], log) /\ AssignmentOK(l0, r.pending, rows[l0], version)
  BY <1>2, <1>3, <1>4, <1>6 DEF AcknowledgmentOK, AssignmentOK
<1>9. UNCHANGED <<rows, lease, next, log, staged, tipNode, ref, receipts, passed, checking>>
  BY DEF SaveSubmitted, authority, Rest, workspace, outside
<1>10. VerdictOK(r.pending, version, passed')
  BY <1>2, <1>3, <1>4, <1>6, <1>9 DEF VerdictOK
<1> QED
  BY <1>1, <1>2, <1>5, <1>7, <1>8, <1>9, <1>10, RecordStep DEF Stored, Typed, VerdictsOK

\* The record says that the capture is to be aborted.
LEMMA AbortStored ==
    ASSUME Stored, Session, NEW l \in Leaf, abort(l)
    PROVE  Stored'
<1> DEFINE p == rec[l].pending
           q == [p EXCEPT !.aborting = TRUE]
           r == [rec[l] EXCEPT !.pending = q]
<1>1. /\ rec[l] \in Record /\ p # None /\ p \in PendingCapture /\ Len(rows[l]) \in Nat
      /\ RecordOK(rec[l], rows[l]) /\ AssignmentOK(l, p, rows[l], version)
  BY Numbers DEF abort, Stored, RecordsOK, AssignmentsOK, Record
<1>2. /\ p.aborting \/ ~(p.seq <= Len(rows[l]) /\ rows[l][p.seq].state = "committed")
      /\ ~Unacknowledged(rec[l], rows[l])
  BY <1>1 DEF abort, Known, Committed, Row, Unacknowledged
<1>3. AcknowledgmentOK(l, rec[l], rows[l], log) /\ VerdictOK(p, version, passed)
  BY <1>2 DEF Stored, PublicationsOK, VerdictsOK
<1>4. /\ q \in PendingCapture /\ q # None
      /\ q.seq = p.seq /\ (q.submitted <=> p.submitted) /\ q.aborting /\ q.candidate = p.candidate
      /\ q.validation = p.validation /\ q.batch = p.batch /\ q.value = p.value
  BY <1>1, NoneAssumption DEF PendingCapture
<1>5. r \in Record /\ rec' = [rec EXCEPT ![l] = r]
  BY <1>1, <1>4 DEF Record, abort, Stored, Typed
<1>6. r.pending = q /\ r.sequence = rec[l].sequence /\ r.last = rec[l].last /\ r.origin = rec[l].origin
  BY <1>1 DEF Record
<1> HIDE DEF p, q, r
<1>7. RecordOK(r, rows[l]) /\ ~Unacknowledged(r, rows[l])
  BY <1>1, <1>2, <1>4, <1>6 DEF RecordOK, Unacknowledged, p
<1>8. AcknowledgmentOK(l, r, rows[l], log) /\ AssignmentOK(l, r.pending, rows[l], version)
  BY <1>1, <1>3, <1>4, <1>6 DEF AcknowledgmentOK, AssignmentOK
<1>9. UNCHANGED <<rows, lease, next, log, staged, tipNode, ref, receipts, passed, checking>>
  BY DEF abort, authority, Rest, workspace, outside
<1>10. VerdictOK(r.pending, version, passed')
  BY <1>1, <1>3, <1>4, <1>6, <1>9 DEF VerdictOK
<1> QED
  BY <1>1, <1>2, <1>5, <1>7, <1>8, <1>9, <1>10, RecordStep DEF Stored, Typed, VerdictsOK

\* Two fields of one row.
LEMMA RowExcept ==
    ASSUME NEW S, NEW f \in Seq(S), NEW n \in 1..Len(f), NEW x, NEW y
    PROVE  [f EXCEPT ![n].state = x, ![n].candidate = y]
             = [f EXCEPT ![n] = [f[n] EXCEPT !.state = x, !.candidate = y]]
<1>1. DOMAIN f = 1..Len(f)
  OBVIOUS
<1> DEFINE h == [f EXCEPT ![n].state = x]
<1>2. h[n] = [f[n] EXCEPT !.state = x]
  BY <1>1
<1>3. [h EXCEPT ![n].candidate = y] = [f EXCEPT ![n] = [h[n] EXCEPT !.candidate = y]]
  BY <1>1
<1> QED
  BY <1>2, <1>3

\* The request is retired, or its number is spent.
LEMMA CancelStored ==
    ASSUME Stored, Session, cancel_capture
    PROVE  Stored'
<1>1. l0 \in Leaf /\ CancelOK("cancel", rec[l0], rows[l0])
  BY DEF Session, SessionOK, StepsOK, cancel_capture, At, l0, Cancelling
<1> DEFINE n == Len(rows[l0])
           p == rec[l0].pending
           retired == [rows[l0] EXCEPT ![p.seq].state = "aborted", ![p.seq].candidate = None]
           spent == Append(rows[l0], NewRow(None, 0, "aborted"))
           s == IF p.seq <= n THEN retired ELSE spent
<1>2. CASE UNCHANGED <<rec, rows, log, tipNode, ref, receipts, passed, lease, next, checking, staged>>
  BY <1>2, QuietStep DEF Stored, Typed, VerdictsOK
<1>3. CASE /\ ~Committed(l0, p.seq) /\ rows' = [rows EXCEPT ![l0] = s]
           /\ UNCHANGED <<rec, log, tipNode, ref, receipts, passed, lease, next, staged, checking>>
  <2>1. /\ rec[l0] \in Record /\ rows[l0] \in Seq(RowShape) /\ n \in Nat
        /\ p # None /\ p.aborting /\ p \in PendingCapture /\ p.seq \in Nat
        /\ RecordOK(rec[l0], rows[l0]) /\ RowsOK(l0, rows[l0], log)
        /\ AssignmentOK(l0, p, rows[l0], version)
        /\ \A seq \in 1..n : rows[l0][seq] \in RowShape
    BY <1>1, Numbers DEF CancelOK, Stored, RecordsOK, TablesOK, AssignmentsOK, Record, PendingCapture
  <2>2. /\ p.seq \in {n, n + 1} /\ p.seq > 0 /\ (p.submitted => p.seq = n)
        /\ \A seq \in 1..n : seq # p.seq => rows[l0][seq].state # "pending"
        /\ p.seq = rec[l0].sequence
    BY <2>1 DEF RecordOK
  <2>3. p.seq = n => n \in 1..n /\ rows[l0][n].state # "committed"
    BY <1>3, <2>1, <2>2 DEF Committed, Known, Row
  <2>4. ~Unacknowledged(rec[l0], rows[l0]) /\ ~Unacknowledged(rec[l0], s)
    BY <2>1 DEF Unacknowledged
  <2>5. AcknowledgmentOK(l0, rec[l0], rows[l0], log)
    BY <1>1, <2>4 DEF Stored, PublicationsOK
  <2>6. CASE p.seq = n
    <3> DEFINE row == [rows[l0][n] EXCEPT !.state = "aborted", !.candidate = None]
    <3>1. /\ row \in RowShape /\ row.state = "aborted" /\ row.candidate = None
          /\ row.attempt = rows[l0][n].attempt /\ row.batch = rows[l0][n].batch
      BY <2>1, <2>3, <2>6 DEF RowShape
    <3>2. s = [rows[l0] EXCEPT ![n] = row]
      <4> HIDE DEF RowShape
      <4>1. s = [rows[l0] EXCEPT ![n].state = "aborted", ![n].candidate = None]
        BY <2>1, <2>6
      <4>2. rows[l0] \in Seq(RowShape) /\ n \in 1..Len(rows[l0])
        BY <2>1, <2>3, <2>6
      <4> HIDE DEF n
      <4>3. [rows[l0] EXCEPT ![n].state = "aborted", ![n].candidate = None]
              = [rows[l0] EXCEPT ![n] = [rows[l0][n] EXCEPT !.state = "aborted", !.candidate = None]]
        BY <4>2, RowExcept, Zenon
      <4> QED
        BY <4>1, <4>3
    <3> HIDE DEF row, s
    <3> HIDE DEF RowShape
    <3>3. /\ s \in Seq(RowShape) /\ Len(s) = n /\ s[n] = row
          /\ \A seq \in 1..n : seq # n => s[seq] = rows[l0][seq]
      BY <2>1, <2>3, <2>6, <3>1, <3>2
    <3> HIDE DEF n, p
    <3>4. RecordOK(rec[l0], s)
      BY <2>1, <2>2, <2>6, <3>1, <3>3 DEF RecordOK, p
    <3>5. AssignmentOK(l0, p, s, version)
      BY <2>1, <2>6, <3>1, <3>3 DEF AssignmentOK
    <3>6. \A seq : /\ (seq \in 1..Len(s) /\ s[seq].state = "committed")
                         <=> (seq \in 1..n /\ rows[l0][seq].state = "committed")
                   /\ seq \in 1..Len(s) /\ s[seq].state = "committed" => s[seq].version = rows[l0][seq].version
      BY <2>3, <2>6, <3>1, <3>3
    <3>7. PreparationOK(l0, n, row, log)
      BY <3>1 DEF PreparationOK
    <3>8. RowsOK(l0, s, log)
      BY <2>1, <3>1, <3>3, <3>7 DEF RowsOK, n
    <3>9. AcknowledgmentOK(l0, rec[l0], s, log)
      BY <2>5, <3>6 DEF AcknowledgmentOK, n
    <3> QED
      <4>1. Rewritten(l0, rec[l0], rows[l0], s, log)
        BY <2>4, <3>4, <3>5, <3>6, <3>8, <3>9 DEF Rewritten, n, p, version
      <4> QED
        BY <1>1, <1>3, <3>3, <4>1, LeafRowsStep
  <2>7. CASE p.seq = n + 1
    <3> DEFINE row == NewRow(None, 0, "aborted")
    <3>1. row \in RowShape /\ row.state = "aborted" /\ row.candidate = None
      BY DEF NewRow, RowShape
    <3>2. s = Append(rows[l0], row)
      BY <2>1, <2>7
    <3> HIDE DEF row, s
    <3> HIDE DEF RowShape
    <3>3. /\ s \in Seq(RowShape) /\ Len(s) = n + 1 /\ s[n + 1] = row
          /\ \A seq \in 1..n : s[seq] = rows[l0][seq]
      BY <2>1, <3>1, <3>2
    <3>4. \A seq : seq \in 1..Len(s) <=> seq \in 1..n \/ seq = n + 1
      BY <2>1, <3>3
    <3> HIDE DEF n, p
    <3>5. RecordOK(rec[l0], s)
      BY <2>1, <2>2, <2>7, <3>1, <3>3 DEF RecordOK, p
    <3>6. AssignmentOK(l0, p, s, version)
      BY <2>1, <2>2, <2>7 DEF AssignmentOK
    <3>7. n + 1 \notin 1..n
      BY <2>1
    <3>8. \A seq : /\ (seq \in 1..Len(s) /\ s[seq].state = "committed")
                         <=> (seq \in 1..n /\ rows[l0][seq].state = "committed")
                   /\ seq \in 1..Len(s) /\ s[seq].state = "committed" => s[seq].version = rows[l0][seq].version
      BY <3>1, <3>3, <3>4, <3>7
    <3>9. PreparationOK(l0, n + 1, row, log)
      BY <3>1 DEF PreparationOK
    <3>10. RowsOK(l0, s, log)
      BY <2>1, <3>1, <3>3, <3>4, <3>9 DEF RowsOK, n
    <3>11. AcknowledgmentOK(l0, rec[l0], s, log)
      BY <2>5, <3>8 DEF AcknowledgmentOK, n
    <3> QED
      <4>1. Rewritten(l0, rec[l0], rows[l0], s, log)
        BY <2>4, <3>5, <3>6, <3>8, <3>10, <3>11 DEF Rewritten, n, p, version
      <4> QED
        BY <1>1, <1>3, <3>3, <4>1, LeafRowsStep
  <2> QED
    BY <2>2, <2>6, <2>7
<1>4. Committed(l0, p.seq) => UNCHANGED <<rec, rows, log, tipNode, ref, receipts, passed, lease, next, checking, staged>>
  BY DEF cancel_capture, Refuse, authority, Rest, workspace, outside, pending
<1>5. ~Committed(l0, p.seq) =>
        /\ rows' = [rows EXCEPT ![l0] = s]
        /\ UNCHANGED <<rec, log, tipNode, ref, receipts, passed, lease, next, staged, checking>>
  BY DEF cancel_capture, Rest, workspace, outside, pending, Known
<1>6. \/ UNCHANGED <<rec, rows, log, tipNode, ref, receipts, passed, lease, next, checking, staged>>
      \/ /\ ~Committed(l0, p.seq) /\ rows' = [rows EXCEPT ![l0] = s]
         /\ UNCHANGED <<rec, log, tipNode, ref, receipts, passed, lease, next, staged, checking>>
  BY <1>4, <1>5
<1> QED
  BY <1>2, <1>3, <1>6

\* The record counts on from the retired request.
LEMMA CancelledStored ==
    ASSUME Stored, Session, SaveCancelled
    PROVE  Stored'
<1>1. l0 \in Leaf /\ CancelOK("cancelled", rec[l0], rows[l0])
  BY DEF Session, SessionOK, StepsOK, SaveCancelled, At, l0, Cancelling
<1> DEFINE p == rec[l0].pending
           r == [rec[l0] EXCEPT !.sequence = p.seq + 1, !.pending = None]
<1>2. /\ rec[l0] \in Record /\ p # None /\ p \in PendingCapture /\ p.aborting
      /\ p.seq = Len(rows[l0]) /\ Len(rows[l0]) \in Nat /\ p.seq > 0
      /\ RecordOK(rec[l0], rows[l0]) /\ ~Unacknowledged(rec[l0], rows[l0])
      /\ rows[l0][Len(rows[l0])].state = "aborted"
  BY <1>1, Numbers DEF CancelOK, Stored, RecordsOK, Unacknowledged, Record, RecordOK
<1>3. AcknowledgmentOK(l0, rec[l0], rows[l0], log)
  BY <1>1, <1>2 DEF Stored, PublicationsOK
<1>4. r \in Record /\ rec' = [rec EXCEPT ![l0] = r]
  BY <1>1, <1>2 DEF Record, SaveCancelled, Stored, Typed, pending
<1>5. /\ r.pending = None /\ r.sequence = Len(rows[l0]) + 1
      /\ r.last = rec[l0].last /\ r.origin = rec[l0].origin
  BY <1>2 DEF Record
<1> HIDE DEF p, r
<1>6. RecordOK(r, rows[l0]) /\ ~Unacknowledged(r, rows[l0])
  BY <1>1, <1>2, <1>5 DEF RecordOK, Unacknowledged, p
<1>7. AcknowledgmentOK(l0, r, rows[l0], log) /\ AssignmentOK(l0, r.pending, rows[l0], version)
  BY <1>3, <1>5 DEF AcknowledgmentOK, AssignmentOK
<1>8. UNCHANGED <<rows, lease, next, log, staged, tipNode, ref, receipts, passed, checking>>
  BY DEF SaveCancelled, authority, Rest, workspace, outside
<1>9. VerdictOK(r.pending, version, passed')
  BY <1>5 DEF VerdictOK
<1> QED
  BY <1>1, <1>2, <1>4, <1>6, <1>7, <1>8, <1>9, RecordStep DEF Stored, Typed, VerdictsOK

-----------------------------------------------------------------------------
\* Preparation.

\* A function on 1..n is a sequence.
LEMMA MappedSeq ==
    ASSUME NEW S, NEW n \in Nat, NEW f \in [1..n -> S]
    PROVE  f \in Seq(S) /\ Len(f) = n
OBVIOUS

\* The candidate a leaf's submitted capture gets together with those of others.
Prepares(leaves, l) ==
    [leaf |-> l, seq |-> rec[l].pending.seq, attempt |-> rows[l][rec[l].pending.seq].attempt + 1,
     parent |-> version, root |-> Composed(Requests(leaves))]

Ours(leaves) == \A l \in leaves : SubmittedOK(rec[l].pending) /\ Pending(l, rec[l].pending.seq)

\* The tree composed for leaves has their captured values and else the tip's.
LEMMA ComposedTree ==
    ASSUME Typed, RecordsOK, NEW leaves \in SUBSET Leaf, Ours(leaves)
    PROVE  /\ Composed(Requests(leaves)) \in Tree
           /\ \A l \in leaves : Composed(Requests(leaves))[l] = rows[l][rec[l].pending.seq].value
           /\ \A l \in Leaf \ leaves : Composed(Requests(leaves))[l] = tip[l]
<1> DEFINE R == Requests(leaves)
           tree == Composed(R)
<1>1. ASSUME NEW l \in leaves
      PROVE  tree[l] = rows[l][rec[l].pending.seq].value /\ tree[l] \in Value
  <2> DEFINE r == CHOOSE r \in R : r[1] = l
  <2>1. <<l, rec[l].pending.seq>> \in R /\ <<l, rec[l].pending.seq>>[1] = l
    BY DEF Requests
  <2>2. r \in R /\ r[1] = l
    BY <2>1
  <2>3. r = <<l, rec[l].pending.seq>>
    BY <2>2 DEF Requests
  <2>4. tree[l] = rows[l][rec[l].pending.seq].value
    BY <2>2, <2>3 DEF Composed, Row
  <2>5. /\ rec[l].pending \in PendingCapture /\ rec[l].pending.value \in Value
        /\ rec[l].pending.seq = Len(rows[l]) /\ rec[l].pending # None
        /\ rows[l][rec[l].pending.seq].state = "pending"
    BY Numbers DEF Ours, SubmittedOK, Pending, Known, Row, RecordsOK, RecordOK, Record, PendingCapture
  <2>6. RecordOK(rec[l], rows[l])
    BY DEF RecordsOK
  <2>7. rows[l][rec[l].pending.seq].value = rec[l].pending.value
    BY <2>5, <2>6 DEF RecordOK
  <2> QED
    BY <2>4, <2>5, <2>7
<1>2. ASSUME NEW l \in Leaf \ leaves
      PROVE  tree[l] = tip[l] /\ tree[l] \in Value
  <2>1. ~\E r \in R : r[1] = l
    BY DEF Requests
  <2> QED
    BY <2>1, Numbers DEF Composed, Tree
<1>3. tree = [l \in Leaf |-> tree[l]]
  BY DEF Composed
<1>4. tree \in Tree
  BY <1>1, <1>2, <1>3 DEF Tree
<1> QED
  BY <1>1, <1>2, <1>4

\* One candidate for each leaf.
LEMMA PreparedCandidates ==
    ASSUME NEW leaves \in SUBSET Leaf
    PROVE  Candidates(Requests(leaves)) = {Prepares(leaves, l) : l \in leaves}
<1> DEFINE R == Requests(leaves)
           built(r) == [leaf |-> r[1], seq |-> r[2], attempt |-> Row(r[1], r[2]).attempt + 1,
                        parent |-> version, root |-> Composed(R)]
<1>1. \A l \in leaves : built(<<l, rec[l].pending.seq>>) = Prepares(leaves, l)
  BY DEF Prepares, Row
<1>2. R = {<<l, rec[l].pending.seq>> : l \in leaves}
  BY DEF Requests
<1>3. Candidates(R) = {built(r) : r \in R}
  BY DEF Candidates
<1> HIDE DEF built, R
<1>4. \A c : c \in Candidates(R) <=> \E l \in leaves : c = Prepares(leaves, l)
  BY <1>1, <1>2, <1>3
<1> QED
  BY <1>4 DEF R

\* Only the members' newest rows change.
LEMMA PreparedRows ==
    ASSUME Typed, RecordsOK, NEW leaves \in SUBSET Leaf, Ours(leaves),
           NEW batch, batch \in SUBSET (Leaf \X Nat), Prepared(Requests(leaves), batch)
    PROVE  /\ rows' \in [Leaf -> Seq(RowShape)]
           /\ \A l \in Leaf : /\ Len(rows'[l]) = Len(rows[l])
                              /\ l \notin leaves => rows'[l] = rows[l]
           /\ \A l \in leaves :
                /\ rec[l].pending.seq = Len(rows[l]) /\ Len(rows[l]) > 0
                /\ \A seq \in 1..Len(rows[l]) : seq # Len(rows[l]) => rows'[l][seq] = rows[l][seq]
                /\ rows'[l][Len(rows[l])] =
                     [rows[l][Len(rows[l])] EXCEPT !.attempt = Prepares(leaves, l).attempt,
                                                   !.candidate = Prepares(leaves, l), !.batch = batch]
                /\ Prepares(leaves, l) \in Candidate
<1> DEFINE R == Requests(leaves)
           new(l, seq) == IF <<l, seq>> \notin R THEN Row(l, seq)
                          ELSE LET c == CHOOSE c \in Candidates(R) : Request(c) = <<l, seq>>
                               IN  [Row(l, seq) EXCEPT !.attempt = c.attempt, !.candidate = c, !.batch = batch]
<1>1. \A l \in Leaf : rows'[l] = [seq \in DOMAIN rows[l] |-> new(l, seq)]
  BY DEF Prepared
<1>2. rows' = [l \in Leaf |-> rows'[l]]
  BY DEF Prepared
<1>3. \A l \in Leaf : /\ Len(rows[l]) \in Nat /\ DOMAIN rows[l] = 1..Len(rows[l])
                      /\ \A seq \in 1..Len(rows[l]) : rows[l][seq] \in RowShape
  BY Numbers
<1>4. ASSUME NEW l \in leaves
      PROVE  /\ rec[l].pending.seq = Len(rows[l]) /\ Len(rows[l]) \in 1..Len(rows[l])
             /\ \A seq : <<l, seq>> \in R <=> seq = Len(rows[l])
  <2>1. RecordOK(rec[l], rows[l]) /\ SubmittedOK(rec[l].pending)
    BY DEF RecordsOK, Ours
  <2>2. rec[l].pending.seq = Len(rows[l]) /\ Len(rows[l]) \in 1..Len(rows[l])
    BY <1>3, <2>1 DEF RecordOK, SubmittedOK
  <2> QED
    BY <2>2 DEF Requests
<1>5. \A l \in Leaf \ leaves : \A seq : <<l, seq>> \notin R
  BY DEF Requests
<1>6. ASSUME NEW l \in leaves
      PROVE  Prepares(leaves, l) \in Candidate
  <2>1. Composed(R) \in Tree /\ version \in Nat
    BY ComposedTree, Numbers
  <2>2. rows[l][rec[l].pending.seq].attempt \in Nat /\ rec[l].pending.seq \in Nat
    BY <1>3, <1>4 DEF RowShape
  <2> QED
    BY <2>1, <2>2 DEF Prepares, Candidate
<1>7. ASSUME NEW l \in leaves
      PROVE  (CHOOSE c \in Candidates(R) : Request(c) = <<l, Len(rows[l])>>) = Prepares(leaves, l)
  <2>1. \A k \in leaves : Request(Prepares(leaves, k)) = <<k, rec[k].pending.seq>>
    BY DEF Request, Prepares
  <2>2. Candidates(R) = {Prepares(leaves, k) : k \in leaves}
    BY PreparedCandidates
  <2>3. Prepares(leaves, l) \in Candidates(R) /\ Request(Prepares(leaves, l)) = <<l, Len(rows[l])>>
    BY <1>4, <2>1, <2>2
  <2>4. \A c \in Candidates(R) : Request(c) = <<l, Len(rows[l])>> => c = Prepares(leaves, l)
    BY <2>1, <2>2
  <2> QED
    BY <2>3, <2>4
<1>8. ASSUME NEW l \in leaves
      PROVE  new(l, Len(rows[l])) =
               [rows[l][Len(rows[l])] EXCEPT !.attempt = Prepares(leaves, l).attempt,
                                             !.candidate = Prepares(leaves, l), !.batch = batch]
  BY <1>4, <1>7 DEF Row
<1>9. \A l \in leaves : \A seq \in 1..Len(rows[l]) : seq # Len(rows[l]) => new(l, seq) = rows[l][seq]
  BY <1>4 DEF Row
<1>10. \A l \in Leaf \ leaves : \A seq : new(l, seq) = rows[l][seq]
  BY <1>5 DEF Row
<1> HIDE DEF new
<1>11. ASSUME NEW l \in leaves
       PROVE  new(l, Len(rows[l])) \in RowShape
  <2>1. Prepares(leaves, l).attempt \in Nat
    BY <1>6 DEF Candidate
  <2>2. rows[l][Len(rows[l])] \in RowShape
    BY <1>3, <1>4
  <2> QED
    BY <1>6, <1>8, <2>1, <2>2 DEF RowShape
<1> HIDE DEF RowShape
<1>12. ASSUME NEW l \in Leaf
       PROVE  rows'[l] \in Seq(RowShape) /\ Len(rows'[l]) = Len(rows[l])
  <2>1. ASSUME NEW seq \in 1..Len(rows[l])
        PROVE  new(l, seq) \in RowShape
    BY <1>3, <1>9, <1>10, <1>11
  <2>2. rows'[l] = [seq \in 1..Len(rows[l]) |-> new(l, seq)]
    BY <1>1, <1>3
  <2>3. rows'[l] \in [1..Len(rows[l]) -> RowShape]
    BY <2>1, <2>2
  <2> QED
    BY <1>3, <2>3, MappedSeq
<1>13. rows' \in [Leaf -> Seq(RowShape)]
  BY <1>2, <1>12
<1>14. ASSUME NEW l \in Leaf \ leaves
       PROVE  rows'[l] = rows[l]
  <2>1. rows[l] = [seq \in DOMAIN rows[l] |-> rows[l][seq]]
    BY <1>3, Numbers
  <2> QED
    BY <1>1, <1>10, <2>1
<1>15. \A l \in Leaf : \A seq \in 1..Len(rows[l]) : rows'[l][seq] = new(l, seq)
  BY <1>1, <1>3
<1>16. ASSUME NEW l \in leaves
       PROVE  /\ rec[l].pending.seq = Len(rows[l]) /\ Len(rows[l]) > 0
              /\ \A seq \in 1..Len(rows[l]) : seq # Len(rows[l]) => rows'[l][seq] = rows[l][seq]
              /\ rows'[l][Len(rows[l])] = new(l, Len(rows[l]))
  BY <1>3, <1>4, <1>9, <1>15
<1> QED
  BY <1>6, <1>8, <1>12, <1>13, <1>14, <1>16

\* Preparation writes the newest row of each of the leaves.
LEMMA PreparedStored ==
    ASSUME Stored, NEW leaves \in SUBSET Leaf, Ours(leaves), NEW batch,
           batch = Requests(leaves) \/ (batch = {} /\ \E l \in Leaf : leaves = {l}),
           Prepared(Requests(leaves), batch),
           UNCHANGED <<rec, log, tipNode, ref, receipts, passed, lease, next, staged, checking>>
    PROVE  Stored'
<1>1. batch \in SUBSET (Leaf \X Nat)
  BY Numbers DEF Ours, SubmittedOK, Stored, Record, PendingCapture, Requests
<1>2. /\ rows' \in [Leaf -> Seq(RowShape)]
      /\ \A l \in Leaf : /\ Len(rows'[l]) = Len(rows[l])
                         /\ l \notin leaves => rows'[l] = rows[l]
      /\ \A l \in leaves :
           /\ rec[l].pending.seq = Len(rows[l]) /\ Len(rows[l]) > 0
           /\ \A seq \in 1..Len(rows[l]) : seq # Len(rows[l]) => rows'[l][seq] = rows[l][seq]
           /\ rows'[l][Len(rows[l])] =
                [rows[l][Len(rows[l])] EXCEPT !.attempt = Prepares(leaves, l).attempt,
                                              !.candidate = Prepares(leaves, l), !.batch = batch]
           /\ Prepares(leaves, l) \in Candidate
  <2>1. Typed /\ RecordsOK
    BY DEF Stored
  <2> QED
    BY <1>1, <2>1, PreparedRows
<1>3. ASSUME NEW l \in leaves
      PROVE  Rewritten(l, rec[l], rows[l], rows'[l], log)
  <2> DEFINE n == Len(rows[l])
             old == rows[l]
             s == rows'[l]
             p == rec[l].pending
             c == Prepares(leaves, l)
  <2>1. /\ n \in Nat /\ n > 0 /\ Len(s) = n /\ p.seq = n
        /\ s[n] = [old[n] EXCEPT !.attempt = c.attempt, !.candidate = c, !.batch = batch]
        /\ \A seq \in 1..n : seq # n => s[seq] = old[seq]
        /\ c \in Candidate
    <3>1. n \in Nat
      BY Numbers DEF Stored
    <3> QED
      BY <1>2, <3>1
  <2>2. \A seq \in 1..n : old[seq] \in RowShape
    BY Numbers DEF Stored
  <2>3. /\ p # None /\ p.submitted /\ ~p.aborting
        /\ old[n].state = "pending"
    BY <2>1 DEF Ours, SubmittedOK, Pending, Row
  <2>4. /\ s[n].state = "pending" /\ s[n].value = old[n].value /\ s[n].attempt = old[n].attempt + 1
        /\ s[n].candidate = c /\ s[n].batch = batch /\ c.attempt = s[n].attempt
        /\ old[n].attempt \in Nat
    BY <2>1, <2>2, <2>3 DEF RowShape, Prepares
  <2>5. /\ c.leaf = l /\ c.seq = n /\ c.parent = version /\ c.root = Composed(Requests(leaves))
    BY <2>1 DEF Prepares
  <2>6. RecordOK(rec[l], old) /\ RowsOK(l, old, log) /\ AssignmentOK(l, p, old, version)
    BY DEF Stored, RecordsOK, TablesOK, AssignmentsOK
  <2>7. /\ c.root[l] = old[n].value
        /\ \A k \in Leaf \ leaves : c.root[k] = tip[k]
    BY <2>1, <2>5, ComposedTree DEF Stored
  <2>8. \A k \in Leaf \ {l} : (\A q \in batch : q[1] # k) => k \notin leaves
    <3>1. CASE batch = Requests(leaves)
      <4>1. \A k \in leaves : <<k, rec[k].pending.seq>> \in batch
        BY <3>1 DEF Requests
      <4> QED
        BY <4>1
    <3>2. CASE \E k \in Leaf : leaves = {k}
      BY <1>3, <3>2
    <3> QED
      BY <3>1, <3>2
  <2>9. version \in Nat /\ Len(log) = version + 1 /\ tip = log[Len(log)]
    BY Numbers DEF Stored
  <2>10. PreparationOK(l, n, s[n], log)
    BY <2>4, <2>5, <2>7, <2>8, <2>9 DEF PreparationOK
  <2> HIDE DEF n, old, s, p, c
  <2>11. RecordOK(rec[l], s)
    BY <2>1, <2>3, <2>4, <2>6 DEF RecordOK, p, n, old
  <2>12. AssignmentOK(l, p, s, version)
    <3>1. SUFFICES ASSUME p.candidate # None
                   PROVE  AssignmentOK(l, p, s, version)
      BY DEF AssignmentOK
    <3>2. p.candidate.attempt <= old[n].attempt /\ p.candidate.attempt \in Nat
      <4>1. p.candidate.attempt <= old[n].attempt
        BY <2>1, <2>3, <2>6, <3>1 DEF AssignmentOK
      <4>2. p.candidate \in Candidate
        BY <2>3, <3>1, Numbers DEF Stored, Record, PendingCapture, p
      <4> QED
        BY <4>1, <4>2 DEF Candidate
    <3>3. p.candidate # s[n].candidate /\ p.candidate.attempt <= s[n].attempt
      BY <2>4, <3>2
    <3> QED
      BY <2>1, <2>3, <2>6, <3>3 DEF AssignmentOK
  <2>13. \A seq : /\ (seq \in 1..n /\ s[seq].state = "committed") <=> (seq \in 1..n /\ old[seq].state = "committed")
                  /\ seq \in 1..n /\ s[seq].state = "committed" => s[seq].version = old[seq].version
    BY <2>1, <2>3, <2>4
  <2>14. RowsOK(l, s, log)
    BY <2>1, <2>4, <2>6, <2>10 DEF RowsOK, n, old
  <2>15. ~Unacknowledged(rec[l], old) /\ ~Unacknowledged(rec[l], s)
    BY <2>1, <2>3, <2>4 DEF Unacknowledged, p
  <2>16. AcknowledgmentOK(l, rec[l], old, log)
    BY <2>15 DEF Stored, PublicationsOK, old
  <2>17. AcknowledgmentOK(l, rec[l], s, log)
    BY <2>1, <2>13, <2>16 DEF AcknowledgmentOK, n, old
  <2> QED
    BY <2>1, <2>11, <2>12, <2>13, <2>14, <2>15, <2>17 DEF Rewritten, n, old, s, p, version
<1> QED
  BY <1>2, <1>3, RowsStep

\* One leaf is prepared.
LEMMA PrepareStored ==
    ASSUME Stored, Session, NEW l \in Leaf, prepare(l)
    PROVE  Stored'
<1>1. Ours({l}) /\ {l} \in SUBSET Leaf
  <2>1. <<l, rec[l].pending.seq>> \in Requests({l})
    BY DEF Requests
  <2>2. Pending(l, rec[l].pending.seq) /\ Submitted(l)
    BY <2>1 DEF prepare, Preparable
  <2> QED
    BY <2>2 DEF Submitted, SubmittedOK, Ours
<1>2. Prepared(Requests({l}), {})
  BY DEF prepare
<1>3. UNCHANGED <<rec, log, tipNode, ref, receipts, passed, lease, next, staged, checking>>
  BY DEF prepare, Rest, workspace, outside
<1> QED
  BY <1>1, <1>2, <1>3, PreparedStored

\* Several leaves are prepared as a batch.
LEMMA PrepareBatchStored ==
    ASSUME Stored, Session, NEW leaves \in SUBSET Leaf, prepare_batch(leaves)
    PROVE  Stored'
<1>1. Ours(leaves)
  <2>1. \A l \in leaves : <<l, rec[l].pending.seq>> \in Requests(leaves)
    BY DEF Requests
  <2>2. \A l \in leaves : Pending(l, rec[l].pending.seq) /\ Submitted(l)
    BY <2>1 DEF prepare_batch, Preparable
  <2> QED
    BY <2>2 DEF Submitted, SubmittedOK, Ours
<1>2. Prepared(Requests(leaves), Requests(leaves))
  BY DEF prepare_batch
<1>3. UNCHANGED <<rec, log, tipNode, ref, receipts, passed, lease, next, staged, checking>>
  BY DEF prepare_batch, Rest, workspace, outside
<1> QED
  BY <1>1, <1>2, <1>3, PreparedStored

-----------------------------------------------------------------------------
\* The record learns its candidate and the verdict on it.

\* The record learns the candidate that its row has.
LEMMA AssignStored ==
    ASSUME Stored, NEW l \in Leaf, NEW c \in Candidate, NEW batch \in SUBSET Candidate,
           Assigned(l, c, batch), ~Unacknowledged(rec[l], rows[l]),
           AssignOK(c, batch, rec[l].pending, rows[l]), c.leaf = l,
           \A d \in batch : Content(d) = Content(c),
           UNCHANGED <<rows, lease, next, log, staged, tipNode, ref, receipts, passed, checking>>
    PROVE  Stored'
<1> DEFINE p == rec[l].pending
           q == [p EXCEPT !.candidate = c, !.batch = batch, !.parent = tipNode, !.validation = None]
           r == [rec[l] EXCEPT !.pending = q]
<1>1. /\ rec[l] \in Record /\ p # None /\ p \in PendingCapture /\ p.submitted /\ ~p.aborting
      /\ Len(rows[l]) \in Nat /\ tipNode \in Checkpoint
      /\ RecordOK(rec[l], rows[l]) /\ RowsOK(l, rows[l], log)
  BY Numbers DEF AssignOK, SubmittedOK, Stored, Typed, RecordsOK, TablesOK, Record
<1>2. /\ c.seq = p.seq /\ rows[l][c.seq].candidate = c
      /\ rows[l][c.seq].batch = {Request(d) : d \in batch} /\ p.seq \in 1..Len(rows[l])
  BY <1>1 DEF AssignOK, RecordOK
<1>3. /\ q \in PendingCapture /\ q # None
      /\ q.seq = p.seq /\ q.submitted /\ ~q.aborting /\ q.candidate = c
      /\ q.validation = None /\ q.batch = batch /\ q.value = p.value
  BY <1>1, NoneAssumption DEF PendingCapture
<1>4. r \in Record
  BY <1>1, <1>3 DEF Record
<1>5. rec' = [rec EXCEPT ![l] = r]
  BY <1>1 DEF Record, Assigned, Stored, Typed
<1>6. r.pending = q /\ r.sequence = rec[l].sequence /\ r.last = rec[l].last /\ r.origin = rec[l].origin
  BY <1>1 DEF Record
<1>7. AcknowledgmentOK(l, rec[l], rows[l], log)
  BY DEF Stored, PublicationsOK
<1> HIDE DEF p, q, r
<1>8. RecordOK(r, rows[l]) /\ (Unacknowledged(r, rows[l]) <=> Unacknowledged(rec[l], rows[l]))
  BY <1>1, <1>3, <1>6 DEF RecordOK, Unacknowledged, p
<1>9. AssignmentOK(l, r.pending, rows[l], version)
  <2>1. PreparationOK(l, p.seq, rows[l][p.seq], log)
    BY <1>1, <1>2 DEF RowsOK
  <2>2. c # None
    BY NoneAssumption
  <2>3. c.parent < Len(log) /\ c.attempt = rows[l][p.seq].attempt
    BY <1>2, <2>1, <2>2 DEF PreparationOK
  <2>4. c.parent \in Nat /\ c.attempt \in Nat
    BY DEF Candidate
  <2>5. c.parent <= version
    BY <2>3, <2>4, Numbers DEF Stored
  <2> QED
    BY <1>2, <1>3, <1>6, <2>3, <2>4, <2>5 DEF AssignmentOK
<1>10. AcknowledgmentOK(l, r, rows[l], log) /\ VerdictOK(r.pending, version, passed')
  BY <1>3, <1>6, <1>7 DEF AcknowledgmentOK, VerdictOK
<1> QED
  BY <1>4, <1>5, <1>8, <1>9, <1>10, RecordStep DEF Stored, Typed, VerdictsOK

\* A single candidate is saved.
LEMMA SavePreparedStored ==
    ASSUME Stored, Session, SavePrepared
    PROVE  Stored'
<1> DEFINE p == rec[l0].pending
           c == rows[l0][p.seq].candidate
<1>1. l0 \in Leaf /\ SubmittedOK(p) /\ c # None /\ rows[l0][p.seq].batch = {} /\ ~Unacknowledged(rec[l0], rows[l0])
  <2>1. call # None /\ call.step = "prepared"
    BY DEF SavePrepared, At
  <2>2. l0 \in Leaf /\ call.mode = "prepare"
    BY <2>1 DEF Session, SessionOK, Submitting, Cancelling, Finishing, l0
  <2>3. ~Open
    BY <2>1, <2>2 DEF Session, PassOK
  <2> QED
    BY <2>1, <2>2, <2>3 DEF Session, StepsOK, Open
<1>2. CASE UNCHANGED <<rec, rows, log, tipNode, ref, receipts, passed, lease, next, checking, staged>>
  BY <1>2, QuietStep DEF Stored, Typed, VerdictsOK
<1>3. CASE Assigned(l0, c, {}) /\ UNCHANGED <<rows, log, tipNode, ref, receipts, passed, lease, next, checking, staged>>
  <2>1. p.seq \in 1..Len(rows[l0])
    BY <1>1, Numbers DEF Stored, RecordsOK, RecordOK, SubmittedOK
  <2>2. c \in Candidate /\ c.leaf = l0 /\ c.seq = p.seq
    <3>1. rows[l0][p.seq] \in RowShape
      BY <1>1, <2>1, Numbers DEF Stored
    <3>2. PreparationOK(l0, p.seq, rows[l0][p.seq], log)
      BY <1>1, <2>1 DEF Stored, TablesOK, RowsOK
    <3> QED
      BY <1>1, <3>1, <3>2 DEF PreparationOK, RowShape
  <2>3. AssignOK(c, {}, p, rows[l0])
    BY <1>1, <2>2 DEF AssignOK
  <2> HIDE DEF p, c
  <2> QED
    BY <1>1, <1>3, <2>2, <2>3, AssignStored DEF p
<1>4. SavePrepared =>
        \/ UNCHANGED <<rec, rows, log, tipNode, ref, receipts, passed, lease, next, checking, staged>>
        \/ Assigned(l0, c, {}) /\ UNCHANGED <<rows, log, tipNode, ref, receipts, passed, lease, next, checking, staged>>
  BY DEF SavePrepared, Refuse, authority, Rest, workspace, outside, pending, Row
<1> QED
  BY <1>2, <1>3, <1>4

\* The member of a batch that a leaf has.
LEMMA MemberOf ==
    ASSUME NEW batch, NEW leaves, Together(batch), Covers(batch, leaves), NEW l \in leaves
    PROVE  Member(batch, l) \in batch /\ Member(batch, l).leaf = l
BY DEF Covers, Member

\* A member of a batch is saved.
LEMMA SaveMemberStored ==
    ASSUME Stored, Session, NEW l \in Leaf, SaveMember(l)
    PROVE  Stored'
<1> DEFINE batch == call.value
           c == Member(batch, l)
<1>1. /\ Together(batch) /\ Covers(batch, call.rest) /\ l \in call.rest /\ ~Unacknowledged(rec[l], rows[l])
      /\ \A d \in batch : AssignOK(d, batch, rec[d.leaf].pending, rows[d.leaf])
  BY DEF Session, PassOK, StepsOK, SaveMember, Visiting, At, Open
<1> HIDE DEF batch
<1>2. c \in batch /\ c.leaf = l
  BY <1>1, MemberOf
<1>3. Assigned(l, c, batch)
  BY DEF SaveMember, batch
<1>4. UNCHANGED <<rows, log, tipNode, ref, receipts, passed, lease, next, checking, staged>>
  BY DEF SaveMember, authority, Rest, workspace, outside
<1> HIDE DEF c
<1>5. /\ c \in Candidate /\ batch \in SUBSET Candidate /\ \A d \in batch : Content(d) = Content(c)
      /\ AssignOK(c, batch, rec[l].pending, rows[l])
  BY <1>1, <1>2 DEF Together
<1> QED
  BY <1>1, <1>2, <1>3, <1>4, <1>5, AssignStored

\* A verdict that is good is stored.
LEMMA VerdictStored ==
    ASSUME Stored, NEW l \in Leaf, NEW x \in Validation,
           rec[l].pending # None, Good(x.candidate, version, passed'), passed \subseteq passed',
           rec' = [rec EXCEPT ![l].pending.validation = x],
           UNCHANGED <<rows, lease, next, log, staged, tipNode, ref, receipts>>, checking' \subseteq checking
    PROVE  Stored'
<1> DEFINE p == rec[l].pending
           q == [p EXCEPT !.validation = x]
           r == [rec[l] EXCEPT !.pending = q]
<1>1. rec[l] \in Record /\ p # None /\ p \in PendingCapture
  BY Numbers DEF Stored, Record
<1>2. RecordOK(rec[l], rows[l]) /\ AssignmentOK(l, p, rows[l], version)
  BY DEF Stored, RecordsOK, AssignmentsOK
<1>3. /\ q \in PendingCapture /\ q # None
      /\ q.seq = p.seq /\ (q.submitted <=> p.submitted) /\ (q.aborting <=> p.aborting)
      /\ q.candidate = p.candidate /\ q.validation = x /\ q.batch = p.batch /\ q.value = p.value
  BY <1>1, NoneAssumption DEF PendingCapture
<1>4. r \in Record /\ rec' = [rec EXCEPT ![l] = r]
  BY <1>1, <1>3 DEF Record, Stored, Typed
<1>5. r.pending = q /\ r.sequence = rec[l].sequence /\ r.last = rec[l].last /\ r.origin = rec[l].origin
  BY <1>1 DEF Record
<1>6. IF Unacknowledged(rec[l], rows[l])
      THEN PublicationOK(p, rows[l], log, PublishedAs(rows, version))
      ELSE AcknowledgmentOK(l, rec[l], rows[l], log)
  BY DEF Stored, PublicationsOK
<1> HIDE DEF p, q, r
<1>7. RecordOK(r, rows[l]) /\ (Unacknowledged(r, rows[l]) <=> Unacknowledged(rec[l], rows[l]))
  BY <1>1, <1>2, <1>3, <1>5 DEF RecordOK, Unacknowledged, p
<1>8. AssignmentOK(l, r.pending, rows[l], version) /\ VerdictOK(r.pending, version, passed')
  BY <1>1, <1>2, <1>3, <1>5 DEF AssignmentOK, VerdictOK
<1>9. IF Unacknowledged(rec[l], rows[l])
      THEN PublicationOK(r.pending, rows[l], log, PublishedAs(rows, version))
      ELSE AcknowledgmentOK(l, r, rows[l], log)
  BY <1>3, <1>5, <1>6 DEF PublicationOK, MembersOf, AcknowledgmentOK
<1>10. checking' \subseteq Candidate /\ \A c \in checking' : c.parent <= version
  BY DEF Stored, Typed, VerdictsOK
<1> QED
  BY <1>4, <1>7, <1>8, <1>9, <1>10, RecordStep DEF Stored, Typed

\* seal_check: the verdict is stored for the very candidate, or not at all.
LEMMA SealStored ==
    ASSUME Stored, Session, NEW c \in checking, seal_check(c)
    PROVE  Stored'
<1> DEFINE p == rec[c.leaf].pending
           x == [candidate |-> c, check |-> c]
<1>1. c \in Candidate /\ c.leaf \in Leaf /\ c.parent <= version
  BY DEF Stored, Typed, VerdictsOK, Candidate
<1>2. x \in Validation /\ x.candidate = c
  BY <1>1 DEF Validation
<1>3. /\ passed' = passed \cup {Content(c)} /\ checking' \subseteq checking
      /\ UNCHANGED <<rows, lease, next, log, staged, tipNode, ref, receipts>>
  BY DEF seal_check, authority, workspace
<1>4. Good(x.candidate, version, passed')
  BY <1>1, <1>2, <1>3 DEF Good
<1> HIDE DEF x
<1>5. CASE p # None /\ ~p.aborting /\ p.candidate = c
  <2>1. rec' = [rec EXCEPT ![c.leaf].pending.validation = x]
    BY <1>5 DEF seal_check, x
  <2> QED
    BY <1>1, <1>2, <1>3, <1>4, <1>5, <2>1, VerdictStored
<1>6. CASE rec' = rec
  <2> DEFINE l == c.leaf
  <2>1. rec' = [rec EXCEPT ![l] = rec[l]]
    BY <1>1, <1>6 DEF Stored, Typed
  <2>2. checking' \subseteq Candidate /\ \A d \in checking' : d.parent <= version
    BY <1>3 DEF Stored, Typed, VerdictsOK
  <2>3. VerdictOK(rec[l].pending, version, passed')
    BY <1>1, <1>3 DEF Stored, VerdictsOK, VerdictOK, Good
  <2>4. lease' \in [Leaf -> Nat] /\ next' \in Nat /\ staged' \in Tree
    BY <1>3 DEF Stored, Typed
  <2>5. /\ rec[l] \in Record /\ RecordOK(rec[l], rows[l]) /\ AssignmentOK(l, rec[l].pending, rows[l], version)
        /\ IF Unacknowledged(rec[l], rows[l])
           THEN PublicationOK(rec[l].pending, rows[l], log, PublishedAs(rows, version))
           ELSE AcknowledgmentOK(l, rec[l], rows[l], log)
    BY <1>1 DEF Stored, Typed, RecordsOK, AssignmentsOK, PublicationsOK
  <2> QED
    BY <1>1, <1>3, <2>1, <2>2, <2>3, <2>4, <2>5, RecordStep
<1> QED
  BY <1>5, <1>6 DEF seal_check

\* The batch's verdict is stored for a member.
LEMMA SaveValidationStored ==
    ASSUME Stored, Session, NEW l \in Leaf, SaveValidation(l)
    PROVE  Stored'
<1> DEFINE batch == call.value.batch
           c == Member(batch, l)
           x == [candidate |-> c, check |-> call.value.check]
<1>1. /\ Together(batch) /\ Covers(batch, call.rest) /\ l \in call.rest
      /\ call.value.check \in batch
      /\ \A d \in batch : rec[d.leaf].pending # None /\ Good(d, version, passed)
  BY DEF Session, StepsOK, SaveValidation, Visiting, At
<1> HIDE DEF batch
<1>2. c \in batch /\ c.leaf = l
  BY <1>1, MemberOf
<1>3. rec' = [rec EXCEPT ![l].pending.validation = x]
  BY DEF SaveValidation, batch
<1>4. UNCHANGED <<rows, log, tipNode, ref, receipts, passed, lease, next, checking, staged>>
  BY DEF SaveValidation, authority, Rest, workspace, outside
<1> HIDE DEF c
<1>5. x \in Validation /\ x.candidate = c
  BY <1>1, <1>2 DEF Validation, Together
<1> HIDE DEF x
<1> QED
  BY <1>1, <1>2, <1>3, <1>4, <1>5, VerdictStored

\* What a check may begin on.
LEMMA BeginCheckStored ==
    ASSUME Stored, Session, NEW l \in Leaf, BeginCheck(l)
    PROVE  Stored'
<1> DEFINE c == rec[l].pending.candidate
<1>1. c \in Candidate /\ c.parent <= version
  BY Numbers DEF BeginCheck, Stored, AssignmentsOK, AssignmentOK, Record, PendingCapture
<1>2. checking' = checking \cup {c}
  BY DEF BeginCheck
<1>3. UNCHANGED <<rec, rows, log, tipNode, ref, receipts, passed, lease, next, staged>>
  BY DEF BeginCheck, authority, workspace
<1> HIDE DEF c
<1>4. checking' \subseteq Candidate /\ \A d \in checking' : d.parent <= version
  BY <1>1, <1>2 DEF Stored, Typed, VerdictsOK
<1> QED
  BY <1>3, <1>4, QuietStep DEF Stored, Typed

-----------------------------------------------------------------------------
\* Publication.

\* The newest rows of the members are committed as the next version.
LEMMA CommittedRows ==
    ASSUME Typed, NEW batch \in SUBSET Candidate,
           \A c \in batch : c.leaf \in Leaf /\ c.seq = Len(rows[c.leaf]) /\ c.seq > 0,
           Publish(batch)
    PROVE  /\ rows' \in [Leaf -> Seq(RowShape)]
           /\ \A l \in Leaf : /\ Len(rows'[l]) = Len(rows[l])
                              /\ (\A c \in batch : c.leaf # l) => rows'[l] = rows[l]
           /\ \A c \in batch :
                /\ \A seq \in 1..c.seq : seq # c.seq => rows'[c.leaf][seq] = rows[c.leaf][seq]
                /\ rows'[c.leaf][c.seq] =
                     [rows[c.leaf][c.seq] EXCEPT !.state = "committed", !.version = version + 1]
<1> DEFINE R == {Request(c) : c \in batch}
           new(l, seq) == IF <<l, seq>> \in R
                          THEN [Row(l, seq) EXCEPT !.state = "committed", !.version = version + 1]
                          ELSE Row(l, seq)
<1>1. /\ \A l \in Leaf : rows'[l] = [seq \in DOMAIN rows[l] |-> new(l, seq)]
      /\ rows' = [l \in Leaf |-> rows'[l]]
  BY DEF Publish
<1>2. \A l \in Leaf : /\ Len(rows[l]) \in Nat /\ DOMAIN rows[l] = 1..Len(rows[l])
                      /\ \A seq \in 1..Len(rows[l]) : rows[l][seq] \in RowShape
  BY Numbers
<1>3. ASSUME NEW l \in Leaf, NEW seq, <<l, seq>> \in R
      PROVE  seq = Len(rows[l]) /\ \E c \in batch : c.leaf = l
  BY <1>3 DEF Request
<1>4. \A c \in batch : <<c.leaf, c.seq>> \in R
  BY DEF Request
<1>5. \A l \in Leaf : \A seq : <<l, seq>> \notin R => new(l, seq) = rows[l][seq]
  BY DEF Row
<1>6. \A l \in Leaf : \A seq : <<l, seq>> \in R =>
        new(l, seq) = [rows[l][seq] EXCEPT !.state = "committed", !.version = version + 1]
  BY DEF Row
<1> HIDE DEF new, R
<1>7. ASSUME NEW l \in Leaf, NEW seq \in 1..Len(rows[l])
      PROVE  new(l, seq) \in RowShape
  <2>1. rows[l][seq] \in RowShape /\ version + 1 \in Nat
    BY <1>2, Numbers
  <2> QED
    <3>1. CASE <<l, seq>> \notin R
      BY <1>5, <2>1, <3>1
    <3>2. CASE <<l, seq>> \in R
      <4>1. new(l, seq) = [rows[l][seq] EXCEPT !.state = "committed", !.version = version + 1]
        BY <1>6, <3>2
      <4> QED
        BY <2>1, <4>1 DEF RowShape
    <3> QED
      BY <3>1, <3>2
<1> HIDE DEF RowShape
<1>8. ASSUME NEW l \in Leaf
      PROVE  rows'[l] \in Seq(RowShape) /\ Len(rows'[l]) = Len(rows[l])
  <2>1. rows'[l] = [seq \in 1..Len(rows[l]) |-> new(l, seq)]
    BY <1>1, <1>2
  <2>2. rows'[l] \in [1..Len(rows[l]) -> RowShape]
    BY <1>7, <2>1
  <2> QED
    BY <1>2, <2>2, MappedSeq
<1>9. rows' \in [Leaf -> Seq(RowShape)]
  BY <1>1, <1>8
<1>10. ASSUME NEW l \in Leaf, \A c \in batch : c.leaf # l
       PROVE  rows'[l] = rows[l]
  <2>1. rows[l] = [seq \in DOMAIN rows[l] |-> rows[l][seq]]
    BY <1>2, Numbers
  <2>2. \A seq : new(l, seq) = rows[l][seq]
    BY <1>3, <1>5, <1>10
  <2> QED
    BY <1>1, <2>1, <2>2
<1>11. \A l \in Leaf : \A seq \in 1..Len(rows[l]) : rows'[l][seq] = new(l, seq)
  BY <1>1, <1>2
<1>12. ASSUME NEW c \in batch
       PROVE  /\ \A seq \in 1..c.seq : seq # c.seq => rows'[c.leaf][seq] = rows[c.leaf][seq]
              /\ rows'[c.leaf][c.seq] =
                   [rows[c.leaf][c.seq] EXCEPT !.state = "committed", !.version = version + 1]
  <2>1. c.leaf \in Leaf /\ c.seq = Len(rows[c.leaf]) /\ c.seq \in 1..Len(rows[c.leaf])
    BY <1>2
  <2>2. \A seq \in 1..c.seq : seq # c.seq => <<c.leaf, seq>> \notin R
    BY <1>3, <2>1
  <2>3. \A seq \in 1..c.seq : seq # c.seq => rows'[c.leaf][seq] = rows[c.leaf][seq]
    BY <1>5, <1>11, <2>1, <2>2
  <2>4. rows'[c.leaf][c.seq] = new(c.leaf, c.seq) /\ <<c.leaf, c.seq>> \in R
    BY <1>4, <1>11, <2>1
  <2> QED
    BY <1>6, <2>1, <2>3, <2>4
<1> QED
  BY <1>8, <1>9, <1>10, <1>12

\* What the authority and the workspace have verified of candidates they publish.
Publishable(batch) ==
    /\ batch # {} /\ Together(batch)
    /\ \A c \in batch :
          LET p == rec[c.leaf].pending
              row == rows[c.leaf][c.seq]
          IN  /\ SubmittedOK(p) /\ p.candidate = c /\ MembersOf(p) = batch
              /\ c.seq = Len(rows[c.leaf]) /\ c.seq > 0
              /\ row.state = "pending" /\ row.candidate = c /\ c.parent = version
              /\ row.batch \subseteq {Request(d) : d \in batch}

\* A publication opens: its members, and only they, are to be acknowledged.
LEMMA PublishStored ==
    ASSUME Stored, ~Open, NEW batch \in SUBSET Candidate, Publishable(batch), Publish(batch),
           UNCHANGED <<rec, tipNode, ref, receipts, lease, next, staged, checking>>
    PROVE  /\ Stored'
           /\ \A l \in Leaf : Unacknowledged(rec[l], rows'[l]) <=> \E c \in batch : c.leaf = l
<1> DEFINE root == (CHOOSE c \in batch : TRUE).root
           v == version
           g == log
<1>1. /\ v \in Nat /\ Len(g) = v + 1 /\ tip = g[Len(g)] /\ g \in Seq(Tree)
      /\ \A l \in Leaf : /\ rec[l] \in Record /\ Len(rows[l]) \in Nat
                         /\ \A seq \in 1..Len(rows[l]) : rows[l][seq] \in RowShape
  BY Numbers DEF Stored, Typed
<1>2. \A c \in batch : /\ c.leaf \in Leaf /\ c.seq = Len(rows[c.leaf]) /\ c.seq \in 1..Len(rows[c.leaf])
                       /\ c.root = root /\ c.parent = v /\ c.root \in Tree
  <2>1. \A c \in batch : c.leaf \in Leaf /\ c.root \in Tree
    BY DEF Candidate
  <2>2. \A c \in batch : Content(c) = Content(CHOOSE d \in batch : TRUE)
    BY DEF Publishable, Together
  <2>3. \A c \in batch : c.root = root
    BY <2>2 DEF Content
  <2> QED
    BY <1>1, <2>1, <2>3 DEF Publishable
<1>3. root \in Tree
  BY <1>2 DEF Publishable
<1>4. log' = Append(g, root) /\ passed' = {}
  BY DEF Publish
<1> HIDE DEF root, v, g
<1>5. /\ log' \in Seq(Tree) /\ Len(log') = v + 2 /\ log'[v + 2] = root
      /\ \A i \in 1..(v + 1) : log'[i] = g[i]
  BY <1>1, <1>3, <1>4
<1>6. version' = v + 1 /\ tip' = root /\ Len(log') - 1 = v + 1 /\ log' # <<>>
  <2>1. version' = v + 1
    BY <1>1, <1>5 DEF version
  <2>2. Len(log') # 0
    BY <1>1, <1>5
  <2> QED
    BY <1>1, <1>5, <2>1, <2>2 DEF tip
<1>7. /\ rows' \in [Leaf -> Seq(RowShape)]
      /\ \A l \in Leaf : /\ Len(rows'[l]) = Len(rows[l])
                         /\ (\A c \in batch : c.leaf # l) => rows'[l] = rows[l]
      /\ \A c \in batch :
           /\ \A seq \in 1..c.seq : seq # c.seq => rows'[c.leaf][seq] = rows[c.leaf][seq]
           /\ rows'[c.leaf][c.seq] =
                [rows[c.leaf][c.seq] EXCEPT !.state = "committed", !.version = v + 1]
  <2>1. Typed /\ \A c \in batch : c.leaf \in Leaf /\ c.seq = Len(rows[c.leaf]) /\ c.seq > 0
    BY <1>1, <1>2 DEF Stored
  <2> QED
    BY <2>1, CommittedRows DEF v
\* What becomes of a member.
<1>8. ASSUME NEW c \in batch
      PROVE  LET l == c.leaf
                 n == c.seq
                 s == rows'[l]
                 p == rec[l].pending
             IN  /\ Len(s) = n /\ n \in 1..n /\ n \in Nat
                 /\ s[n].state = "committed" /\ s[n].version = v + 1
                 /\ s[n].value = rows[l][n].value /\ s[n].attempt = rows[l][n].attempt
                 /\ s[n].candidate = c /\ s[n].batch = rows[l][n].batch
                 /\ rows[l][n].state = "pending" /\ rows[l][n].candidate = c
                 /\ \A seq \in 1..n : seq # n => s[seq] = rows[l][seq]
                 /\ SubmittedOK(p) /\ p.candidate = c /\ p.seq = n /\ p \in PendingCapture
                 /\ MembersOf(p) = batch
  <2> DEFINE l == c.leaf
             n == c.seq
             p == rec[l].pending
  <2>1. l \in Leaf /\ n = Len(rows[l]) /\ n \in 1..Len(rows[l]) /\ rows[l][n] \in RowShape
    BY <1>1, <1>2
  <2>2. /\ SubmittedOK(p) /\ p.candidate = c /\ MembersOf(p) = batch
        /\ rows[l][n].state = "pending" /\ rows[l][n].candidate = c
    BY DEF Publishable
  <2>3. p.seq = n /\ p \in PendingCapture
    BY <1>1, <2>1, <2>2 DEF Stored, RecordsOK, RecordOK, SubmittedOK, Record
  <2>4. rows'[l][n] = [rows[l][n] EXCEPT !.state = "committed", !.version = v + 1]
    BY <1>7
  <2>5. /\ rows'[l][n].state = "committed" /\ rows'[l][n].version = v + 1
        /\ rows'[l][n].value = rows[l][n].value /\ rows'[l][n].attempt = rows[l][n].attempt
        /\ rows'[l][n].candidate = c /\ rows'[l][n].batch = rows[l][n].batch
    BY <2>1, <2>2, <2>4 DEF RowShape
  <2> QED
    BY <1>1, <1>7, <2>1, <2>2, <2>3, <2>5
<1>9. ASSUME NEW l \in Leaf
      PROVE  (\A c \in batch : c.leaf # l) \/ \E c \in batch : c.leaf = l
  OBVIOUS
<1>10. Typed'
  BY <1>5, <1>6, <1>7 DEF Stored, Typed
<1>11. RecordsOK'
  <2>1. ASSUME NEW c \in batch
        PROVE  RecordOK(rec[c.leaf], rows'[c.leaf])
    <3>1. RecordOK(rec[c.leaf], rows[c.leaf]) /\ Len(rows[c.leaf]) = c.seq
      BY <1>2 DEF Stored, RecordsOK
    <3> QED
      BY <1>8, <3>1 DEF RecordOK, SubmittedOK
  <2> QED
    BY <1>7, <1>9, <2>1 DEF Stored, RecordsOK
<1>12. AssignmentsOK'
  <2>1. ASSUME NEW l \in Leaf
        PROVE  AssignmentOK(l, rec[l].pending, rows[l], v + 1)
    <3>1. AssignmentOK(l, rec[l].pending, rows[l], v)
      BY DEF Stored, AssignmentsOK, v
    <3>2. rec[l].pending # None /\ rec[l].pending.candidate # None => rec[l].pending.candidate.parent \in Nat
      BY <1>1 DEF Record, PendingCapture, Candidate
    <3> QED
      BY <1>1, <3>1, <3>2 DEF AssignmentOK
  <2>2. ASSUME NEW c \in batch
        PROVE  AssignmentOK(c.leaf, rec[c.leaf].pending, rows'[c.leaf], v + 1)
    <3>1. AssignmentOK(c.leaf, rec[c.leaf].pending, rows[c.leaf], v + 1) /\ c # None
      BY <1>2, <2>1, NoneAssumption
    <3>2. /\ rec[c.leaf].pending # None /\ rec[c.leaf].pending.candidate = c
          /\ rec[c.leaf].pending.seq = c.seq
          /\ rows'[c.leaf][c.seq].attempt = rows[c.leaf][c.seq].attempt
          /\ rows'[c.leaf][c.seq].batch = rows[c.leaf][c.seq].batch
          /\ rows[c.leaf][c.seq].candidate = c
      BY <1>8 DEF SubmittedOK
    <3> QED
      BY <3>1, <3>2 DEF AssignmentOK
  <2> QED
    BY <1>6, <1>7, <1>9, <2>1, <2>2 DEF AssignmentsOK
<1>13. TablesOK'
  <2>1. ASSUME NEW l \in Leaf, NEW seq \in 1..Len(rows[l])
        PROVE  /\ PreparationOK(l, seq, rows[l][seq], log')
               /\ rows[l][seq].state = "committed" => rows[l][seq].version \in 1..v
    <3>1. /\ PreparationOK(l, seq, rows[l][seq], g)
          /\ rows[l][seq].state = "committed" => rows[l][seq].version \in 1..v
      BY <1>1 DEF Stored, TablesOK, RowsOK, g
    <3>2. rows[l][seq].candidate # None => rows[l][seq].candidate.parent \in Nat
      BY <1>1 DEF RowShape, Candidate
    <3> DEFINE c == rows[l][seq].candidate
    <3>3. c # None => c.parent + 1 \in 1..(v + 1) /\ c.parent < Len(log')
      BY <1>1, <1>5, <3>1, <3>2 DEF PreparationOK
    <3>4. c # None => log'[c.parent + 1] = g[c.parent + 1]
      BY <1>5, <3>3
    <3> QED
      BY <3>1, <3>3, <3>4 DEF PreparationOK
  <2>2. ASSUME NEW l \in Leaf
        PROVE  RowsOK(l, rows[l], log')
    BY <1>1, <1>6, <2>1 DEF RowsOK
  <2>3. ASSUME NEW c \in batch
        PROVE  RowsOK(c.leaf, rows'[c.leaf], log')
    <3>1. PreparationOK(c.leaf, c.seq, rows'[c.leaf][c.seq], log')
      <4>1. PreparationOK(c.leaf, c.seq, rows[c.leaf][c.seq], log')
        BY <1>2, <2>1
      <4>2. /\ rows'[c.leaf][c.seq].candidate = rows[c.leaf][c.seq].candidate
            /\ rows'[c.leaf][c.seq].attempt = rows[c.leaf][c.seq].attempt
            /\ rows'[c.leaf][c.seq].value = rows[c.leaf][c.seq].value
            /\ rows'[c.leaf][c.seq].batch = rows[c.leaf][c.seq].batch
        BY <1>8
      <4> QED
        BY <4>1, <4>2 DEF PreparationOK
    <3>2. RowsOK(c.leaf, rows[c.leaf], log') /\ Len(rows[c.leaf]) = c.seq
      BY <1>2, <2>2
    <3>3. v + 1 \in 1..(Len(log') - 1)
      BY <1>1, <1>6
    <3> QED
      BY <1>8, <3>1, <3>2, <3>3 DEF RowsOK
  <2> QED
    BY <1>7, <1>9, <2>2, <2>3 DEF TablesOK
<1>14. VerdictsOK'
  <2>1. \A c \in checking : c.parent <= v + 1
    BY <1>1 DEF Stored, Typed, VerdictsOK, Candidate, v
  <2>2. ASSUME NEW l \in Leaf
        PROVE  VerdictOK(rec[l].pending, v + 1, {})
    <3>1. VerdictOK(rec[l].pending, v, passed)
      BY DEF Stored, VerdictsOK, v
    <3>2. rec[l].pending # None /\ rec[l].pending.validation # None =>
            rec[l].pending.validation.candidate.parent \in Nat
      BY <1>1 DEF Record, PendingCapture, Validation, Candidate
    <3> QED
      BY <1>1, <3>1, <3>2 DEF VerdictOK, Good
  <2> QED
    BY <1>4, <1>6, <2>1, <2>2 DEF VerdictsOK
\* What is published as which version.
<1>15. ASSUME NEW i \in 1..v
       PROVE  PublishedAs(rows', i) = PublishedAs(rows, i)
  <2>1. ASSUME NEW c \in batch, NEW seq
        PROVE  (seq \in 1..Len(rows[c.leaf]) /\ rows[c.leaf][seq].state = "committed" /\ rows[c.leaf][seq].version = i)
                 <=> (seq \in 1..Len(rows'[c.leaf]) /\ rows'[c.leaf][seq].state = "committed" /\ rows'[c.leaf][seq].version = i)
    <3>1. i # v + 1
      BY <1>1
    <3>2. Len(rows[c.leaf]) = c.seq /\ Len(rows'[c.leaf]) = c.seq
      BY <1>2, <1>8
    <3>3. CASE seq = c.seq
      BY <1>8, <3>1, <3>3
    <3>4. CASE seq # c.seq
      BY <1>8, <3>2, <3>4
    <3> QED
      BY <3>3, <3>4
  <2>2. SameCommits(rows, rows', i)
    <3>1. SUFFICES ASSUME NEW l \in Leaf, NEW seq
                   PROVE  (seq \in 1..Len(rows[l]) /\ rows[l][seq].state = "committed" /\ rows[l][seq].version = i)
                            <=> (seq \in 1..Len(rows'[l]) /\ rows'[l][seq].state = "committed" /\ rows'[l][seq].version = i)
      BY DEF SameCommits
    <3>2. CASE \A c \in batch : c.leaf # l
      BY <1>7, <3>2
    <3>3. CASE \E c \in batch : c.leaf = l
      BY <2>1, <3>3
    <3> QED
      BY <3>2, <3>3
  <2> QED
    BY <2>2, SamePublished
<1>16. PublishedAs(rows', v + 1) = {Request(c) : c \in batch}
  <2>1. ASSUME NEW c \in batch
        PROVE  Request(c) \in PublishedAs(rows', v + 1)
    BY <1>2, <1>8, InPublished DEF Request
  <2>2. ASSUME NEW q \in PublishedAs(rows', v + 1)
        PROVE  \E c \in batch : q = Request(c)
    <3>1. PICK l \in Leaf : \E seq \in 1..Len(rows'[l]) : q = <<l, seq>>
      BY <2>2, PublishedShape
    <3>2. PICK seq \in 1..Len(rows'[l]) : q = <<l, seq>>
      BY <3>1
    <3>3. rows'[l][seq].state = "committed" /\ rows'[l][seq].version = v + 1
      <4>1. <<l, seq>> \in PublishedAs(rows', v + 1)
        BY <2>2, <3>2
      <4>2. \A table, i : <<l, seq>> \in PublishedAs(table, i) =>
                           table[l][seq].state = "committed" /\ table[l][seq].version = i
        BY <3>1 DEF PublishedAs
      <4> QED
        BY <4>1, <4>2
    <3>4. ASSUME NEW n \in 1..Len(rows[l]), rows[l][n].state = "committed"
          PROVE  rows[l][n].version # v + 1
      BY <1>1, <3>4 DEF Stored, TablesOK, RowsOK, g
    <3>5. PICK c \in batch : c.leaf = l
      BY <1>7, <1>9, <3>3, <3>4
    <3>6. Len(rows'[l]) = c.seq /\ Len(rows[l]) = c.seq
      BY <1>2, <1>8, <3>5
    <3>7. seq = c.seq
      BY <1>8, <3>3, <3>4, <3>5, <3>6
    <3> QED
      BY <3>2, <3>5, <3>7 DEF Request
  <2> QED
    BY <2>1, <2>2
<1>17. \A l \in Leaf : Unacknowledged(rec[l], rows'[l]) <=> \E c \in batch : c.leaf = l
  <2>1. ASSUME NEW c \in batch
        PROVE  Unacknowledged(rec[c.leaf], rows'[c.leaf])
    BY <1>8 DEF Unacknowledged, SubmittedOK
  <2>2. \A l \in Leaf : ~Unacknowledged(rec[l], rows[l])
    BY DEF Open
  <2> QED
    BY <1>7, <1>9, <2>1, <2>2
<1>18. PublicationsOK'
  <2>1. ASSUME NEW c \in batch
        PROVE  PublicationOK(rec[c.leaf].pending, rows'[c.leaf], log', PublishedAs(rows', v + 1))
    <3>1. c # None /\ c.root = log'[Len(log')] /\ c.parent + 2 = Len(log')
      BY <1>1, <1>2, <1>5, NoneAssumption
    <3>2. /\ rec[c.leaf].pending.seq = c.seq /\ rec[c.leaf].pending.candidate = c
          /\ MembersOf(rec[c.leaf].pending) = batch
          /\ rows'[c.leaf][c.seq].version = v + 1 /\ rows'[c.leaf][c.seq].candidate = c
      BY <1>8
    <3> QED
      BY <1>6, <1>16, <3>1, <3>2 DEF PublicationOK
  <2>2. ASSUME NEW l \in Leaf, \A c \in batch : c.leaf # l
        PROVE  AcknowledgmentOK(l, rec[l], rows[l], log')
    <3>1. AcknowledgmentOK(l, rec[l], rows[l], g)
      BY DEF Stored, PublicationsOK, Open, g
    <3>2. PICK c \in batch : TRUE
      BY DEF Publishable
    <3>3. PreparationOK(c.leaf, c.seq, rows[c.leaf][c.seq], g) /\ c # None
      BY <1>1, <1>2, NoneAssumption DEF Stored, TablesOK, RowsOK, g
    <3>4. \A q \in rows[c.leaf][c.seq].batch : q[1] # l
      BY <2>2 DEF Publishable, Request
    <3>5. c.root[l] = g[c.parent + 1][l]
      BY <1>8, <2>2, <3>3, <3>4 DEF PreparationOK
    <3>6. log'[Len(log')][l] = g[Len(g)][l]
      BY <1>1, <1>2, <1>5, <3>5
    <3> QED
      BY <3>1, <3>6 DEF AcknowledgmentOK
  <2> QED
    BY <1>6, <1>7, <1>9, <1>17, <2>1, <2>2 DEF PublicationsOK
<1>19. Open'
  BY <1>2, <1>17 DEF Publishable, Open
<1>20. ReceiptsOK'
  <2>1. ASSUME NEW i \in 1..v
        PROVE  i \in DOMAIN receipts /\ Identities(receipts[i]) = PublishedAs(rows', i)
    BY <1>15 DEF Stored, ReceiptsOK, Recorded, v
  <2>2. \A i \in 1..(v + 1) : i \in 1..v \/ i = v + 1
    BY <1>1
  <2>3. DOMAIN receipts \subseteq 1..(v + 1)
    BY <1>1 DEF Stored, ReceiptsOK, v
  <2> QED
    BY <1>6, <1>19, <2>1, <2>2, <2>3 DEF ReceiptsOK, Recorded
<1> QED
  BY <1>10, <1>11, <1>12, <1>13, <1>14, <1>17, <1>18, <1>19, <1>20 DEF Stored, NodesOK
\* Only candidates and batches of them are ever named by a caller.
LEMMA HeldCandidates ==
    ASSUME Typed
    PROVE  Held \subseteq Candidate /\ \A batch \in HeldBatches : batch \in SUBSET Candidate /\ batch # {}
<1>1. \A l \in Capturing : rec[l].pending \in PendingCapture /\ l \in Leaf
  BY Numbers DEF Capturing, Record
<1>2. ASSUME NEW c \in Held
      PROVE  c \in Candidate
  <2>1. CASE \E l \in Capturing : c = rec[l].pending.candidate
    BY <1>1, <2>1 DEF PendingCapture, Held
  <2>2. CASE \E l \in Leaf : \E seq \in DOMAIN rows[l] : c = rows[l][seq].candidate
    <3>1. PICK l \in Leaf : \E seq \in DOMAIN rows[l] : c = rows[l][seq].candidate
      BY <2>2
    <3>2. DOMAIN rows[l] = 1..Len(rows[l])
      BY Numbers
    <3> QED
      BY <3>1, <3>2, Numbers DEF RowShape, Held
  <2> QED
    BY <2>1, <2>2 DEF Held, Row
<1>3. ASSUME NEW batch \in HeldBatches
      PROVE  batch \in SUBSET Candidate /\ batch # {}
  BY <1>1 DEF HeldBatches, PendingCapture
<1> QED
  BY <1>2, <1>3

\* A session that is ready has nothing left to settle.
LEMMA ReadyFacts ==
    ASSUME Session, Ready
    PROVE  /\ ~Open /\ \A l \in Leaf : ~Unsettled(rec[l])
           /\ call # None /\ call.step = "visit" /\ call.mode = "ready"
BY DEF Session, PassOK, Ready, Visiting, At

\* A record's candidate that is about to be published.
LEMMA Assigned1 ==
    ASSUME Stored, NEW c \in Candidate,
           rec[c.leaf].pending # None, ~rec[c.leaf].pending.aborting, rec[c.leaf].pending.candidate = c
    PROVE  LET p == rec[c.leaf].pending
           IN  /\ c.leaf \in Leaf /\ SubmittedOK(p) /\ p.seq = c.seq /\ p \in PendingCapture
               /\ c.seq = Len(rows[c.leaf]) /\ c.seq > 0
               /\ c.parent <= version
               /\ rows[c.leaf][c.seq].candidate = c =>
                    rows[c.leaf][c.seq].batch = {Request(d) : d \in p.batch}
               /\ \A d \in p.batch : Content(d) = Content(c)
               /\ p.validation # None => Good(p.validation.candidate, version, passed)
<1> DEFINE l == c.leaf
           p == rec[l].pending
<1>1. l \in Leaf /\ c # None
  BY NoneAssumption DEF Candidate
<1>2. rec[l] \in Record /\ Len(rows[l]) \in Nat /\ p \in PendingCapture
  BY <1>1, Numbers DEF Stored, Record
<1>3. /\ RecordOK(rec[l], rows[l]) /\ AssignmentOK(l, p, rows[l], version)
      /\ VerdictOK(p, version, passed)
  BY <1>1 DEF Stored, RecordsOK, AssignmentsOK, VerdictsOK
<1>4. p.submitted /\ c.seq = p.seq
  BY <1>1, <1>3 DEF AssignmentOK
<1>5. p.seq = Len(rows[l]) /\ p.seq > 0
  BY <1>2, <1>3, <1>4 DEF RecordOK
<1> QED
  BY <1>1, <1>2, <1>3, <1>4, <1>5 DEF SubmittedOK, AssignmentOK, VerdictOK

\* commit: what is published has passed on the epoch it replaces.
LEMMA CommitPublishable ==
    ASSUME Stored, Session, NEW c \in Held, commit(c)
    PROVE  /\ ~Open /\ {c} \in SUBSET Candidate /\ Publishable({c}) /\ Publish({c})
           /\ Content(c) \in passed /\ c.parent = version
           /\ UNCHANGED <<rec, tipNode, ref, receipts, lease, next, staged, checking>>
<1> DEFINE p == rec[c.leaf].pending
           row == rows[c.leaf][c.seq]
<1>1. c \in Candidate
  BY HeldCandidates DEF Stored
<1>2. /\ p # None /\ ~p.aborting /\ p.candidate = c /\ p.validation # None /\ p.validation.candidate = c
      /\ Committable({c}, {}) /\ Publish({c}) /\ Ready
  BY DEF commit
<1>3. row.state = "pending" /\ row.candidate = c /\ row.batch = {} /\ c.parent = version
  BY <1>2 DEF Committable, Pending, Row
<1>4. /\ c.leaf \in Leaf /\ SubmittedOK(p) /\ p.seq = c.seq
      /\ c.seq = Len(rows[c.leaf]) /\ c.seq > 0
      /\ row.batch = {Request(d) : d \in p.batch}
      /\ Good(c, version, passed)
  BY <1>1, <1>2, <1>3, Assigned1
<1>5. MembersOf(p) = {c}
  BY <1>2, <1>3, <1>4 DEF MembersOf
<1>6. Together({c})
  BY <1>1 DEF Together
<1>7. Publishable({c})
  BY <1>2, <1>3, <1>4, <1>5, <1>6 DEF Publishable
<1>8. Content(c) \in passed
  BY <1>3, <1>4 DEF Good
<1> QED
  BY <1>1, <1>2, <1>3, <1>7, <1>8, ReadyFacts DEF commit, workspace

\* commit_batch: so have all members, by the verdict on the first.
LEMMA CommitBatchPublishable ==
    ASSUME Stored, Session, NEW batch \in HeldBatches, commit_batch(batch)
    PROVE  /\ ~Open /\ batch \in SUBSET Candidate /\ Publishable(batch) /\ Publish(batch)
           /\ \A c \in batch : Content(c) \in passed /\ c.parent = version
           /\ UNCHANGED <<rec, tipNode, ref, receipts, lease, next, staged, checking>>
<1>1. batch \in SUBSET Candidate /\ batch # {}
  BY HeldCandidates DEF Stored
<1>2. PICK check \in batch : \A c \in batch :
          rec[c.leaf].pending.validation = [candidate |-> c, check |-> check]
  BY DEF commit_batch
<1>3. ASSUME NEW c \in batch
      PROVE  LET p == rec[c.leaf].pending
                 row == rows[c.leaf][c.seq]
             IN  /\ c.leaf \in Leaf /\ SubmittedOK(p) /\ p.candidate = c /\ p.batch = batch
                 /\ c.seq = Len(rows[c.leaf]) /\ c.seq > 0 /\ c.parent = version
                 /\ row.state = "pending" /\ row.candidate = c
                 /\ row.batch = {Request(d) : d \in batch}
                 /\ \A d \in batch : Content(d) = Content(c)
                 /\ Content(c) \in passed
  <2> DEFINE p == rec[c.leaf].pending
             row == rows[c.leaf][c.seq]
  <2>1. p # None /\ ~p.aborting /\ p.candidate = c /\ p.batch = batch
    BY DEF commit_batch, batch_members
  <2>2. /\ row.state = "pending" /\ row.candidate = c /\ row.batch = {Request(d) : d \in batch}
        /\ c.parent = version
    BY DEF commit_batch, Committable, Pending, Row
  <2>3. /\ c.leaf \in Leaf /\ SubmittedOK(p) /\ p \in PendingCapture
        /\ c.seq = Len(rows[c.leaf]) /\ c.seq > 0
        /\ \A d \in batch : Content(d) = Content(c)
        /\ p.validation # None => Good(p.validation.candidate, version, passed)
    BY <1>1, <2>1, Assigned1
  <2>4. p.validation # None /\ p.validation.candidate = c
    <3>1. [candidate |-> c, check |-> check] \in Validation
      BY <1>1 DEF Validation
    <3> QED
      BY <1>2, <3>1, NoneAssumption
  <2> QED
    BY <2>1, <2>2, <2>3, <2>4 DEF Good
<1>4. Together(batch)
  BY <1>1, <1>3 DEF Together
<1>5. \A c \in batch : MembersOf(rec[c.leaf].pending) = batch
  BY <1>1, <1>3 DEF MembersOf
<1>6. Publishable(batch)
  BY <1>1, <1>3, <1>4, <1>5 DEF Publishable
<1> QED
  BY <1>1, <1>3, <1>6, ReadyFacts DEF commit_batch, workspace

-----------------------------------------------------------------------------
\* Acknowledgement.

\* A publication that is not acknowledged is the newest epoch.
LEMMA CheckedIsNewest ==
    ASSUME Stored, l0 \in Leaf, Unacknowledged(rec[l0], rows[l0])
    PROVE  /\ checked = Newest /\ Newest \in Checkpoint /\ version \in 1..version
           /\ {Request(c) : c \in Members} = PublishedAs(rows, version)
<1> DEFINE p == rec[l0].pending
           s == rows[l0]
<1>1. PublicationOK(p, s, log, PublishedAs(rows, version))
  BY DEF Stored, PublicationsOK
<1>2. /\ version \in Nat /\ Len(log) = version + 1 /\ tip = log[Len(log)] /\ tip \in Tree
      /\ rec[l0] \in Record /\ Len(s) \in Nat
  BY Numbers DEF Stored
<1>3. p \in PendingCapture /\ p # None /\ p.submitted
  BY <1>2 DEF Unacknowledged, Record
<1>4. p.candidate \in Candidate
  BY <1>1, <1>3 DEF PublicationOK, PendingCapture
<1>5. p.candidate.parent + 1 = version /\ p.candidate.root = tip
  <2>1. p.candidate.parent \in Nat
    BY <1>4 DEF Candidate
  <2>2. p.candidate.parent + 2 = Len(log) /\ p.candidate.root = log[Len(log)]
    BY <1>1 DEF PublicationOK
  <2>3. \A a \in Nat, v \in Nat : a + 2 = v + 1 => a + 1 = v
    OBVIOUS
  <2>4. p.candidate.parent + 2 = version + 1 /\ version \in Nat
    BY <1>2, <2>2
  <2>5. p.candidate.parent + 1 = version
    BY <2>1, <2>3, <2>4
  <2> QED
    BY <1>2, <2>2, <2>5
<1>6. checked = Newest /\ Newest \in Checkpoint
  BY <1>2, <1>5 DEF checked, Newest, Node, pending, Checkpoint
<1>7. version \in 1..version
  BY <1>2, <1>4, <1>5 DEF Candidate
<1>8. Members = MembersOf(p)
  BY DEF Members, MembersOf, pending
<1> QED
  BY <1>1, <1>6, <1>7, <1>8 DEF PublicationOK

\* As long as a publication is open, files of older versions stay.
LEMMA FilesStep ==
    ASSUME Stored, Open,
           UNCHANGED <<rec, rows, log, passed, checking, lease, next, staged>>,
           tipNode' \in Checkpoint, ref' \in Checkpoint,
           DOMAIN receipts \subseteq DOMAIN receipts', DOMAIN receipts' \subseteq 1..version,
           \A v \in 1..version : v # version /\ v \in DOMAIN receipts => receipts'[v] = receipts[v]
    PROVE  Stored'
<1>1. version' = version /\ tip' = tip
  BY DEF version, tip
<1>2. Typed'
  BY DEF Stored, Typed
<1>3. RecordsOK' /\ AssignmentsOK' /\ TablesOK' /\ VerdictsOK' /\ PublicationsOK'
  BY <1>1 DEF Stored, RecordsOK, AssignmentsOK, TablesOK, VerdictsOK, PublicationsOK
<1>4. Open'
  BY DEF Open
<1>5. ReceiptsOK'
  BY <1>1, <1>4 DEF Stored, ReceiptsOK, Recorded
<1> QED
  BY <1>2, <1>3, <1>4, <1>5 DEF Stored, NodesOK

\* A session writes files only for a publication that is open.
LEMMA FinishingFacts ==
    ASSUME Session, call # None, call.step \in Finishing
    PROVE  l0 \in Leaf /\ Unacknowledged(rec[l0], rows[l0]) /\ Open
<1>1. call.mode \in {"finish", "publications"} /\ call.leaf \in Leaf /\ call.step # "visit"
  BY DEF Session, SessionOK, Submitting, Cancelling, Finishing
<1>2. call.leaf \in Left
  BY <1>1 DEF Left
<1> QED
  BY <1>1, <1>2 DEF Session, PassOK, Open, l0

\* The Git reference comes to the newest epoch.
LEMMA SetRefStored ==
    ASSUME Stored, Session, SetRef
    PROVE  Stored' /\ (call' # None => ref' = Newest)
<1>1. l0 \in Leaf /\ Unacknowledged(rec[l0], rows[l0]) /\ Open
  BY FinishingFacts DEF SetRef, At, Finishing
<1>2. checked = Newest /\ Newest \in Checkpoint
  BY <1>1, CheckedIsNewest
<1>3. CASE ref' = checked /\ UNCHANGED <<authority, rec, tipNode, receipts, outside, crashes, revokes>>
  BY <1>1, <1>2, <1>3, FilesStep DEF authority, outside, Stored, Typed, ReceiptsOK
<1>4. CASE Refuse
  BY <1>4, QuietStep DEF Refuse, End, authority, workspace, outside, Stored, Typed, VerdictsOK
<1> QED
  BY <1>3, <1>4 DEF SetRef

\* The receipt file names all members.
LEMMA WriteReceiptStored ==
    ASSUME Stored, Session, WriteReceipt
    PROVE  Stored' /\ (call' # None => Recorded(version)')
<1>1. l0 \in Leaf /\ Unacknowledged(rec[l0], rows[l0]) /\ Open
  BY FinishingFacts DEF WriteReceipt, At, Finishing
<1>2. version \in 1..version /\ {Request(c) : c \in Members} = PublishedAs(rows, version)
  BY <1>1, CheckedIsNewest
<1> DEFINE receipt == {Receipt(c) : c \in Members}
<1>3. CASE /\ receipts' = [v \in DOMAIN receipts \cup {version} |->
                             IF v = version THEN receipt ELSE receipts[v]]
           /\ UNCHANGED <<authority, rec, tipNode, ref, outside, crashes, revokes>>
  <2>1. Identities(receipt) = {Request(c) : c \in Members}
    <3>1. \A c : <<Receipt(c).leaf, Receipt(c).seq>> = Request(c)
      BY DEF Receipt, Request
    <3> QED
      BY <3>1 DEF Identities
  <2> HIDE DEF receipt
  <2>2. /\ DOMAIN receipts' = DOMAIN receipts \cup {version} /\ receipts'[version] = receipt
        /\ \A v \in DOMAIN receipts : v # version => receipts'[v] = receipts[v]
    BY <1>3
  <2>3. UNCHANGED <<rec, rows, log, passed, checking, lease, next, staged, tipNode, ref>>
    BY <1>3 DEF authority, outside
  <2>4. Stored'
    BY <1>1, <1>2, <2>2, <2>3, FilesStep DEF Stored, Typed, ReceiptsOK
  <2>5. Recorded(version)'
    BY <1>2, <2>1, <2>2, <2>3 DEF Recorded, version
  <2> QED
    BY <2>4, <2>5
<1>4. CASE Refuse
  BY <1>4, QuietStep DEF Refuse, End, authority, workspace, outside, Stored, Typed, VerdictsOK
<1> QED
  BY <1>3, <1>4 DEF WriteReceipt

\* The tip node comes to the newest epoch.
LEMMA WriteTipStored ==
    ASSUME Stored, Session, WriteTip
    PROVE  Stored' /\ tipNode' = Newest
<1>1. l0 \in Leaf /\ Unacknowledged(rec[l0], rows[l0]) /\ Open
  BY FinishingFacts DEF WriteTip, At, Finishing
<1>2. checked = Newest /\ Newest \in Checkpoint
  BY <1>1, CheckedIsNewest
<1>3. tipNode' = Newest /\ UNCHANGED <<rec, rows, log, passed, checking, lease, next, staged, ref, receipts>>
  BY <1>2 DEF WriteTip, authority, outside
<1> QED
  BY <1>1, <1>2, <1>3, FilesStep DEF Stored, Typed, ReceiptsOK

\* The record is settled: its leaf has its receipt and its origin.
LEMMA AcknowledgeStored ==
    ASSUME Stored, Session, Acknowledge
    PROVE  /\ Stored'
           /\ rec'[l0].pending = None /\ \A l \in Leaf : l # l0 => rec'[l] = rec[l]
<1> DEFINE p == rec[l0].pending
           c == p.candidate
           s == rows[l0]
           r == [origin |-> p.value, sequence |-> p.seq + 1, token |-> lease[l0],
                 pending |-> None, last |-> Receipt(c)]
<1>1. l0 \in Leaf /\ Unacknowledged(rec[l0], s) /\ Open
  BY FinishingFacts DEF Acknowledge, At, Finishing
<1>2. ref = Newest /\ tipNode = Newest /\ Recorded(version)
  BY DEF Session, StepsOK, Acknowledge, At
<1>3. rec' = [rec EXCEPT ![l0] = r]
  BY DEF Acknowledge, pending
<1>4. UNCHANGED <<rows, log, tipNode, ref, receipts, passed, checking, lease, next, staged>>
  BY DEF Acknowledge, authority, Rest, workspace, outside
<1>5. /\ rec[l0] \in Record /\ Len(s) \in Nat /\ Len(log) = version + 1 /\ tip = log[Len(log)]
      /\ \A seq \in 1..Len(s) : s[seq] \in RowShape
  BY <1>1, Numbers DEF Stored
<1>6. /\ RecordOK(rec[l0], s) /\ RowsOK(l0, s, log)
      /\ PublicationOK(p, s, log, PublishedAs(rows, version))
  BY <1>1 DEF Stored, RecordsOK, TablesOK, PublicationsOK
<1>7. p \in PendingCapture /\ p # None /\ p.submitted /\ ~p.aborting /\ s[p.seq].state = "committed"
  BY <1>1, <1>5 DEF Unacknowledged, Record
<1>8. p.seq = Len(s) /\ p.seq \in 1..Len(s) /\ s[p.seq].value = p.value
  BY <1>5, <1>6, <1>7 DEF RecordOK
<1>9. c \in Candidate /\ c # None /\ c = s[p.seq].candidate /\ c.root = tip
  BY <1>5, <1>6, <1>7 DEF PublicationOK, PendingCapture
<1>10. c.leaf = l0 /\ c.seq = p.seq /\ c.root[l0] = p.value
  BY <1>6, <1>8, <1>9 DEF RowsOK, PreparationOK
<1>11. /\ Receipt(c) \in ReceiptShape /\ Receipt(c).seq = p.seq
       /\ Receipt(c).version = s[p.seq].version
  <2>1. s[p.seq].version \in Nat
    BY <1>5, <1>8 DEF RowShape
  <2> QED
    BY <1>9, <1>10, <2>1 DEF Receipt, ReceiptShape, Row, Candidate
<1>12. r \in Record
  BY <1>1, <1>7, <1>11 DEF Record, PendingCapture, Stored, Typed
<1>13. /\ r.pending = None /\ r.sequence = p.seq + 1 /\ r.last = Receipt(c) /\ r.origin = p.value
  OBVIOUS
<1> HIDE DEF p, c, s, r
<1>14. rec'[l0] = r /\ \A l \in Leaf : l # l0 => rec'[l] = rec[l]
  BY <1>1, <1>3 DEF Stored, Typed
<1>15. version' = version /\ Newest' = Newest
  BY <1>4 DEF version, tip, Newest
<1>16. Typed'
  BY <1>3, <1>4, <1>12 DEF Stored, Typed
<1>17. RecordOK(r, s) /\ AssignmentOK(l0, r.pending, s, version) /\ VerdictOK(r.pending, version, passed)
  BY <1>5, <1>6, <1>7, <1>8, <1>13 DEF RecordOK, AssignmentOK, VerdictOK, p
<1>18. ~Unacknowledged(r, s)
  BY <1>13 DEF Unacknowledged
<1>19. AcknowledgmentOK(l0, r, s, log)
  <2>1. \A seq \in 1..Len(s) : seq <= p.seq
    BY <1>5, <1>8
  <2> QED
    BY <1>5, <1>7, <1>8, <1>9, <1>10, <1>11, <1>13, <2>1 DEF AcknowledgmentOK
<1>20. RecordsOK' /\ AssignmentsOK' /\ TablesOK' /\ VerdictsOK'
  BY <1>4, <1>14, <1>15, <1>17 DEF Stored, RecordsOK, AssignmentsOK, TablesOK, VerdictsOK, s
<1>21. PublicationsOK'
  BY <1>4, <1>14, <1>15, <1>18, <1>19 DEF Stored, PublicationsOK, s
<1>22. ReceiptsOK'
  <2>1. \A v \in 1..version : Recorded(v)
    BY <1>2 DEF Stored, ReceiptsOK
  <2>2. \A v : Recorded(v)' <=> Recorded(v)
    BY <1>4 DEF Recorded
  <2> QED
    BY <1>4, <1>15, <2>1, <2>2 DEF Stored, ReceiptsOK
<1> QED
  BY <1>2, <1>4, <1>13, <1>14, <1>15, <1>16, <1>20, <1>21, <1>22 DEF Stored, NodesOK

-----------------------------------------------------------------------------
\* Every step keeps what is stored.

\* Actions that write nothing of it.
LEMMA QuietActions ==
    ASSUME Stored, Session,
           \/ Lock \/ Return \/ Crash \/ Visited
           \/ \E l \in Leaf : Revoke(l) \/ RecoverCapture(l) \/ FinishMember(l)
           \/ \E c \in checking : FailCheck(c)
           \/ \E batch \in HeldBatches : \E c \in batch : check_batch(batch, c)
    PROVE  Stored'
<1>1. CASE Lock \/ Return \/ Crash \/ Visited
  BY <1>1, QuietStep DEF Lock, Return, Crash, Visited, Refuse, authority, Rest, workspace, outside,
     Stored, Typed, VerdictsOK
<1>2. CASE \E l \in Leaf : Revoke(l)
  <2>1. PICK l \in Leaf : Revoke(l)
    BY <1>2
  <2>2. lease' \in [Leaf -> Nat]
    BY <2>1 DEF Revoke, Stored, Typed
  <2> QED
    BY <2>1, <2>2, QuietStep DEF Revoke, workspace, outside, Stored, Typed, VerdictsOK
<1>3. CASE \E l \in Leaf : RecoverCapture(l) \/ FinishMember(l)
  BY <1>3, QuietStep DEF RecoverCapture, FinishMember, authority, Rest, workspace, outside,
     Stored, Typed, VerdictsOK
<1>4. CASE \E c \in checking : FailCheck(c)
  BY <1>4, QuietStep DEF FailCheck, authority, workspace, Stored, Typed, VerdictsOK
<1>5. CASE \E batch \in HeldBatches : \E c \in batch : check_batch(batch, c)
  BY <1>5, QuietStep DEF check_batch, authority, Rest, workspace, outside, Stored, Typed, VerdictsOK
<1> QED
  BY <1>1, <1>2, <1>3, <1>4, <1>5

\* Together: whatever step is taken, and wherever a process dies.
LEMMA StoredStep ==
    ASSUME Stored, Session, [Next]_vars
    PROVE  Stored'
<1>1. CASE UNCHANGED vars
  BY <1>1, QuietStep DEF vars, authority, workspace, outside, Stored, Typed, VerdictsOK
<1>2. CASE \/ Lock \/ Return \/ Crash \/ Visited
           \/ \E l \in Leaf : Revoke(l) \/ RecoverCapture(l) \/ FinishMember(l)
           \/ \E c \in checking : FailCheck(c)
           \/ \E batch \in HeldBatches : \E c \in batch : check_batch(batch, c)
  BY <1>2, QuietActions
<1>3. CASE \/ SaveIntent \/ StageEdit \/ Propose \/ SaveSubmitted \/ cancel_capture \/ SaveCancelled
           \/ SavePrepared \/ SetRef \/ WriteReceipt \/ WriteTip \/ Acknowledge
  BY <1>3, IntentStored, StageStored, ProposeStored, SubmittedStored, CancelStored, CancelledStored,
     SavePreparedStored, SetRefStored, WriteReceiptStored, WriteTipStored, AcknowledgeStored
<1>4. CASE \E l \in Leaf : \/ abort(l) \/ prepare(l) \/ SaveMember(l) \/ BeginCheck(l) \/ SaveValidation(l)
                           \/ \E v \in Value : capture(l, v)
  BY <1>4, AbortStored, PrepareStored, SaveMemberStored, BeginCheckStored, SaveValidationStored, CaptureStored
<1>5. CASE \E leaves \in SUBSET Leaf : prepare_batch(leaves)
  BY <1>5, PrepareBatchStored
<1>6. CASE \E c \in checking : seal_check(c)
  BY <1>6, SealStored
<1>7. CASE \E c \in Held : commit(c)
  <2>1. PICK c \in Held : commit(c)
    BY <1>7
  <2> QED
    BY <2>1, CommitPublishable, PublishStored
<1>8. CASE \E batch \in HeldBatches : commit_batch(batch)
  <2>1. PICK batch \in HeldBatches : commit_batch(batch)
    BY <1>8
  <2> QED
    BY <2>1, CommitBatchPublishable, PublishStored
<1> QED
  BY <1>1, <1>2, <1>3, <1>4, <1>5, <1>6, <1>7, <1>8 DEF Next

-----------------------------------------------------------------------------
\* What a session knows, step by step: one lemma for each action that sets call.

\* Nothing is known of no session.
LEMMA NoSession ==
    ASSUME call' = None
    PROVE  Session'
BY DEF Session, SessionOK, PassOK, StepsOK

\* Nor does a session know of reservations and running checks.
LEMMA QuietSession ==
    ASSUME Session, UNCHANGED <<call, rec, rows, log, staged, passed, ref, tipNode, receipts>>
    PROVE  Session'
<1>1. version' = version /\ Newest' = Newest /\ l0' = l0 /\ Left' = Left /\ (Open' <=> Open)
  BY DEF version, tip, Newest, l0, Left, Open
<1>2. SessionOK' /\ PassOK'
  BY <1>1 DEF Session, SessionOK, PassOK
<1>3. \A v : Recorded(v)' <=> Recorded(v)
  BY DEF Recorded
<1>4. StepsOK'
  BY <1>1, <1>3 DEF Session, StepsOK
<1> QED
  BY <1>2, <1>4 DEF Session

\* The fields of the call that follows.
LEMMA NextStep ==
    ASSUME SessionOK, call # None, NEW s, call' = [call EXCEPT !.step = s]
    PROVE  /\ call' = [step |-> s, mode |-> call.mode, rest |-> call.rest, leaf |-> call.leaf, value |-> call.value]
           /\ call'.step = s /\ call'.mode = call.mode /\ call'.rest = call.rest
           /\ call'.leaf = call.leaf /\ call'.value = call.value
BY DEF SessionOK

\* A pass visits a leaf.
LEMMA NextVisit ==
    ASSUME SessionOK, call # None, NEW l, NEW s, Visit(l, s)
    PROVE  /\ call' = [step |-> s, mode |-> call.mode, rest |-> call.rest \ {l}, leaf |-> l, value |-> call.value]
           /\ call'.step = s /\ call'.mode = call.mode /\ call'.rest = call.rest \ {l}
           /\ call'.leaf = l /\ call'.value = call.value
BY DEF SessionOK, Visit

\* A pass is done with a leaf in one step.
LEMMA NextDone ==
    ASSUME SessionOK, call # None, NEW l, Done(l)
    PROVE  /\ call' = [step |-> call.step, mode |-> call.mode, rest |-> call.rest \ {l},
                       leaf |-> call.leaf, value |-> call.value]
           /\ call'.step = call.step /\ call'.mode = call.mode /\ call'.rest = call.rest \ {l}
           /\ call'.leaf = call.leaf /\ call'.value = call.value
BY DEF SessionOK, Done

\* A pass goes on after a leaf, or the session ends.
LEMMA NextProceed ==
    ASSUME SessionOK, call # None, Proceed
    PROVE  \/ call' = None
           \/ /\ call.mode \in {"captures", "publications", "finish"}
              /\ call' = [step |-> "visit", mode |-> call.mode, rest |-> call.rest, leaf |-> None, value |-> call.value]
              /\ call'.step = "visit" /\ call'.mode = call.mode /\ call'.rest = call.rest
BY DEF SessionOK, Proceed

\* A pass that visits the leaves of a set, or a session that is ready.
LEMMA ReconcileSession ==
    ASSUME Stored, UNCHANGED <<rec, rows>>, NEW captures, call' = Reconcile(captures),
           captures = recover_captures \/ (captures = {} /\ recover_captures = {})
    PROVE  Session'
<1>1. \A l \in Leaf : l \in recover_captures <=> Unsettled(rec[l])
  BY DEF recover_captures, Unsettled
<1>2. \A l \in Leaf : l \in recover_publications <=> Unacknowledged(rec[l], rows[l])
  BY DEF recover_publications, Unacknowledged, Committed, Known, Row
<1>3. recover_captures \subseteq Leaf /\ recover_publications \subseteq Leaf
  BY DEF recover_captures, recover_publications
<1>4. ASSUME NEW mode, NEW rest, rest \subseteq Leaf, call' = Do(mode, rest)
      PROVE  /\ call'.step = "visit" /\ call'.mode = mode /\ call'.rest = rest /\ Left' = rest
             /\ mode \in Passes /\ (mode = "ready" => rest = {}) => SessionOK'
             /\ mode \notin {"assign", "validate"} => StepsOK'
  <2>1. call'.step = "visit" /\ call'.mode = mode /\ call'.rest = rest
    BY <1>4 DEF Do
  <2>2. Left' = rest
    BY <2>1 DEF Left
  <2>3. mode \in Passes /\ (mode = "ready" => rest = {}) => SessionOK'
    BY <1>4, <2>1 DEF SessionOK, Do, Passes
  <2>4. mode \notin {"assign", "validate"} => StepsOK'
    BY <2>1 DEF StepsOK, Submitting, Cancelling
  <2> QED
    BY <2>1, <2>2, <2>3, <2>4
<1>5. CASE captures # {}
  <2>1. call' = Do("captures", captures) /\ captures = recover_captures
    BY <1>5 DEF Reconcile
  <2>2. SessionOK' /\ StepsOK' /\ call'.mode = "captures" /\ call'.rest = captures /\ Left' = captures
    BY <1>3, <1>4, <2>1 DEF Passes
  <2>3. PassOK'
    BY <1>1, <2>1, <2>2 DEF PassOK
  <2> QED
    BY <2>2, <2>3 DEF Session
<1>6. CASE captures = {} /\ recover_publications # {}
  <2>1. call' = Do("publications", recover_publications)
    BY <1>6 DEF Reconcile
  <2>2. /\ SessionOK' /\ StepsOK' /\ call'.mode = "publications" /\ call'.rest = recover_publications
        /\ Left' = recover_publications
    BY <1>3, <1>4, <2>1 DEF Passes
  <2>3. \A l \in Leaf : ~Unsettled(rec[l])
    BY <1>1, <1>6
  <2>4. PassOK'
    BY <1>2, <1>3, <2>2, <2>3 DEF PassOK
  <2> QED
    BY <2>2, <2>4 DEF Session
<1>7. CASE captures = {} /\ recover_publications = {}
  <2>1. call' = Do("ready", {})
    BY <1>7 DEF Reconcile
  <2>2. SessionOK' /\ StepsOK' /\ call'.mode = "ready"
    BY <1>3, <1>4, <2>1 DEF Passes
  <2>3. \A l \in Leaf : ~Unsettled(rec[l]) /\ ~Unacknowledged(rec[l], rows[l])
    BY <1>1, <1>2, <1>7
  <2>4. PassOK'
    BY <2>2, <2>3 DEF PassOK, Open
  <2> QED
    BY <2>2, <2>4 DEF Session
<1> QED
  BY <1>5, <1>6, <1>7

\* A session begins with reconciliation.
LEMMA LockSession ==
    ASSUME Stored, Lock
    PROVE  Session'
BY ReconcileSession DEF Lock, authority

\* A pass has visited all its leaves.
LEMMA VisitedSession ==
    ASSUME Stored, Session, Visited
    PROVE  Session'
<1>1. call # None /\ call.step = "visit" /\ call.rest = {} /\ UNCHANGED <<rec, rows>>
  BY DEF Visited, At, authority
<1>2. Left = {}
  BY <1>1 DEF Left
<1>3. CASE call.mode = "captures" /\ call' = Reconcile({})
  <2>1. recover_captures = {}
    BY <1>1, <1>2, <1>3 DEF Session, PassOK, recover_captures, Unsettled
  <2> QED
    BY <1>1, <1>3, <2>1, ReconcileSession
<1>4. CASE call.mode = "publications" /\ call' = Do("ready", {})
  <2>1. \A l \in Leaf : ~Unsettled(rec[l]) /\ ~Unacknowledged(rec[l], rows[l])
    BY <1>1, <1>2, <1>4 DEF Session, PassOK
  <2>2. recover_captures = {} /\ recover_publications = {}
    BY <2>1 DEF recover_captures, recover_publications, Unsettled, Unacknowledged, Committed, Known, Row
  <2>3. call' = Reconcile({})
    BY <1>4, <2>2 DEF Reconcile
  <2> QED
    BY <1>1, <2>2, <2>3, ReconcileSession
<1> QED
  BY <1>3, <1>4, NoSession DEF Visited, End

\* An unsettled capture is submitted or cancelled.
LEMMA RecoverSession ==
    ASSUME Session, NEW l \in Leaf, RecoverCapture(l)
    PROVE  Session'
<1>1. call # None /\ call.step = "visit" /\ call.mode = "captures" /\ l \in call.rest
  BY DEF RecoverCapture, Visiting, At
<1>2. UNCHANGED <<rec, rows, staged>>
  BY DEF RecoverCapture, authority
<1> DEFINE s == IF rec[l].pending.aborting THEN "cancel" ELSE "stage"
<1>3. Visit(l, s)
  BY DEF RecoverCapture
<1>4. /\ call' = [step |-> s, mode |-> call.mode, rest |-> call.rest \ {l}, leaf |-> l, value |-> call.value]
      /\ call'.step = s /\ call'.mode = call.mode /\ call'.rest = call.rest \ {l}
      /\ call'.leaf = l /\ call'.value = call.value
  BY <1>1, <1>3, NextVisit DEF Session
<1>5. SessionOK'
  BY <1>1, <1>4 DEF Session, SessionOK, Submitting, Cancelling
<1>6. Left' = call.rest /\ Left = call.rest
  BY <1>1, <1>4 DEF Left
<1>7. PassOK'
  BY <1>1, <1>2, <1>4, <1>6 DEF Session, PassOK
<1>8. Unsettled(rec[l]) /\ l0' = l
  BY <1>1, <1>4 DEF Session, PassOK, l0
<1>9. StepsOK'
  BY <1>1, <1>2, <1>4, <1>8 DEF StepsOK, Unsettled, CaptureOK, CancelOK, Submitting, Cancelling
<1> QED
  BY <1>5, <1>7, <1>9 DEF Session

\* A publication is finished for a member.
LEMMA FinishSession ==
    ASSUME Session, NEW l \in Leaf, FinishMember(l)
    PROVE  Session'
<1>1. call # None /\ call.step = "visit" /\ call.mode \in {"publications", "finish"} /\ l \in call.rest
  BY DEF FinishMember, Visiting, At
<1>2. UNCHANGED <<rec, rows>>
  BY DEF FinishMember, authority
<1>3. Visit(l, "reference")
  BY DEF FinishMember
<1>4. /\ call' = [step |-> "reference", mode |-> call.mode, rest |-> call.rest \ {l}, leaf |-> l, value |-> call.value]
      /\ call'.step = "reference" /\ call'.mode = call.mode /\ call'.rest = call.rest \ {l}
      /\ call'.leaf = l /\ call'.value = call.value
  BY <1>1, <1>3, NextVisit DEF Session
<1>5. SessionOK'
  BY <1>1, <1>4 DEF Session, SessionOK, Finishing
<1>6. Left' = call.rest /\ Left = call.rest
  BY <1>1, <1>4 DEF Left
<1>7. PassOK'
  BY <1>1, <1>2, <1>4, <1>6 DEF Session, PassOK
<1>8. StepsOK'
  BY <1>1, <1>4 DEF StepsOK, Submitting, Cancelling
<1> QED
  BY <1>5, <1>7, <1>8 DEF Session

\* The path is reserved.
LEMMA CaptureSession ==
    ASSUME Stored, Session, NEW l \in Leaf, NEW v \in Value, capture(l, v)
    PROVE  Session'
<1>1. call # None /\ call.mode = "ready" /\ rec[l].pending = None
  BY DEF capture, Ready, Visiting, At
<1>2. call' = [call EXCEPT !.step = "intent", !.mode = "capture", !.leaf = l, !.value = v]
  BY DEF capture
<1>3. /\ call' = [step |-> "intent", mode |-> "capture", rest |-> call.rest, leaf |-> l, value |-> v]
      /\ call'.step = "intent" /\ call'.mode = "capture" /\ call'.rest = {}
      /\ call'.leaf = l /\ call'.value = v
  BY <1>1, <1>2 DEF Session, SessionOK
<1>4. rec'[l].pending = None
  <2>1. rec[l] \in Record /\ rec \in [Leaf -> Record]
    BY DEF Stored, Typed
  <2>2. rec' = [rec EXCEPT ![l].token = lease'[l], ![l].origin = tip[l]]
    BY DEF capture
  <2> QED
    BY <1>1, <2>1, <2>2 DEF Record
<1>5. SessionOK'
  BY <1>3 DEF SessionOK
<1>6. PassOK'
  BY <1>3 DEF PassOK
<1>7. StepsOK'
  BY <1>3, <1>4 DEF StepsOK, l0, Submitting, Cancelling
<1> QED
  BY <1>5, <1>6, <1>7 DEF Session

\* A submission goes on with its next step.
LEMMA Submission ==
    ASSUME Stored, Session, call # None, call.step \in Submitting \cup {"intent"},
           NEW s \in Submitting, Step(s), NEW t, t = call.leaf,
           CaptureOK(s, rec'[t], rows'[t], staged'[t]),
           rec' = rec \/ call.mode = "capture"
    PROVE  Session'
<1>1. /\ call' = [step |-> s, mode |-> call.mode, rest |-> call.rest, leaf |-> call.leaf, value |-> call.value]
      /\ call'.step = s /\ call'.mode = call.mode /\ call'.rest = call.rest
      /\ call'.leaf = call.leaf /\ call'.value = call.value
  BY NextStep DEF Session, Step
<1>2. /\ call.mode \in {"capture", "captures"} /\ call.step # "visit" /\ s # "visit"
      /\ call.mode = "capture" \/ call.step # "intent"
  BY DEF Session, SessionOK, Submitting, Cancelling, Finishing
<1>3. SessionOK'
  BY <1>1, <1>2 DEF Session, SessionOK
<1>4. Left' = Left
  BY <1>1, <1>2 DEF Left
<1>5. PassOK'
  BY <1>1, <1>2, <1>4 DEF Session, PassOK
<1>6. StepsOK'
  BY <1>1, <1>2 DEF StepsOK, l0, Submitting, Cancelling
<1> QED
  BY <1>3, <1>5, <1>6 DEF Session

\* The intent is saved.
LEMMA IntentSession ==
    ASSUME Stored, Session, SaveIntent
    PROVE  Session'
<1> DEFINE t == call.leaf
           q == Capture(rec[t].sequence, call.value)
<1>1. call # None /\ call.step = "intent" /\ Step("stage")
  BY DEF SaveIntent, At
<1>2. t \in Leaf /\ call.value \in Value /\ call.mode = "capture"
  BY <1>1 DEF Session, SessionOK, StepsOK, Submitting, Cancelling, Finishing
<1>3. rec[t] \in Record /\ rec \in [Leaf -> Record]
  BY <1>2 DEF Stored, Typed
<1>4. rec'[t].pending = q
  BY <1>2, <1>3 DEF SaveIntent, Record, l0
<1>5. q # None
  <2>1. q \in PendingCapture
    BY <1>2, <1>3 DEF Record, PendingCapture, Capture
  <2> QED
    BY <2>1, NoneAssumption
<1>6. ~q.submitted /\ ~q.aborting
  BY DEF Capture
<1> HIDE DEF q
<1>7. CaptureOK("stage", rec'[t], rows'[t], staged'[t])
  BY <1>4, <1>5, <1>6 DEF CaptureOK
<1> QED
  BY <1>1, <1>2, <1>7, Submission DEF Submitting

\* The captured value is in the view that is proposed.
LEMMA StageSession ==
    ASSUME Stored, Session, StageEdit
    PROVE  Session'
<1> DEFINE t == call.leaf
<1>1. call # None /\ call.step = "stage"
  BY DEF StageEdit, At
<1>2. t \in Leaf /\ CaptureOK("stage", rec[t], rows[t], staged[t])
  BY <1>1 DEF Session, SessionOK, StepsOK, Submitting, l0
<1>3. CASE Step("propose") /\ rec' = rec /\ staged' = [staged EXCEPT ![t] = rec[t].pending.value]
  <2>1. staged'[t] = rec[t].pending.value
    BY <1>2, <1>3 DEF Stored, Typed, Tree
  <2>2. CaptureOK("propose", rec'[t], rows'[t], staged'[t])
    BY <1>2, <1>3, <2>1 DEF CaptureOK
  <2> QED
    BY <1>1, <1>3, <2>2, Submission DEF Submitting
<1>4. call' = None \/ (Step("propose") /\ rec' = rec /\ staged' = [staged EXCEPT ![t] = rec[t].pending.value])
  BY DEF StageEdit, Refuse, End, l0, pending
<1> QED
  BY <1>3, <1>4, NoSession

\* The request is the leaf's newest, whether it was just added or known.
LEMMA ProposeSession ==
    ASSUME Stored, Session, Propose
    PROVE  Session'
<1> DEFINE t == call.leaf
           n == Len(rows[t])
           row == NewRow(staged[t], lease[t], "pending")
           p == rec[t].pending
<1>1. call # None /\ call.step = "propose"
  BY DEF Propose, At
<1>2. t \in Leaf /\ CaptureOK("propose", rec[t], rows[t], staged[t])
  BY <1>1 DEF Session, SessionOK, StepsOK, Submitting, l0
<1>3. /\ RecordOK(rec[t], rows[t]) /\ n \in Nat /\ p # None /\ p.seq \in {n, n + 1}
      /\ rows \in [Leaf -> Seq(RowShape)]
  BY <1>2, Numbers DEF Stored, Typed, RecordsOK, CaptureOK, RecordOK
<1>4. CASE Step("submitted") /\ rec' = rec /\ rows' = rows /\ p.seq <= n
  <2>1. p.seq = n
    BY <1>3, <1>4
  <2> HIDE DEF p
  <2>2. CaptureOK("submitted", rec'[t], rows'[t], staged'[t])
    BY <1>2, <1>4, <2>1 DEF CaptureOK, p
  <2> QED
    BY <1>1, <1>4, <2>2, Submission DEF Submitting
<1>5. CASE Step("submitted") /\ rec' = rec /\ p.seq = n + 1 /\ rows' = [rows EXCEPT ![t] = Append(@, row)]
  <2>1. rows'[t] = Append(rows[t], row)
    BY <1>2, <1>3, <1>5
  <2>2. Len(rows'[t]) = n + 1
    <3> HIDE DEF row
    <3>1. rows[t] \in Seq(RowShape)
      BY <1>2, <1>3
    <3>2. rows[t] \in Seq(RowShape \cup {row}) /\ row \in RowShape \cup {row}
      BY <3>1
    <3> HIDE DEF RowShape
    <3> QED
      BY <2>1, <3>2
  <2>3. CaptureOK("submitted", rec'[t], rows'[t], staged'[t])
    BY <1>2, <1>5, <2>2 DEF CaptureOK
  <2> QED
    BY <1>1, <1>5, <2>3, Submission DEF Submitting
<1>6. \/ call' = None
      \/ Step("submitted") /\ rec' = rec /\ rows' = rows /\ p.seq <= n
      \/ Step("submitted") /\ rec' = rec /\ p.seq = n + 1 /\ rows' = [rows EXCEPT ![t] = Append(@, row)]
  BY DEF Propose, Refuse, End, authority, l0, pending, Known
<1> QED
  BY <1>4, <1>5, <1>6, NoSession

\* A session that has dealt with one capture goes on to the next, or ends.
LEMMA Dealt ==
    ASSUME Session, call # None, call.mode \in {"capture", "captures", "abort"}, call.step # "visit", Proceed,
           ~Unsettled(rec'[call.leaf]), \A l \in Leaf : l # call.leaf => rec'[l] = rec[l]
    PROVE  Session'
<1>1. CASE call' = None
  BY <1>1, NoSession
<1>2. CASE /\ call.mode = "captures"
           /\ call' = [step |-> "visit", mode |-> call.mode, rest |-> call.rest, leaf |-> None, value |-> call.value]
           /\ call'.step = "visit" /\ call'.mode = call.mode /\ call'.rest = call.rest
  <2>1. SessionOK'
    BY <1>2 DEF Session, SessionOK, Passes
  <2>2. call.leaf \notin call.rest /\ call.rest \subseteq Leaf
    BY DEF Session, SessionOK
  <2>3. Left' = call.rest /\ Left = call.rest \cup {call.leaf}
    BY <1>2 DEF Left
  <2>4. ASSUME NEW l \in Leaf
        PROVE  /\ l \in call.rest => Unsettled(rec'[l])
               /\ Unsettled(rec'[l]) => l \in call.rest
    BY <1>2, <2>2, <2>3 DEF Session, PassOK
  <2>5. PassOK'
    BY <1>2, <2>3, <2>4 DEF PassOK
  <2>6. StepsOK'
    BY <1>2 DEF StepsOK, Submitting, Cancelling
  <2> QED
    BY <2>1, <2>5, <2>6 DEF Session
<1> QED
  BY <1>1, <1>2, NextProceed DEF Session

\* The capture is submitted.
LEMMA SubmittedSession ==
    ASSUME Stored, Session, SaveSubmitted
    PROVE  Session'
<1> DEFINE t == call.leaf
           p == rec[t].pending
<1>1. call # None /\ call.step = "submitted" /\ Proceed
  BY DEF SaveSubmitted, At
<1>2. /\ t \in Leaf /\ CaptureOK("submitted", rec[t], rows[t], staged[t])
      /\ call.mode \in {"capture", "captures"}
  BY <1>1 DEF Session, SessionOK, StepsOK, Submitting, Cancelling, Finishing, l0
<1>3. rec[t] \in Record /\ rec \in [Leaf -> Record] /\ p \in PendingCapture /\ ~p.aborting
  BY <1>2 DEF Stored, Typed, Record, CaptureOK
<1>4. rec' = [rec EXCEPT ![t].pending.submitted = TRUE]
  BY DEF SaveSubmitted, l0
<1>5. rec'[t].pending = [p EXCEPT !.submitted = TRUE] /\ \A l \in Leaf : l # t => rec'[l] = rec[l]
  BY <1>2, <1>3, <1>4 DEF Record
<1>6. ~Unsettled(rec'[t])
  BY <1>3, <1>5 DEF Unsettled, PendingCapture
<1> QED
  BY <1>1, <1>2, <1>5, <1>6, Dealt

\* The capture is being aborted.
LEMMA AbortSession ==
    ASSUME Stored, Session, NEW l \in Leaf, abort(l)
    PROVE  Session'
<1>1. call' = [Do("abort", {}) EXCEPT !.step = "cancel", !.leaf = l]
  BY DEF abort
<1>2. /\ call' = [step |-> "cancel", mode |-> "abort", rest |-> {}, leaf |-> l, value |-> None]
      /\ call'.step = "cancel" /\ call'.mode = "abort" /\ call'.rest = {} /\ call'.leaf = l
  BY <1>1 DEF Do
<1>3. rec[l].pending # None /\ rec' = [rec EXCEPT ![l].pending.aborting = TRUE]
  BY DEF abort
<1>4. rec'[l].pending # None /\ rec'[l].pending.aborting
  <2>1. rec[l] \in Record /\ rec \in [Leaf -> Record] /\ rec[l].pending \in PendingCapture
    BY <1>3 DEF Stored, Typed, Record
  <2>2. rec'[l].pending = [rec[l].pending EXCEPT !.aborting = TRUE]
    BY <1>3, <2>1 DEF Record
  <2>3. rec'[l].pending \in PendingCapture /\ rec'[l].pending.aborting
    BY <2>1, <2>2 DEF PendingCapture
  <2> QED
    BY <2>3, NoneAssumption
<1>5. SessionOK'
  BY <1>2 DEF SessionOK, Submitting, Cancelling, Finishing
<1>6. PassOK'
  BY <1>2 DEF PassOK
<1>7. StepsOK'
  BY <1>2, <1>4 DEF StepsOK, l0, Submitting, Cancelling, CancelOK
<1> QED
  BY <1>5, <1>6, <1>7 DEF Session

\* The request is retired, and is the leaf's newest.
LEMMA CancelSession ==
    ASSUME Stored, Session, cancel_capture
    PROVE  Session'
<1> DEFINE t == call.leaf
           n == Len(rows[t])
           p == rec[t].pending
           row == NewRow(None, 0, "aborted")
           s == IF p.seq <= n
                THEN [rows[t] EXCEPT ![p.seq].state = "aborted", ![p.seq].candidate = None]
                ELSE Append(rows[t], row)
<1>1. call # None /\ call.step = "cancel"
  BY DEF cancel_capture, At
<1>2. /\ t \in Leaf /\ CancelOK("cancel", rec[t], rows[t])
      /\ call.mode \in {"abort", "captures"}
  BY <1>1 DEF Session, SessionOK, StepsOK, Submitting, Cancelling, Finishing, l0
<1>3. /\ n \in Nat /\ p # None /\ p.seq \in {n, n + 1} /\ p.seq > 0
      /\ rows \in [Leaf -> Seq(RowShape)]
  BY <1>2, Numbers DEF Stored, Typed, RecordsOK, CancelOK, RecordOK
<1>4. CASE Step("cancelled") /\ rec' = rec /\ rows' = [rows EXCEPT ![t] = s]
  <2>1. rows'[t] = s /\ rows[t] \in Seq(RowShape)
    BY <1>2, <1>3, <1>4
  <2>2. p.seq = Len(rows'[t]) /\ rows'[t][Len(rows'[t])].state = "aborted"
    <3>1. CASE p.seq <= n
      <4>1. p.seq = n /\ n \in 1..Len(rows[t])
        BY <1>3, <3>1
      <4>2. s = [rows[t] EXCEPT ![n] = [rows[t][n] EXCEPT !.state = "aborted", !.candidate = None]]
        <5>1. s = [rows[t] EXCEPT ![n].state = "aborted", ![n].candidate = None]
          BY <3>1, <4>1
        <5> HIDE DEF s, p, RowShape
        <5>2. [rows[t] EXCEPT ![n].state = "aborted", ![n].candidate = None]
                = [rows[t] EXCEPT ![n] = [rows[t][n] EXCEPT !.state = "aborted", !.candidate = None]]
          BY <2>1, <4>1, RowExcept
        <5> QED
          BY <5>1, <5>2
      <4>3. rows[t][n] \in RowShape
        BY <1>2, <4>1, Numbers DEF Stored
      <4>4. Len(s) = n /\ s[n] = [rows[t][n] EXCEPT !.state = "aborted", !.candidate = None]
        <5> HIDE DEF s, RowShape
        <5> QED
          BY <2>1, <4>1, <4>2
      <4>5. s[n].state = "aborted"
        BY <4>3, <4>4 DEF RowShape
      <4> HIDE DEF s, p, n
      <4> QED
        BY <2>1, <4>1, <4>4, <4>5
    <3>2. CASE ~(p.seq <= n)
      <4>1. p.seq = n + 1 /\ s = Append(rows[t], row)
        BY <1>3, <3>2
      <4>2. row.state = "aborted"
        BY DEF NewRow
      <4> HIDE DEF row, s
      <4>3. rows[t] \in Seq(RowShape \cup {row}) /\ row \in RowShape \cup {row}
        BY <2>1
      <4> HIDE DEF RowShape
      <4>4. Len(s) = n + 1 /\ s[n + 1] = row
        BY <4>1, <4>3
      <4> HIDE DEF p, n
      <4> QED
        BY <2>1, <4>1, <4>2, <4>4
    <3> QED
      BY <3>1, <3>2
  <2>3. CancelOK("cancelled", rec'[t], rows'[t])
    BY <1>2, <1>4, <2>2 DEF CancelOK
  <2> HIDE DEF s, p, n, row
  <2>4. /\ call' = [step |-> "cancelled", mode |-> call.mode, rest |-> call.rest, leaf |-> t, value |-> call.value]
        /\ call'.step = "cancelled" /\ call'.mode = call.mode /\ call'.rest = call.rest
        /\ call'.leaf = t /\ call'.value = call.value
    BY <1>1, <1>4, NextStep DEF Session, Step
  <2>5. SessionOK'
    BY <1>1, <1>2, <2>4 DEF Session, SessionOK, Cancelling
  <2>6. Left' = Left
    BY <1>1, <2>4 DEF Left
  <2>7. PassOK'
    BY <1>1, <1>2, <1>4, <2>4, <2>6 DEF Session, PassOK
  <2>8. StepsOK'
    BY <1>2, <2>3, <2>4 DEF StepsOK, l0, Submitting, Cancelling
  <2> QED
    BY <2>5, <2>7, <2>8 DEF Session
<1>5. call' = None \/ (Step("cancelled") /\ rec' = rec /\ rows' = [rows EXCEPT ![t] = s])
  BY DEF cancel_capture, Refuse, End, l0, pending, Known
<1> QED
  BY <1>4, <1>5, NoSession

\* The capture is cancelled.
LEMMA CancelledSession ==
    ASSUME Stored, Session, SaveCancelled
    PROVE  Session'
<1> DEFINE t == call.leaf
<1>1. call # None /\ call.step = "cancelled" /\ Proceed
  BY DEF SaveCancelled, At
<1>2. t \in Leaf /\ call.mode \in {"abort", "captures"}
  BY <1>1 DEF Session, SessionOK, Submitting, Cancelling, Finishing
<1>3. rec[t] \in Record /\ rec \in [Leaf -> Record]
  BY <1>2 DEF Stored, Typed
<1>4. rec' = [rec EXCEPT ![t].sequence = rec[t].pending.seq + 1, ![t].pending = None]
  BY DEF SaveCancelled, l0, pending
<1>5. rec'[t].pending = None /\ \A l \in Leaf : l # t => rec'[l] = rec[l]
  BY <1>2, <1>3, <1>4 DEF Record
<1>6. ~Unsettled(rec'[t])
  BY <1>5 DEF Unsettled
<1> QED
  BY <1>1, <1>2, <1>5, <1>6, Dealt

\* Preparation changes no state, so nothing becomes a publication by it.
LEMMA PreparedSession ==
    ASSUME Stored, ~Open, NEW leaves \in SUBSET Leaf, Ours(leaves),
           NEW batch, batch = {} \/ batch = Requests(leaves), Prepared(Requests(leaves), batch), rec' = rec
    PROVE  /\ ~Open'
           /\ \A l \in leaves :
                /\ SubmittedOK(rec'[l].pending)
                /\ Prepares(leaves, l) \in Candidate /\ Prepares(leaves, l) # None
                /\ rows'[l][rec'[l].pending.seq].candidate = Prepares(leaves, l)
                /\ rows'[l][rec'[l].pending.seq].batch = batch
<1>1. batch \in SUBSET (Leaf \X Nat)
  BY Numbers DEF Ours, SubmittedOK, Stored, Record, PendingCapture, Requests
<1>2. /\ rows' \in [Leaf -> Seq(RowShape)]
      /\ \A l \in Leaf : /\ Len(rows'[l]) = Len(rows[l])
                         /\ l \notin leaves => rows'[l] = rows[l]
      /\ \A l \in leaves :
           /\ rec[l].pending.seq = Len(rows[l]) /\ Len(rows[l]) > 0
           /\ \A seq \in 1..Len(rows[l]) : seq # Len(rows[l]) => rows'[l][seq] = rows[l][seq]
           /\ rows'[l][Len(rows[l])] =
                [rows[l][Len(rows[l])] EXCEPT !.attempt = Prepares(leaves, l).attempt,
                                              !.candidate = Prepares(leaves, l), !.batch = batch]
           /\ Prepares(leaves, l) \in Candidate
  <2>1. Typed /\ RecordsOK
    BY DEF Stored
  <2> QED
    BY <1>1, <2>1, PreparedRows
<1>3. ASSUME NEW l \in leaves
      PROVE  /\ SubmittedOK(rec[l].pending) /\ Prepares(leaves, l) # None
             /\ rows'[l][rec[l].pending.seq].candidate = Prepares(leaves, l)
             /\ rows'[l][rec[l].pending.seq].batch = batch
             /\ rows'[l][rec[l].pending.seq].state = "pending"
  <2> DEFINE n == Len(rows[l])
             c == Prepares(leaves, l)
  <2>1. /\ SubmittedOK(rec[l].pending) /\ rows[l][rec[l].pending.seq].state = "pending"
        /\ rec[l].pending.seq = n
    BY <1>2 DEF Ours, Pending, Row
  <2>2. c \in Candidate /\ c # None
    BY <1>2, NoneAssumption
  <2>3. n \in 1..n
    <3>1. n \in Nat /\ n > 0
      BY <1>2, Numbers DEF Stored
    <3> QED
      BY <3>1
  <2>4. rows[l][n] \in RowShape
    BY <2>3, Numbers DEF Stored
  <2>5. rows'[l][n] = [rows[l][n] EXCEPT !.attempt = c.attempt, !.candidate = c, !.batch = batch]
    BY <1>2
  <2> HIDE DEF n, c
  <2>6. rows'[l][n].candidate = c /\ rows'[l][n].batch = batch /\ rows'[l][n].state = rows[l][n].state
    BY <2>4, <2>5 DEF RowShape
  <2> QED
    BY <2>1, <2>2, <2>6 DEF c
<1>4. ASSUME NEW l \in Leaf
      PROVE  ~Unacknowledged(rec[l], rows'[l])
  <2>1. CASE l \in leaves
    BY <1>3, <2>1 DEF Unacknowledged
  <2>2. CASE l \notin leaves
    BY <1>2, <2>2 DEF Open
  <2> QED
    BY <2>1, <2>2
<1> QED
  BY <1>2, <1>3, <1>4 DEF Open

\* A single candidate is still to be saved.
LEMMA PrepareSession ==
    ASSUME Stored, Session, NEW l \in Leaf, prepare(l)
    PROVE  Session'
<1>1. call # None /\ call.mode = "ready" /\ Ready
  BY DEF prepare, Ready, Visiting, At
<1>2. /\ call' = [step |-> "prepared", mode |-> "prepare", rest |-> {}, leaf |-> l, value |-> call.value]
      /\ call'.step = "prepared" /\ call'.mode = "prepare" /\ call'.rest = {} /\ call'.leaf = l
  BY <1>1 DEF prepare, Session, SessionOK
<1>3. Ours({l}) /\ {l} \in SUBSET Leaf
  <2>1. <<l, rec[l].pending.seq>> \in Requests({l})
    BY DEF Requests
  <2>2. Pending(l, rec[l].pending.seq) /\ Submitted(l)
    BY <2>1 DEF prepare, Preparable
  <2> QED
    BY <2>2 DEF Submitted, SubmittedOK, Ours
<1>4. rec' = rec /\ Prepared(Requests({l}), {})
  BY DEF prepare
<1>5. /\ ~Open' /\ SubmittedOK(rec'[l].pending)
      /\ rows'[l][rec'[l].pending.seq].candidate # None
      /\ rows'[l][rec'[l].pending.seq].batch = {}
  <2>1. l \in {l}
    OBVIOUS
  <2> QED
    BY <1>1, <1>3, <1>4, <2>1, ReadyFacts, PreparedSession
<1>6. SessionOK'
  BY <1>2 DEF SessionOK
<1>7. PassOK'
  BY <1>2, <1>5 DEF PassOK
<1>8. StepsOK'
  BY <1>2, <1>5 DEF StepsOK, l0, Submitting, Cancelling
<1> QED
  BY <1>6, <1>7, <1>8 DEF Session

\* The members of a batch are still to be saved.
LEMMA PrepareBatchSession ==
    ASSUME Stored, Session, NEW leaves \in SUBSET Leaf, prepare_batch(leaves)
    PROVE  Session'
<1> DEFINE batch == Candidates(Requests(leaves))
           c(l) == Prepares(leaves, l)
<1>1. Ready /\ rec' = rec /\ Prepared(Requests(leaves), Requests(leaves))
  BY DEF prepare_batch
<1>2. /\ call' = [step |-> "visit", mode |-> "assign", rest |-> leaves, leaf |-> None, value |-> batch]
      /\ call'.step = "visit" /\ call'.mode = "assign" /\ call'.rest = leaves /\ call'.value = batch
  BY DEF prepare_batch, Do
<1>3. Ours(leaves)
  <2>1. \A l \in leaves : <<l, rec[l].pending.seq>> \in Requests(leaves)
    BY DEF Requests
  <2>2. \A l \in leaves : Pending(l, rec[l].pending.seq) /\ Submitted(l)
    BY <2>1 DEF prepare_batch, Preparable
  <2> QED
    BY <2>2 DEF Submitted, SubmittedOK, Ours
<1>4. batch = {c(l) : l \in leaves}
  BY PreparedCandidates
<1>5. /\ ~Open'
      /\ \A l \in leaves :
           /\ SubmittedOK(rec'[l].pending) /\ c(l) \in Candidate
           /\ rows'[l][rec'[l].pending.seq].candidate = c(l)
           /\ rows'[l][rec'[l].pending.seq].batch = Requests(leaves)
  BY <1>1, <1>3, ReadyFacts, PreparedSession
<1>6. \A l \in leaves : /\ c(l).leaf = l /\ c(l).seq = rec[l].pending.seq
                        /\ Content(c(l)) = <<version, Composed(Requests(leaves))>>
  BY DEF Prepares, Content
<1> HIDE DEF batch, c
<1>7. Together(batch) /\ Covers(batch, leaves)
  BY <1>4, <1>5, <1>6 DEF Together, Covers
<1>8. {Request(d) : d \in batch} = Requests(leaves)
  <2>1. \A l \in leaves : Request(c(l)) = <<l, rec[l].pending.seq>>
    BY <1>6 DEF Request
  <2>2. {Request(d) : d \in batch} = {Request(c(l)) : l \in leaves}
    BY <1>4
  <2> QED
    BY <2>1, <2>2 DEF Requests
<1>9. \A d \in batch : AssignOK(d, batch, rec'[d.leaf].pending, rows'[d.leaf])
  BY <1>1, <1>4, <1>5, <1>6, <1>8 DEF AssignOK
<1>10. SessionOK'
  BY <1>2 DEF SessionOK, Passes
<1>11. PassOK'
  BY <1>2, <1>5 DEF PassOK
<1>12. StepsOK'
  BY <1>2, <1>7, <1>9 DEF StepsOK, Submitting, Cancelling
<1> QED
  BY <1>10, <1>11, <1>12 DEF Session

\* One of them is.
LEMMA MemberSession ==
    ASSUME Stored, Session, NEW l \in Leaf, SaveMember(l)
    PROVE  Session'
<1> DEFINE batch == call.value
           p == rec[l].pending
           q == rec'[l].pending
<1>1. call # None /\ call.mode = "assign" /\ call.step = "visit" /\ l \in call.rest
  BY DEF SaveMember, Visiting, At
<1>2. /\ call' = [step |-> call.step, mode |-> call.mode, rest |-> call.rest \ {l},
                  leaf |-> call.leaf, value |-> call.value]
      /\ call'.step = call.step /\ call'.mode = call.mode /\ call'.rest = call.rest \ {l}
      /\ call'.value = batch
  BY <1>1, NextDone DEF SaveMember, Session
<1>3. /\ Together(batch) /\ Covers(batch, call.rest)
      /\ \A d \in batch : AssignOK(d, batch, rec[d.leaf].pending, rows[d.leaf])
  BY <1>1 DEF Session, StepsOK
<1> HIDE DEF batch
<1>4. Member(batch, l) \in batch /\ Member(batch, l).leaf = l
  BY <1>1, <1>3, MemberOf
<1>5. SubmittedOK(p)
  BY <1>3, <1>4 DEF AssignOK
<1>6. rec[l] \in Record /\ rec \in [Leaf -> Record] /\ p \in PendingCapture /\ tipNode \in Checkpoint
  BY <1>5 DEF Stored, Typed, Record, SubmittedOK
<1>7. rows' = rows /\ \A k \in Leaf : k # l => rec'[k] = rec[k]
  BY <1>6 DEF SaveMember, Assigned, authority
<1>8. q = [p EXCEPT !.candidate = Member(batch, l), !.batch = batch, !.parent = tipNode, !.validation = None]
  BY <1>6 DEF SaveMember, Assigned, Record, batch
<1>9. q \in PendingCapture /\ q.seq = p.seq /\ q.submitted = p.submitted /\ q.aborting = p.aborting
  BY <1>3, <1>4, <1>6, <1>8 DEF PendingCapture, Together
<1>10. SubmittedOK(q)
  BY <1>5, <1>9, NoneAssumption DEF SubmittedOK
<1>11. Unacknowledged(rec'[l], rows[l]) <=> Unacknowledged(rec[l], rows[l])
  BY <1>5, <1>9, <1>10 DEF Unacknowledged, SubmittedOK
<1>12. ~Open'
  BY <1>1, <1>7, <1>11 DEF Open, Session, PassOK
<1>13. ASSUME NEW d \in batch
       PROVE  AssignOK(d, batch, rec'[d.leaf].pending, rows'[d.leaf])
  <2>1. AssignOK(d, batch, rec[d.leaf].pending, rows[d.leaf]) /\ d.leaf \in Leaf
    BY <1>3 DEF Together, Candidate
  <2> QED
    BY <1>7, <1>9, <1>10, <2>1 DEF AssignOK
<1>14. Covers(batch, call'.rest)
  BY <1>2, <1>3 DEF Covers
<1>15. SessionOK'
  BY <1>1, <1>2 DEF Session, SessionOK
<1>16. PassOK'
  BY <1>1, <1>2, <1>12 DEF PassOK
<1>17. StepsOK'
  BY <1>1, <1>2, <1>3, <1>13, <1>14 DEF StepsOK, Submitting, Cancelling
<1> QED
  BY <1>15, <1>16, <1>17 DEF Session

\* The verdict on one member holds for all, whose content it is.
LEMMA CheckBatchSession ==
    ASSUME Stored, Session, NEW batch \in HeldBatches, NEW first \in batch, check_batch(batch, first)
    PROVE  Session'
<1> DEFINE leaves == {c.leaf : c \in batch}
           x == [batch |-> batch, check |-> first]
<1>1. batch \in SUBSET Candidate
  BY HeldCandidates DEF Stored
<1>2. /\ call' = [step |-> "visit", mode |-> "validate", rest |-> leaves, leaf |-> None, value |-> x]
      /\ call'.step = "visit" /\ call'.mode = "validate" /\ call'.rest = leaves
      /\ call'.value.batch = batch /\ call'.value.check = first
  BY DEF check_batch, Do
<1>3. ASSUME NEW c \in batch
      PROVE  /\ rec[c.leaf].pending # None /\ rec[c.leaf].pending.candidate = c
             /\ c.leaf \in Leaf
             /\ \A d \in batch : Content(d) = Content(c)
             /\ rec[c.leaf].pending.validation # None =>
                  Good(rec[c.leaf].pending.validation.candidate, version, passed)
  <2>1. LET p == rec[c.leaf].pending
        IN  p # None /\ ~p.aborting /\ p.candidate = c /\ p.batch = batch
    BY DEF check_batch, batch_members
  <2> QED
    BY <1>1, <2>1, Assigned1
<1>4. Together(batch)
  BY <1>1, <1>3 DEF Together
<1>5. Good(first, version, passed)
  <2>1. [candidate |-> first, check |-> first] \in Validation
    BY <1>1 DEF Validation
  <2>2. rec[first.leaf].pending.validation = [candidate |-> first, check |-> first]
    BY DEF check_batch
  <2>3. rec[first.leaf].pending.validation # None /\ rec[first.leaf].pending.validation.candidate = first
    BY <2>1, <2>2, NoneAssumption
  <2> QED
    BY <1>3, <2>3
<1>6. ASSUME NEW c \in batch
      PROVE  Good(c, version, passed)
  <2>1. Content(c) = Content(first)
    BY <1>3
  <2>2. c.parent = first.parent
    BY <2>1 DEF Content
  <2> QED
    BY <1>5, <2>1, <2>2 DEF Good
<1>7. UNCHANGED <<rec, log, passed>> /\ version' = version
  BY DEF check_batch, authority, Rest, outside, version
<1>8. leaves \subseteq Leaf /\ Covers(batch, leaves)
  BY <1>3 DEF Covers
<1> HIDE DEF leaves, x
<1>9. SessionOK'
  BY <1>2, <1>8 DEF SessionOK, Passes
<1>10. PassOK'
  BY <1>2 DEF PassOK
<1>11. StepsOK'
  BY <1>2, <1>3, <1>4, <1>6, <1>7, <1>8 DEF StepsOK, Submitting, Cancelling
<1> QED
  BY <1>9, <1>10, <1>11 DEF Session

\* One of them has it.
LEMMA ValidationSession ==
    ASSUME Stored, Session, NEW l \in Leaf, SaveValidation(l)
    PROVE  Session'
<1> DEFINE batch == call.value.batch
           x == [candidate |-> Member(batch, l), check |-> call.value.check]
<1>1. call # None /\ call.mode = "validate" /\ call.step = "visit" /\ l \in call.rest
  BY DEF SaveValidation, Visiting, At
<1>2. /\ call' = [step |-> call.step, mode |-> call.mode, rest |-> call.rest \ {l},
                  leaf |-> call.leaf, value |-> call.value]
      /\ call'.step = call.step /\ call'.mode = call.mode /\ call'.rest = call.rest \ {l}
      /\ call'.value = call.value
  BY <1>1, NextDone DEF SaveValidation, Session
<1>3. /\ Together(batch) /\ Covers(batch, call.rest) /\ call.value.check \in batch
      /\ \A c \in batch : rec[c.leaf].pending # None /\ Good(c, version, passed)
  BY <1>1 DEF Session, StepsOK
<1> HIDE DEF batch
<1>4. Member(batch, l) \in batch /\ Member(batch, l).leaf = l
  BY <1>1, <1>3, MemberOf
<1>5. x \in Validation
  BY <1>3, <1>4 DEF Validation, Together
<1>6. rec[l] \in Record /\ rec \in [Leaf -> Record] /\ rec[l].pending \in PendingCapture
  BY <1>3, <1>4 DEF Stored, Typed, Record
<1>7. rec' = [rec EXCEPT ![l].pending.validation = x]
  BY DEF SaveValidation, batch
<1> HIDE DEF x
<1>8. /\ rec'[l].pending = [rec[l].pending EXCEPT !.validation = x]
      /\ \A k \in Leaf : k # l => rec'[k] = rec[k]
  BY <1>6, <1>7 DEF Record
<1>9. rec'[l].pending # None
  <2>1. rec'[l].pending \in PendingCapture
    BY <1>5, <1>6, <1>8 DEF PendingCapture
  <2> QED
    BY <2>1, NoneAssumption
<1>10. version' = version /\ passed' = passed
  BY DEF SaveValidation, authority, Rest, outside, version
<1>11. \A c \in batch : rec'[c.leaf].pending # None
  BY <1>3, <1>8, <1>9 DEF Together, Candidate
<1>12. Covers(batch, call'.rest)
  BY <1>2, <1>3 DEF Covers
<1>13. SessionOK'
  BY <1>1, <1>2 DEF Session, SessionOK
<1>14. PassOK'
  BY <1>1, <1>2 DEF PassOK
<1>15. StepsOK'
  BY <1>1, <1>2, <1>3, <1>10, <1>11, <1>12 DEF StepsOK, Submitting, Cancelling, batch
<1> QED
  BY <1>13, <1>14, <1>15 DEF Session

\* A publication is to be finished ...
LEMMA CommitSession ==
    ASSUME Stored, Session, NEW c \in Held, commit(c)
    PROVE  Session'
<1>1. c \in Candidate /\ c.leaf \in Leaf
  BY HeldCandidates DEF Stored, Candidate
<1>2. \A l \in Leaf : Unacknowledged(rec[l], rows'[l]) <=> \E d \in {c} : d.leaf = l
  BY CommitPublishable, PublishStored
<1>3. /\ call' = [step |-> "reference", mode |-> "finish", rest |-> {}, leaf |-> c.leaf, value |-> None]
      /\ call'.step = "reference" /\ call'.mode = "finish" /\ call'.rest = {} /\ call'.leaf = c.leaf
  BY DEF commit, Do
<1>4. rec' = rec
  BY DEF commit
<1>5. SessionOK'
  BY <1>1, <1>3 DEF SessionOK, Finishing
<1>6. Left' = {c.leaf}
  BY <1>3 DEF Left
<1>7. PassOK'
  BY <1>1, <1>2, <1>3, <1>4, <1>6 DEF PassOK
<1>8. StepsOK'
  BY <1>3 DEF StepsOK, Submitting, Cancelling
<1> QED
  BY <1>5, <1>7, <1>8 DEF Session

\* ... for each member.
LEMMA CommitBatchSession ==
    ASSUME Stored, Session, NEW batch \in HeldBatches, commit_batch(batch)
    PROVE  Session'
<1> DEFINE leaves == {c.leaf : c \in batch}
<1>1. batch \in SUBSET Candidate /\ leaves \subseteq Leaf
  BY HeldCandidates DEF Stored, Candidate
<1>2. \A l \in Leaf : Unacknowledged(rec[l], rows'[l]) <=> \E c \in batch : c.leaf = l
  BY CommitBatchPublishable, PublishStored
<1>3. /\ call' = [step |-> "visit", mode |-> "finish", rest |-> leaves, leaf |-> None, value |-> None]
      /\ call'.step = "visit" /\ call'.mode = "finish" /\ call'.rest = leaves
  BY DEF commit_batch, Do
<1>4. rec' = rec
  BY DEF commit_batch
<1>5. SessionOK'
  BY <1>1, <1>3 DEF SessionOK, Passes
<1>6. Left' = leaves
  BY <1>3 DEF Left
<1>7. PassOK'
  BY <1>1, <1>2, <1>3, <1>4, <1>6 DEF PassOK
<1>8. StepsOK'
  BY <1>3 DEF StepsOK, Submitting, Cancelling
<1> QED
  BY <1>5, <1>7, <1>8 DEF Session

\* The files of a publication are written one after the other.
LEMMA FilesSession ==
    ASSUME Stored, Session, call # None, call.step \in Finishing,
           NEW s \in {"receipt", "tip", "acknowledge"}, Step(s), UNCHANGED <<rec, rows, log>>,
           ref' = Newest, s # "receipt" => Recorded(version)', s = "acknowledge" => tipNode' = Newest
    PROVE  Session'
<1>1. /\ call' = [step |-> s, mode |-> call.mode, rest |-> call.rest, leaf |-> call.leaf, value |-> call.value]
      /\ call'.step = s /\ call'.mode = call.mode /\ call'.rest = call.rest /\ call'.leaf = call.leaf
  BY NextStep DEF Session, Step
<1>2. call.mode \in {"finish", "publications"} /\ call.step # "visit"
  BY DEF Session, SessionOK, Submitting, Cancelling, Finishing
<1>3. SessionOK'
  BY <1>1, <1>2 DEF Session, SessionOK, Finishing
<1>4. Left' = Left
  BY <1>1, <1>2 DEF Left
<1>5. PassOK'
  BY <1>1, <1>2, <1>4 DEF Session, PassOK
<1>6. Newest' = Newest
  BY DEF Newest, version, tip
<1>7. StepsOK'
  BY <1>1, <1>2, <1>6 DEF StepsOK, Submitting, Cancelling
<1> QED
  BY <1>3, <1>5, <1>7 DEF Session

\* The reference is set ...
LEMMA SetRefSession ==
    ASSUME Stored, Session, SetRef
    PROVE  Session'
<1>1. CASE call' = None
  BY <1>1, NoSession
<1>2. CASE call' # None
  <2>1. call # None /\ call.step \in Finishing
    BY DEF SetRef, At, Finishing
  <2>2. Step("receipt") /\ UNCHANGED <<rec, rows, log>>
    BY <1>2 DEF SetRef, Refuse, End, authority
  <2>3. ref' = Newest
    BY <1>2, SetRefStored
  <2> QED
    BY <2>1, <2>2, <2>3, FilesSession
<1> QED
  BY <1>1, <1>2

\* ... then the receipt written ...
LEMMA WriteReceiptSession ==
    ASSUME Stored, Session, WriteReceipt
    PROVE  Session'
<1>1. CASE call' = None
  BY <1>1, NoSession
<1>2. CASE call' # None
  <2>1. call # None /\ call.step = "receipt" /\ call.step \in Finishing
    BY DEF WriteReceipt, At, Finishing
  <2>2. Step("tip") /\ UNCHANGED <<rec, rows, log, ref>>
    BY <1>2 DEF WriteReceipt, Refuse, End, authority
  <2>3. Recorded(version)'
    BY <1>2, WriteReceiptStored
  <2>4. ref = Newest
    BY <2>1 DEF Session, StepsOK
  <2> QED
    BY <2>1, <2>2, <2>3, <2>4, FilesSession
<1> QED
  BY <1>1, <1>2

\* ... then the tip ...
LEMMA WriteTipSession ==
    ASSUME Stored, Session, WriteTip
    PROVE  Session'
<1>1. call # None /\ call.step = "tip" /\ call.step \in Finishing
  BY DEF WriteTip, At, Finishing
<1>2. Step("acknowledge") /\ UNCHANGED <<rec, rows, log, ref, receipts>>
  BY DEF WriteTip, authority
<1>3. ref = Newest /\ Recorded(version)
  BY <1>1 DEF Session, StepsOK
<1>4. Recorded(version)'
  BY <1>2, <1>3 DEF Recorded, version
<1>5. tipNode' = Newest
  BY WriteTipStored
<1> QED
  BY <1>1, <1>2, <1>3, <1>4, <1>5, FilesSession

\* ... then the record.
LEMMA AcknowledgeSession ==
    ASSUME Stored, Session, Acknowledge
    PROVE  Session'
<1> DEFINE t == call.leaf
<1>1. call # None /\ call.step = "acknowledge" /\ Proceed /\ rows' = rows
  BY DEF Acknowledge, At, authority
<1>2. rec'[t].pending = None /\ \A l \in Leaf : l # t => rec'[l] = rec[l]
  BY AcknowledgeStored DEF l0
<1>3. CASE call' = None
  BY <1>3, NoSession
<1>4. CASE /\ call.mode \in {"captures", "publications", "finish"}
           /\ call' = [step |-> "visit", mode |-> call.mode, rest |-> call.rest, leaf |-> None, value |-> call.value]
           /\ call'.step = "visit" /\ call'.mode = call.mode /\ call'.rest = call.rest
  <2>1. /\ call.mode \in {"publications", "finish"} /\ t \in Leaf \ call.rest /\ call.rest \subseteq Leaf
        /\ call.step # "visit"
    BY <1>1 DEF Session, SessionOK, Submitting, Cancelling, Finishing
  <2>2. SessionOK'
    BY <1>4, <2>1 DEF SessionOK, Passes
  <2>3. Left' = call.rest /\ Left = call.rest \cup {t}
    BY <1>4, <2>1 DEF Left
  <2>4. ~Unsettled(rec'[t]) /\ ~Unacknowledged(rec'[t], rows[t])
    BY <1>2 DEF Unsettled, Unacknowledged
  <2>5. ASSUME call.mode = "publications", NEW l \in Leaf
        PROVE  ~Unsettled(rec'[l]) /\ (Unacknowledged(rec'[l], rows[l]) => l \in call.rest)
    <3>1. CASE l = t
      BY <2>4, <3>1
    <3>2. CASE l # t
      <4>1. ~Unsettled(rec[l]) /\ (Unacknowledged(rec[l], rows[l]) => l \in Left)
        BY <1>1, <2>5 DEF Session, PassOK
      <4> QED
        BY <1>2, <2>3, <3>2, <4>1
    <3> QED
      BY <3>1, <3>2
  <2>6. \A l \in call.rest : Unacknowledged(rec'[l], rows[l])
    <3>1. \A l \in Left : Unacknowledged(rec[l], rows[l])
      BY <1>1, <2>1 DEF Session, PassOK
    <3> QED
      BY <1>2, <2>1, <2>3, <3>1
  <2>7. PassOK'
    BY <1>1, <1>4, <2>1, <2>3, <2>5, <2>6 DEF PassOK
  <2>8. StepsOK'
    BY <1>4, <2>1 DEF StepsOK, Submitting, Cancelling
  <2> QED
    BY <2>2, <2>7, <2>8 DEF Session
<1> QED
  BY <1>1, <1>3, <1>4, NextProceed DEF Session

\* Together: whatever step is taken, also between the session's own.
LEMMA SessionStep ==
    ASSUME Stored, Session, [Next]_vars
    PROVE  Session'
<1>1. CASE UNCHANGED vars
  BY <1>1, QuietSession DEF vars, authority, workspace, outside
<1>2. CASE Return \/ Crash \/ SavePrepared
  <2>1. call' = None
    BY <1>2 DEF Return, Crash, SavePrepared, Refuse, End
  <2> QED
    BY <2>1, NoSession
<1>3. CASE \/ Lock \/ Visited \/ SaveIntent \/ StageEdit \/ Propose \/ SaveSubmitted
           \/ cancel_capture \/ SaveCancelled \/ SetRef \/ WriteReceipt \/ WriteTip \/ Acknowledge
  BY <1>3, LockSession, VisitedSession, IntentSession, StageSession, ProposeSession, SubmittedSession,
     CancelSession, CancelledSession, SetRefSession, WriteReceiptSession, WriteTipSession, AcknowledgeSession
<1>4. CASE \E l \in Leaf : Revoke(l)
  BY <1>4, QuietSession DEF Revoke, workspace, outside
<1>5. CASE \E l \in Leaf : BeginCheck(l)
  BY <1>5, NoSession DEF BeginCheck, End
<1>6. CASE \E l \in Leaf : \/ RecoverCapture(l) \/ abort(l) \/ prepare(l) \/ SaveMember(l)
                           \/ SaveValidation(l) \/ FinishMember(l) \/ \E v \in Value : capture(l, v)
  BY <1>6, RecoverSession, AbortSession, PrepareSession, MemberSession, ValidationSession, FinishSession,
     CaptureSession
<1>7. CASE \E leaves \in SUBSET Leaf : prepare_batch(leaves)
  BY <1>7, PrepareBatchSession
<1>8. CASE \E c \in checking : FailCheck(c)
  BY <1>8, QuietSession DEF FailCheck, authority, workspace
<1>9. CASE \E c \in checking : seal_check(c)
  BY <1>9, NoSession DEF seal_check, End
<1>10. CASE \E c \in Held : commit(c)
  BY <1>10, CommitSession
<1>11. CASE \E batch \in HeldBatches : commit_batch(batch) \/ \E c \in batch : check_batch(batch, c)
  BY <1>11, CommitBatchSession, CheckBatchSession
<1> QED
  BY <1>1, <1>2, <1>3, <1>4, <1>5, <1>6, <1>7, <1>8, <1>9, <1>10, <1>11 DEF Next

-----------------------------------------------------------------------------
\* The invariant, and what it says of the system.

\* A workspace starts with nothing captured and nothing published.
LEMMA InitStored ==
    ASSUME Init
    PROVE  Stored
<1> DEFINE tree == [l \in Leaf |-> Initial]
<1>1. tree \in Tree /\ \A l \in Leaf : tree[l] = Initial
  BY InitialAssumption DEF Tree
<1>2. /\ rows = [l \in Leaf |-> <<>>] /\ lease = [l \in Leaf |-> 0] /\ next = 1
      /\ log = <<tree>> /\ staged = tree
      /\ rec = [l \in Leaf |-> [origin |-> Initial, sequence |-> 1, token |-> 0,
                                pending |-> None, last |-> None]]
      /\ tipNode = Node(0, tree) /\ ref = tipNode /\ receipts = <<>>
      /\ checking = {} /\ passed = {}
  BY DEF Init
<1> HIDE DEF tree
<1>3. log \in Seq(Tree) /\ Len(log) = 1 /\ log[1] = tree /\ log # <<>>
  BY <1>1, <1>2
<1>4. version = 0 /\ tip = tree
  BY <1>3 DEF version, tip
<1>5. \A l \in Leaf : rows[l] = <<>> /\ rows[l] \in Seq(RowShape) /\ Len(rows[l]) = 0
  <2> HIDE DEF RowShape
  <2> QED
    BY <1>2
<1>6. \A l \in Leaf : /\ rec[l] \in Record /\ rec[l].sequence = 1 /\ rec[l].pending = None
                      /\ rec[l].last = None
  BY <1>2, InitialAssumption DEF Record
<1>7. rows \in [Leaf -> Seq(RowShape)] /\ rec \in [Leaf -> Record] /\ lease \in [Leaf -> Nat]
  BY <1>2, <1>5, <1>6
<1>8. tipNode \in Checkpoint /\ ref \in Checkpoint /\ tipNode = Newest /\ ref = Newest
  BY <1>1, <1>2, <1>4 DEF Node, Checkpoint, Newest
<1>9. Typed
  BY <1>1, <1>2, <1>3, <1>7, <1>8 DEF Typed
<1>10. RecordsOK /\ AssignmentsOK /\ TablesOK /\ VerdictsOK
  BY <1>2, <1>5, <1>6 DEF RecordsOK, RecordOK, AssignmentsOK, AssignmentOK, TablesOK, RowsOK,
     VerdictsOK, VerdictOK
<1>11. \A l \in Leaf : ~Unacknowledged(rec[l], rows[l]) /\ AcknowledgmentOK(l, rec[l], rows[l], log)
  BY <1>5, <1>6 DEF Unacknowledged, AcknowledgmentOK
<1>12. PublicationsOK
  BY <1>11 DEF PublicationsOK
<1>13. ReceiptsOK /\ NodesOK
  <2>1. DOMAIN receipts = {} /\ 1..version = {}
    BY <1>2, <1>4
  <2> QED
    BY <1>8, <2>1 DEF ReceiptsOK, NodesOK
<1> QED
  BY <1>9, <1>10, <1>12, <1>13 DEF Stored

\* Nor is it locked.
LEMMA InitSession ==
    ASSUME Init
    PROVE  Session
BY DEF Init, Session, SessionOK, PassOK, StepsOK

\* What is stored, and what a session knows, whatever is cut short: captures,
\* cancellations, preparations, verdicts, publications and reconciliation itself
\* (captures.rs, publications.rs, batches.rs, checks.rs, recovery.rs).
THEOREM Invariance == Spec => []IInv
<1>1. Init => IInv
  BY InitStored, InitSession DEF IInv
<1>2. IInv /\ [Next]_vars => IInv'
  BY StoredStep, SessionStep DEF IInv
<1> QED
  BY <1>1, <1>2, PTL DEF Spec

\* A session that has reconciled finds every leaf's record in agreement with the
\* authority's requests, wherever earlier ones died between writing the one and
\* the other (captures.rs submit_capture, cancel_capture; recovery.rs reconcile).
THEOREM RecordsReconciled == Spec => []ReconciledRecords
<1>1. IInv => ReconciledRecords
  <2> SUFFICES ASSUME IInv, Ready, NEW l \in Leaf
               PROVE  LET p == rec[l].pending
                          last == Len(rows[l])
                      IN  IF p = None
                          THEN rec[l].sequence = last + 1 /\ \A seq \in 1..last : ~Pending(l, seq)
                          ELSE /\ p.submitted /\ ~p.aborting /\ p.seq = last /\ rec[l].sequence = last
                               /\ Pending(l, last) /\ Row(l, last).value = p.value
                               /\ \A seq \in 1..(last - 1) : ~Pending(l, seq)
    BY DEF ReconciledRecords
  <2> DEFINE p == rec[l].pending
             n == Len(rows[l])
  <2>1. Stored /\ Session
    BY DEF IInv
  <2>2. ~Unsettled(rec[l]) /\ ~Unacknowledged(rec[l], rows[l])
    BY <2>1, ReadyFacts DEF Open
  <2>3. RecordOK(rec[l], rows[l]) /\ rec[l] \in Record /\ n \in Nat /\ rows[l] \in Seq(RowShape)
    BY <2>1, Numbers DEF Stored, RecordsOK
  <2>4. CASE p = None
    BY <2>3, <2>4 DEF RecordOK, Pending, Row
  <2>5. CASE p # None
    <3>1. p \in PendingCapture /\ p.submitted /\ ~p.aborting
      BY <2>2, <2>3, <2>5 DEF Unsettled, Record, PendingCapture
    <3>2. p.seq = n /\ n > 0 /\ rec[l].sequence = n
      BY <2>3, <2>5, <3>1 DEF RecordOK
    <3>3. rows[l][n].state # "aborted" /\ rows[l][n].value = p.value
      BY <2>3, <2>5, <3>1, <3>2 DEF RecordOK
    <3>4. rows[l][n].state # "committed"
      BY <2>2, <2>3, <2>5, <3>1, <3>2 DEF Unacknowledged
    <3>5. rows[l][n] \in RowShape
      <4>1. n \in 1..n
        BY <2>3, <3>2
      <4> QED
        BY <2>1, <4>1, Numbers DEF Stored
    <3>6. Pending(l, n) /\ Row(l, n).value = p.value
      BY <2>3, <3>3, <3>4, <3>5 DEF Pending, Known, Row, RowShape
    <3>7. \A seq \in 1..(n - 1) : ~Pending(l, seq)
      <4>1. \A seq \in 1..n : seq # p.seq => rows[l][seq].state # "pending"
        BY <2>3, <2>5 DEF RecordOK
      <4>2. \A seq \in 1..(n - 1) : seq \in 1..n /\ seq # n
        BY <2>3
      <4> HIDE DEF n, p
      <4> QED
        BY <3>2, <4>1, <4>2 DEF Pending, Row
    <3> QED
      BY <2>5, <3>1, <3>2, <3>6, <3>7
  <2> QED
    BY <2>4, <2>5
<1> QED
  BY <1>1, Invariance, PTL

\* A session that has reconciled finds every publication acknowledged in full, by
\* reference, receipt, tip and record, of every member of a batch
\* (publications.rs finish_publication, recovery.rs reconcile).
THEOREM PublicationsAcknowledged == Spec => []AcksFollowPublication
<1>1. IInv => AcksFollowPublication
  <2> SUFFICES ASSUME IInv, Ready
               PROVE  /\ tipNode = Node(version, tip) /\ ref = tipNode
                      /\ DOMAIN receipts = 1..version
                      /\ \A v \in 1..version :
                            {<<r.leaf, r.seq>> : r \in receipts[v]} =
                              {q \in Requested : Committed(q[1], q[2]) /\ Row(q[1], q[2]).version = v}
                      /\ \A l \in Leaf :
                            LET published == {seq \in 1..Len(rows[l]) : Committed(l, seq)}
                            IN  IF published = {} THEN rec[l].last = None
                                ELSE /\ rec[l].last.seq \in published
                                     /\ \A seq \in published : seq <= rec[l].last.seq
                                     /\ rec[l].last.version = Row(l, rec[l].last.seq).version
                                     /\ rec[l].origin = tip[l]
    BY DEF AcksFollowPublication
  <2>1. Stored /\ ~Open
    BY ReadyFacts DEF IInv
  <2>2. tipNode = Node(version, tip) /\ ref = tipNode
    BY <2>1 DEF Stored, NodesOK, Newest
  <2>3. DOMAIN receipts = 1..version /\ \A v \in 1..version : Identities(receipts[v]) = PublishedAs(rows, v)
    BY <2>1 DEF Stored, ReceiptsOK, Recorded
  <2>4. \A l \in Leaf : DOMAIN rows[l] = 1..Len(rows[l])
    BY <2>1, Numbers DEF Stored
  <2>5. ASSUME NEW v
        PROVE  PublishedAs(rows, v) = {q \in Requested : Committed(q[1], q[2]) /\ Row(q[1], q[2]).version = v}
    <3>1. ASSUME NEW q \in PublishedAs(rows, v)
          PROVE  q \in Requested /\ Committed(q[1], q[2]) /\ Row(q[1], q[2]).version = v
      <4>1. PICK l \in Leaf : \E seq \in 1..Len(rows[l]) : q = <<l, seq>>
        BY <3>1, PublishedShape
      <4>2. PICK seq \in 1..Len(rows[l]) : q = <<l, seq>>
        BY <4>1
      <4>3. rows[l][seq].state = "committed" /\ rows[l][seq].version = v
        <5>1. <<l, seq>> \in PublishedAs(rows, v)
          BY <3>1, <4>2
        <5>2. \A table, i : <<l, seq>> \in PublishedAs(table, i) =>
                             table[l][seq].state = "committed" /\ table[l][seq].version = i
          BY <4>1 DEF PublishedAs
        <5> QED
          BY <5>1, <5>2
      <4>4. q \in Requested
        BY <2>4, <4>2 DEF Requested
      <4>5. seq <= Len(rows[l])
        BY <2>1, Numbers DEF Stored
      <4> QED
        BY <4>2, <4>3, <4>4, <4>5 DEF Committed, Known, Row
    <3>2. ASSUME NEW q \in Requested, Committed(q[1], q[2]), Row(q[1], q[2]).version = v
          PROVE  q \in PublishedAs(rows, v)
      <4>1. PICK l \in Leaf : \E seq \in DOMAIN rows[l] : q = <<l, seq>>
        BY <3>2 DEF Requested
      <4>2. PICK seq \in 1..Len(rows[l]) : q = <<l, seq>>
        BY <2>4, <4>1
      <4>3. rows[l][seq].state = "committed" /\ rows[l][seq].version = v
        BY <3>2, <4>2 DEF Committed, Row
      <4> QED
        BY <4>2, <4>3, InPublished
    <3> QED
      BY <3>1, <3>2
  <2>6. ASSUME NEW l \in Leaf
        PROVE  LET published == {seq \in 1..Len(rows[l]) : Committed(l, seq)}
               IN  IF published = {} THEN rec[l].last = None
                   ELSE /\ rec[l].last.seq \in published
                        /\ \A seq \in published : seq <= rec[l].last.seq
                        /\ rec[l].last.version = Row(l, rec[l].last.seq).version
                        /\ rec[l].origin = tip[l]
    <3>1. AcknowledgmentOK(l, rec[l], rows[l], log)
      BY <2>1 DEF Stored, PublicationsOK, Open
    <3>2. Len(rows[l]) \in Nat /\ tip = log[Len(log)]
      BY <2>1, Numbers DEF Stored
    <3>3. {seq \in 1..Len(rows[l]) : Committed(l, seq)}
            = {seq \in 1..Len(rows[l]) : rows[l][seq].state = "committed"}
      BY <3>2 DEF Committed, Known, Row
    <3> QED
      BY <3>1, <3>2, <3>3 DEF AcknowledgmentOK, Row
  <2> QED
    BY <2>2, <2>3, <2>5, <2>6 DEF Identities
<1> QED
  BY <1>1, Invariance, PTL

\* Only a publication adds to the log.
LEMMA LogStep ==
    ASSUME Stored, Session, [Next]_vars, log' # log
    PROVE  <<version, log'[Len(log')]>> \in passed
<1>1. ASSUME NEW batch \in SUBSET Candidate, batch # {}, Publish(batch),
             \A c \in batch : Content(c) \in passed /\ c.parent = version
      PROVE  <<version, log'[Len(log')]>> \in passed
  <2> DEFINE c == CHOOSE c \in batch : TRUE
  <2>1. c \in batch
    BY <1>1
  <2>2. log' = Append(log, c.root)
    BY <1>1 DEF Publish
  <2> HIDE DEF c
  <2>3. c.root \in Tree /\ log \in Seq(Tree)
    BY <1>1, <2>1 DEF Candidate, Stored, Typed
  <2>4. log'[Len(log')] = c.root
    BY <2>2, <2>3
  <2> QED
    BY <1>1, <2>1, <2>4 DEF Content
<1>2. CASE \E c \in Held : commit(c)
  <2>1. PICK c \in Held : commit(c)
    BY <1>2
  <2>2. {c} \in SUBSET Candidate /\ Publish({c}) /\ Content(c) \in passed /\ c.parent = version
    BY <2>1, CommitPublishable
  <2> QED
    BY <1>1, <2>2
<1>3. CASE \E batch \in HeldBatches : commit_batch(batch)
  <2>1. PICK batch \in HeldBatches : commit_batch(batch)
    BY <1>3
  <2>2. /\ batch \in SUBSET Candidate /\ Publish(batch) /\ batch # {}
        /\ \A c \in batch : Content(c) \in passed /\ c.parent = version
    BY <2>1, CommitBatchPublishable DEF Publishable
  <2> QED
    BY <1>1, <2>2
<1>4. ~ UNCHANGED vars
  BY DEF vars, authority
<1>5. ~ (Lock \/ Return \/ Crash \/ Visited \/ SaveIntent \/ StageEdit \/ Propose \/ SaveSubmitted
         \/ cancel_capture \/ SaveCancelled \/ SavePrepared)
  BY DEF Lock, Return, Crash, Visited, SaveIntent, StageEdit, Propose, SaveSubmitted, cancel_capture,
     SaveCancelled, SavePrepared, Refuse, authority
<1>6. ~ (SetRef \/ WriteReceipt \/ WriteTip \/ Acknowledge)
  BY DEF SetRef, WriteReceipt, WriteTip, Acknowledge, Refuse, authority
<1>7. \A l \in Leaf : ~ (\/ Revoke(l) \/ RecoverCapture(l) \/ abort(l) \/ prepare(l)
                         \/ SaveMember(l) \/ BeginCheck(l) \/ SaveValidation(l) \/ FinishMember(l)
                         \/ \E v \in Value : capture(l, v))
  BY DEF Revoke, RecoverCapture, abort, prepare, SaveMember, BeginCheck, SaveValidation, FinishMember,
     capture, authority
<1>8. \A leaves \in SUBSET Leaf : ~prepare_batch(leaves)
  BY DEF prepare_batch
<1>9. \A c \in checking : ~FailCheck(c) /\ ~seal_check(c)
  BY DEF FailCheck, seal_check, authority
<1>10. \A batch \in HeldBatches : \A c \in batch : ~check_batch(batch, c)
  BY DEF check_batch, authority
<1> QED
  BY <1>2, <1>3, <1>4, <1>5, <1>6, <1>7, <1>8, <1>9, <1>10 DEF Next

\* Whatever tree is published has passed a check on top of the very epoch that it
\* replaces (publications.rs commit, batches.rs commit_batch, checks.rs
\* seal_check, check_batch).
THEOREM CheckedBeforePublished == Spec => PublishedWasChecked
<1>1. IInv /\ [Next]_vars => [log' # log => <<version, log'[Len(log')]>> \in passed]_vars
  BY LogStep DEF IInv
<1> QED
  BY <1>1, Invariance, PTL DEF Spec, PublishedWasChecked
=============================================================================
