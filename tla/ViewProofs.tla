----------------------------- MODULE ViewProofs -----------------------------
(***************************************************************************)
(* What holds of journaled views for every set of paths and values, every  *)
(* initial tree, and any number of edits, revocations, sessions and kills: *)
(* no edit is overwritten, and once a session is through, the files are    *)
(* what the leaf's record says and every reservation is in it.             *)
(*                                                                         *)
(* A process may die after each write, also while it recovers, so the      *)
(* invariant has two parts.  LeasesOK and FilesOK are about what is on     *)
(* disk and in the authority, and hold whether or not anybody lives:       *)
(* every reservation is known to the record or was made by the journal's   *)
(* acquisition, and every file is as the record says or as the journal's   *)
(* change left it.  CallOK is about what the session that holds the lock   *)
(* knows besides at each of its steps, and says nothing once it is dead.   *)
(***************************************************************************)
EXTENDS Views, TLAPS

-----------------------------------------------------------------------------
\* Shapes of the values.

SessionShape(c) ==
    c = [step |-> c.step, recovering |-> c.recovering, choices |-> c.choices,
         plan |-> c.plan, finished |-> c.finished]

Typed ==
    /\ disk \in Files /\ tip \in Files /\ kept \in [Path -> Image] /\ mine \subseteq Path
    /\ rec \in LeafRecord /\ lease \in [Path -> {None, Other} \cup Grant]
    /\ next \in Nat /\ version \in Nat /\ head \in Nat
    /\ rec.head <= version /\ head <= version
    /\ failure \in {None, "crash", "refused", "blocked"}
    /\ journal \in Journal \cup {None}
    /\ call # None => SessionShape(call)

\* The definitions below are of a path p, its reservation g, a leaf record r,
\* a journal j, and of parts of the state where these are not enough: the
\* reservations l, the next token n, the version v, the files d and the
\* paths w that the user has written.

-----------------------------------------------------------------------------
\* Reservations.

\* The leaf's record has the reservation, and it is acknowledged.
Known(p, g, r) ==
    g.activated /\ p \in DOMAIN r.grants /\ r.grants[p].token = g.token

\* The acquisition in the journal made the reservation.
Fresh(p, g, r, j) ==
    /\ j # None /\ j.kind = "acquire" /\ p \in j.paths
    /\ g.token \notin j.tokens
    /\ p \in DOMAIN r.grants => r.grants[p].token # g.token

\* A captured path differs from its origin, which its reservation names.
CaptureOK(p, g, r) ==
    p \in DOMAIN r.pending =>
        /\ r.pending[p] # r.origins[p]
        /\ Ours(g) => g.origin = r.origins[p]

LeaseOK(p, g, r, j, n) ==
    /\ Ours(g) => g.token < n /\ (Known(p, g, r) \/ Fresh(p, g, r, j))
    /\ p \in DOMAIN r.grants => r.grants[p].token < n
    /\ CaptureOK(p, g, r)

LeasesOK == \A p \in Path : LeaseOK(p, lease[p], rec, journal, next)

AllKnown(l, r) == \A p \in Path : Ours(l[p]) => Known(p, l[p], r)

-----------------------------------------------------------------------------
\* Plans: what a journal says once its change set is known.

\* The reservations it lists are those the authority made, and the record to
\* be written has them.
GrantOK(p, g, j, n) ==
    /\ p \in DOMAIN j.grants =>
          j.grants[p].token < n /\ (Ours(g) => g.token = j.grants[p].token)
    /\ j.kind = "acquire" =>
          /\ p \in DOMAIN j.grants <=> p \in j.paths
          /\ p \in DOMAIN j.after.grants <=> p \in j.paths \/ p \in DOMAIN j.before.grants
          /\ p \in j.paths => j.after.grants[p].token = j.grants[p].token
          /\ p \in DOMAIN j.before.grants /\ p \notin j.paths =>
                j.after.grants[p] = j.before.grants[p]

AfterOK(j, v) ==
    /\ j.after \in LeafRecord /\ j.after.head <= v
    /\ j.kind # "sync" => j.after.head = j.before.head
    /\ j.kind = "discard" => j.after = j.before
    /\ j.kind # "acquire" => DOMAIN j.grants = {} /\ j.after.grants = j.before.grants
    /\ j.after.pending = j.before.pending
    /\ \A p \in DOMAIN j.before.pending : j.after.origins[p] = j.before.origins[p]

\* One change, c, of path p: what it is to replace and by what.
ChangeOK(p, c, r, j, w) ==
    /\ c.before = c.after \/ p \in j.gives \/ c.before = Baseline(j.before, p)
    /\ p \in j.gives \/ p \notin w \cup j.takes => c.after = Baseline(j.after, p)
    /\ p \notin w /\ r # j.after => c.before = Baseline(j.before, p)

PlanOK(changes, l, r, j, n, v, w) ==
    /\ changes \in Changes
    /\ AfterOK(j, v)
    /\ \A p \in Path :
          /\ GrantOK(p, l[p], j, n)
          /\ IF p \in DOMAIN changes THEN ChangeOK(p, changes[p], r, j, w)
             ELSE Baseline(j.after, p) = Baseline(j.before, p)

-----------------------------------------------------------------------------
\* Files.

\* Paths the user has no private value at are as the record says.
AtRest(d, r, w) == \A p \in Path \ w : d[p] = Baseline(r, p)

Changed(p, j) == j.install # None /\ p \in DOMAIN j.install

\* A file is as the record says, or the change of it is made.
FileOK(p, x, r, j) ==
    x = Baseline(r, p) \/ (Changed(p, j) /\ x = j.install[p].after)

\* EditsSurvive of one path: it holds x and the user last had k.
KeptOK(p, x, k, j) ==
    x # k =>
        /\ Changed(p, j) /\ {x, k} \subseteq {j.install[p].before, j.install[p].after}
        /\ k = j.install[p].before => p \in j.gives \/ k = Baseline(j.before, p)

\* What the journal asks for has yet to be recorded.
Undone(r, j) == r # j.after \/ j.kind = "discard"

FilesOK ==
    IF journal = None
    THEN head = rec.head /\ AtRest(disk, rec, mine) /\ disk = kept
    ELSE /\ rec \in {journal.before, journal.after}
         /\ head # rec.head =>
               journal.install # None /\ journal.kind = "sync" /\ head = journal.after.head
         /\ \A p \in Path : /\ p \notin mine => FileOK(p, disk[p], rec, journal)
                            /\ KeptOK(p, disk[p], kept[p], journal)
         /\ ~Undone(rec, journal) => AtRest(disk, rec, mine) /\ disk = kept
         /\ journal.install # None =>
               PlanOK(journal.install, lease, rec, journal, next, version, mine)

-----------------------------------------------------------------------------
\* What the session that holds the lock knows at each of its steps.

Steps ==
    {"ready", "reserve", "record", "prepare", "complete", "apply", "activate", "save",
     "recover", "abort", "rollback", "release", "clean"}
Early == {"reserve", "record", "prepare"}
Forward == {"apply", "activate", "save"}

\* The changes of these paths are made.
Made(paths, direction, d, install) ==
    \A p \in DOMAIN install \cap paths : d[p] = Desired(install[p], direction)

Activated(paths, l) == \A p \in paths : Ours(l[p]) => l[p].activated

\* What the authority answered.
AnswerOK(grants, l, r, j, n) ==
    /\ grants \in [j.paths -> Grant]
    /\ \A p \in j.paths :
          /\ grants[p].token < n
          /\ Ours(l[p]) => l[p].token = grants[p].token
          /\ p \in DOMAIN r.pending => grants[p].origin = r.origins[p]

\* What the caller of resolve says of its paths; acquire gives nothing up.
ChoicesOK(choices, r, j) ==
    IF choices = Nothing THEN j.gives = {}
    ELSE /\ DOMAIN r.pending = {}
         /\ \A p \in j.paths : IF choices[p] = "local" THEN p \in j.takes /\ p \notin j.gives
                                ELSE p \in j.gives

EarlyOK ==
    /\ call.step = "ready" => call.choices = Nothing
    /\ call.step \in Early => journal.install = None /\ rec = journal.before
    /\ call.step \in {"reserve", "record"} =>
          journal.kind = "acquire" /\ ChoicesOK(call.choices, rec, journal)
    /\ call.step = "reserve" => AllKnown(lease, rec) /\ \A t \in journal.tokens : t < next
    /\ call.step = "record" => AnswerOK(call.plan, lease, rec, journal, next)
    /\ call.step = "prepare" =>
          /\ PlanOK(call.plan, lease, rec, journal, next, version, mine)
          /\ \A p \in DOMAIN call.plan : call.plan[p].before = disk[p]

ForwardOK ==
    /\ call.step \in Forward \cup {"complete", "rollback"} => journal.install # None
    /\ call.step \in Forward => Undone(rec, journal)
    /\ call.step = "apply" => Made(call.finished, "apply", disk, journal.install)
    /\ call.step \in {"activate", "save"} => Made(Path, "apply", disk, journal.install)
    /\ call.step = "activate" => Activated(DOMAIN journal.grants \cap call.finished, lease)
    /\ call.step = "save" => Activated(DOMAIN journal.grants, lease) /\ head = journal.after.head

BackwardOK ==
    /\ call.step \in {"abort", "rollback"} =>
          journal.install = None \/ (journal.kind = "acquire" /\ rec # journal.after)
    /\ call.step = "rollback" => Made(call.finished, "rollback", disk, journal.install)
    /\ call.step \in {"release", "clean"} => head = rec.head /\ AtRest(disk, rec, mine)
    /\ call.step = "clean" => AllKnown(lease, rec) /\ disk = kept

CallOK ==
    call # None =>
        /\ call.step \in Steps /\ (call.step = "ready" <=> journal = None)
        /\ EarlyOK /\ ForwardOK /\ BackwardOK

IInv == Typed /\ LeasesOK /\ FilesOK /\ CallOK
-----------------------------------------------------------------------------
\* Facts about the operators.

Place == <<disk, head, rec, lease, next, tip, version, journal, kept, mine>>

\* A set of partial functions.
LEMMA PartialShape ==
    ASSUME NEW set, NEW f
    PROVE  /\ f \in Partial(set) => DOMAIN f \subseteq Path /\ f \in [DOMAIN f -> set]
           /\ \A s \in SUBSET Path : f \in [s -> set] => f \in Partial(set)
BY DEF Partial

\* A change set.
LEMMA ChangesShape ==
    ASSUME NEW f
    PROVE  /\ f \in Changes => DOMAIN f \subseteq Path /\ f \in [DOMAIN f -> Change]
           /\ \A s \in SUBSET Path : f \in [s -> Change] => f \in Changes
BY DEF Changes

\* The function without arguments.
LEMMA NothingShape == Nothing \in Partial(Grant) /\ Nothing \in Partial(Image) /\ DOMAIN Nothing = {}
<1>1. \A set : Nothing \in [{} -> set] /\ {} \in SUBSET Path
  BY DEF Nothing
<1> QED
  BY <1>1, PartialShape DEF Nothing

\* Baselines are images.
LEMMA BaselineImage ==
    ASSUME NEW r \in LeafRecord, NEW p \in Path
    PROVE  Baseline(r, p) \in Image
<1>1. r.pending \in Partial(Image) /\ r.origins \in [Path -> Image]
  BY DEF LeafRecord
<1>2. p \in DOMAIN r.pending => r.pending[p] \in Image
  BY <1>1, PartialShape
<1> QED
  BY <1>1, <1>2 DEF Baseline

\* Steps that only move the session.
LEMMA Moves ==
    ASSUME IInv, UNCHANGED Place,
           failure' \in {None, "crash", "refused", "blocked"},
           call' # None => SessionShape(call') /\ CallOK'
    PROVE  IInv'
<1> USE DEF Place
<1>1. Typed'
  BY DEF IInv, Typed
<1>2. LeasesOK'
  BY DEF IInv, LeasesOK
<1>3. FilesOK'
  BY DEF IInv, FilesOK
<1>4. CallOK'
  BY DEF CallOK
<1> QED
  BY <1>1, <1>2, <1>3, <1>4 DEF IInv

\* An error or a kill.
LEMMA FailStep ==
    ASSUME IInv, Fail PROVE IInv'
BY Moves DEF Fail, Place, files, authority, ghosts

\* A kill leaves what was written; only the session ends.
LEMMA CrashStep ==
    ASSUME IInv, Crash PROVE IInv'
BY Moves DEF Crash, Place, files, authority, ghosts

\* An operation returns: nothing is written.
LEMMA ReturnStep ==
    ASSUME IInv, Return PROVE IInv'
BY Moves DEF Return, Place, files, authority, ghosts, IInv, Typed

\* A session takes the lock; it knows nothing and recovers if there is a journal.
LEMMA LockStep ==
    ASSUME IInv, Lock PROVE IInv'
<1>1. UNCHANGED Place /\ failure' = None
  BY DEF Lock, Place, files, authority, ghosts
<1>2. PICK step : /\ step = (IF journal = None THEN "ready" ELSE "recover")
                  /\ call' = Session(step, journal # None)
  BY DEF Lock
<1>3. SessionShape(call') /\ call'.step = step /\ call'.choices = Nothing
  BY <1>2 DEF Session, SessionShape
<1>4. CallOK'
  BY <1>1, <1>2, <1>3 DEF CallOK, EarlyOK, ForwardOK, BackwardOK, Steps, Early, Forward, Place
<1> QED
  BY <1>1, <1>3, <1>4, Moves

\* A step of the session that only says what comes next.
LEMMA GoShape ==
    ASSUME Typed, call # None, NEW step, NEW plan, Go(step, plan)
    PROVE  /\ SessionShape(call') /\ call'.step = step /\ call'.plan = plan /\ call'.finished = {}
           /\ call'.choices = call.choices /\ call'.recovering = call.recovering
BY DEF Typed, SessionShape, Go

\* A step of the session that ticks off one path.
LEMMA FinishShape ==
    ASSUME Typed, call # None, NEW p, Finish(p)
    PROVE  /\ SessionShape(call') /\ call'.step = call.step /\ call'.plan = call.plan
           /\ call'.finished = call.finished \cup {p} /\ call'.choices = call.choices
BY DEF Typed, SessionShape, Finish

-----------------------------------------------------------------------------
\* Steps of the world.

\* Reservations that are only taken away or acknowledged, a mine and a version
\* that only grow: plans stay good.
LEMMA PlanKept ==
    ASSUME NEW changes, NEW l, NEW r, NEW j, NEW n \in Nat, NEW v \in Nat, NEW w,
           NEW l1, NEW n1 \in Nat, NEW v1 \in Nat, NEW w1,
           j \in Journal, PlanOK(changes, l, r, j, n, v, w),
           \A p \in Path : Ours(l1[p]) => Ours(l[p]) /\ l1[p].token = l[p].token,
           n <= n1, v <= v1, w \subseteq w1
    PROVE  PlanOK(changes, l1, r, j, n1, v1, w1)
<1>1. AfterOK(j, v1)
  <2>1. j.after \in LeafRecord => j.after.head \in Nat
    BY DEF LeafRecord
  <2> QED
    BY <2>1 DEF PlanOK, AfterOK
<1>2. ASSUME NEW p \in Path
      PROVE  GrantOK(p, l1[p], j, n1)
  <2>1. GrantOK(p, l[p], j, n)
    BY DEF PlanOK
  <2>2. p \in DOMAIN j.grants => j.grants[p].token \in Nat
    <3>1. j.grants \in [DOMAIN j.grants -> Grant]
      BY PartialShape DEF Journal
    <3> QED
      BY <3>1 DEF Grant
  <2> QED
    BY <2>1, <2>2 DEF GrantOK
<1>3. ASSUME NEW p \in Path, p \in DOMAIN changes
      PROVE  ChangeOK(p, changes[p], r, j, w1)
  BY <1>3 DEF PlanOK, ChangeOK
<1> QED
  BY <1>1, <1>2, <1>3 DEF PlanOK

\* Journals that differ only in what the plan does not speak of.
LEMMA PlanSame ==
    ASSUME NEW changes, NEW l, NEW r, NEW j, NEW n, NEW v, NEW w, NEW k,
           PlanOK(changes, l, r, j, n, v, w),
           k.kind = j.kind, k.before = j.before, k.after = j.after, k.paths = j.paths,
           k.grants = j.grants, k.gives = j.gives, k.takes = j.takes
    PROVE  PlanOK(changes, l, r, k, n, v, w)
BY DEF PlanOK, AfterOK, GrantOK, ChangeOK

\* The user edits a file: it is his.
LEMMA EditStep ==
    ASSUME IInv, NEW p \in Path, NEW x \in Image, Edit(p, x)
    PROVE  IInv'
<1>1. /\ call = None /\ call' = None
      /\ disk' = [disk EXCEPT ![p] = x] /\ kept' = [kept EXCEPT ![p] = x]
      /\ mine' = mine \cup {p} /\ disk' \in Files
      /\ UNCHANGED <<head, rec, lease, next, tip, version, journal, failure>>
  BY DEF Edit, authority
<1>2. disk \in [Path -> Image] /\ kept \in [Path -> Image]
  BY DEF IInv, Typed, Files
<1>3. \A q \in Path : /\ disk'[q] = IF q = p THEN x ELSE disk[q]
                      /\ kept'[q] = IF q = p THEN x ELSE kept[q]
  BY <1>1, <1>2
<1>4. Typed'
  BY <1>1, <1>2 DEF IInv, Typed
<1>5. LeasesOK' /\ CallOK'
  BY <1>1 DEF IInv, LeasesOK, CallOK
<1>6. disk = kept => disk' = kept'
  BY <1>1
<1>7. AtRest(disk, rec, mine) => AtRest(disk', rec', mine')
  BY <1>1, <1>3 DEF AtRest
<1>8. CASE journal = None
  BY <1>1, <1>4, <1>5, <1>6, <1>7, <1>8 DEF IInv, FilesOK
<1>9. CASE journal # None
  <2>1. \A q \in Path : /\ q \notin mine' => FileOK(q, disk'[q], rec', journal')
                        /\ KeptOK(q, disk'[q], kept'[q], journal')
    BY <1>1, <1>3, <1>9 DEF IInv, FilesOK, KeptOK
  <2>2. journal.install # None =>
            PlanOK(journal.install, lease, rec, journal, next, version, mine')
    BY <1>1, <1>9, PlanKept DEF IInv, Typed, FilesOK
  <2> QED
    BY <1>1, <1>4, <1>5, <1>6, <1>7, <1>9, <2>1, <2>2 DEF IInv, FilesOK
<1> QED
  BY <1>8, <1>9

\* Without a journal, reservations of others, and what they publish, are
\* nothing to this leaf.
LEMMA OthersStep ==
    ASSUME IInv, journal = None, call = None,
           UNCHANGED <<disk, head, rec, next, journal, call, failure, kept, mine>>,
           lease' \in [Path -> {None, Other} \cup Grant],
           \A p \in Path : Ours(lease'[p]) => lease'[p] = lease[p],
           tip' \in Files, version' \in Nat, version <= version'
    PROVE  IInv'
<1>1. Typed'
  <2>1. rec.head \in Nat
    BY DEF IInv, Typed, LeafRecord
  <2> QED
    BY <2>1 DEF IInv, Typed
<1>2. LeasesOK'
  BY DEF IInv, LeasesOK, LeaseOK, CaptureOK
<1>3. FilesOK' /\ CallOK'
  BY DEF IInv, FilesOK, CallOK
<1> QED
  BY <1>1, <1>2, <1>3 DEF IInv

\* Another leaf reserves a path nobody has.
LEMMA OtherReservesStep ==
    ASSUME IInv, NEW p \in Path, OtherReserves(p)
    PROVE  IInv'
<1>1. lease' = [lease EXCEPT ![p] = Other] /\ lease \in [Path -> {None, Other} \cup Grant]
  BY DEF OtherReserves, IInv, Typed
<1>2. \A q \in Path : Ours(lease'[q]) => lease'[q] = lease[q]
  BY <1>1 DEF Ours
<1> QED
  BY <1>1, <1>2, OthersStep DEF OtherReserves, files, ghosts, IInv, Typed

\* Another leaf publishes the path it has reserved, which is then free.
LEMMA OtherPublishesStep ==
    ASSUME IInv, NEW p \in Path, NEW x \in Image, OtherPublishes(p, x)
    PROVE  IInv'
<1>1. lease' = [lease EXCEPT ![p] = None] /\ lease \in [Path -> {None, Other} \cup Grant]
  BY DEF OtherPublishes, IInv, Typed
<1>2. \A q \in Path : Ours(lease'[q]) => lease'[q] = lease[q]
  BY <1>1 DEF Ours
<1>3. version' \in Nat /\ version <= version' /\ tip' \in Files
  BY DEF OtherPublishes, IInv, Typed
<1> QED
  BY <1>1, <1>2, <1>3, OthersStep DEF OtherPublishes, files, ghosts

\* Reservations are only taken away: what depends on them holds for the rest.
LEMMA LeaseLoss ==
    ASSUME IInv, UNCHANGED <<disk, head, rec, next, tip, version, journal, kept, mine>>,
           NEW p \in Path, lease' = [lease EXCEPT ![p] = None]
    PROVE  /\ lease' \in [Path -> {None, Other} \cup Grant]
           /\ LeasesOK' /\ FilesOK'
           /\ AllKnown(lease, rec) => AllKnown(lease', rec)
           /\ \A q \in Path : Ours(lease'[q]) => Ours(lease[q]) /\ lease'[q] = lease[q]
<1>1. lease \in [Path -> {None, Other} \cup Grant]
  BY DEF IInv, Typed
<1>2. \A q \in Path : lease'[q] = IF q = p THEN None ELSE lease[q]
  BY <1>1
<1>3. \A q \in Path : Ours(lease'[q]) => Ours(lease[q]) /\ lease'[q] = lease[q]
  BY <1>2 DEF Ours
<1>4. LeasesOK'
  BY <1>3 DEF IInv, LeasesOK, LeaseOK, CaptureOK
<1>5. ASSUME journal # None, journal.install # None
      PROVE  PlanOK(journal.install, lease', rec, journal, next, version, mine)
  <2>1. journal \in Journal /\ next \in Nat /\ version \in Nat /\ next <= next /\ version <= version
    BY <1>5 DEF IInv, Typed
  <2>2. PlanOK(journal.install, lease, rec, journal, next, version, mine)
    BY <1>5 DEF IInv, FilesOK
  <2> QED
    BY <1>3, <2>1, <2>2, PlanKept
<1>6. FilesOK'
  BY <1>5 DEF IInv, FilesOK
<1>7. AllKnown(lease, rec) => AllKnown(lease', rec)
  BY <1>3 DEF AllKnown
<1> QED
  BY <1>1, <1>3, <1>4, <1>6, <1>7

\* An administrator revokes: every step of the protocol allows for it.
LEMMA RevokeStep ==
    ASSUME IInv, NEW p \in Path, Revoke(p)
    PROVE  IInv'
<1>1. /\ UNCHANGED <<disk, head, rec, next, tip, version, journal, kept, mine, call, failure>>
      /\ lease' = [lease EXCEPT ![p] = None]
  BY DEF Revoke, files, ghosts
<1>2. /\ lease' \in [Path -> {None, Other} \cup Grant]
      /\ LeasesOK' /\ FilesOK'
      /\ AllKnown(lease, rec) => AllKnown(lease', rec)
      /\ \A q \in Path : Ours(lease'[q]) => Ours(lease[q]) /\ lease'[q] = lease[q]
  BY <1>1, LeaseLoss
<1>3. Typed'
  BY <1>1, <1>2 DEF IInv, Typed
<1>4. CASE call # None
  <2>1. call.step # "ready" => journal \in Journal
    BY <1>4 DEF IInv, CallOK, Typed
  <2>2. call.step = "record" => AnswerOK(call.plan, lease', rec, journal, next)
    <3>1. call.step = "record" => journal.paths \subseteq Path
      BY <2>1 DEF Journal
    <3> QED
      BY <1>2, <1>4, <3>1 DEF IInv, CallOK, EarlyOK, AnswerOK
  <2>3. call.step = "prepare" => PlanOK(call.plan, lease', rec, journal, next, version, mine)
    BY <1>2, <1>4, <2>1, PlanKept DEF IInv, Typed, CallOK, EarlyOK
  <2>4. EarlyOK'
    BY <1>1, <1>2, <1>4, <2>2, <2>3 DEF IInv, CallOK, EarlyOK
  <2>5. \A paths \in SUBSET Path : Activated(paths, lease) => Activated(paths, lease')
    BY <1>2 DEF Activated
  <2>6. call.step # "ready" => DOMAIN journal.grants \subseteq Path
    BY <2>1, PartialShape DEF Journal
  <2>7. ForwardOK'
    BY <1>1, <1>4, <2>5, <2>6 DEF IInv, CallOK, ForwardOK, Forward
  <2>8. BackwardOK'
    BY <1>1, <1>2, <1>4 DEF IInv, CallOK, BackwardOK
  <2> QED
    BY <1>1, <1>2, <1>3, <1>4, <2>4, <2>7, <2>8 DEF IInv, CallOK
<1>5. CASE call = None
  BY <1>1, <1>2, <1>3, <1>5 DEF IInv, CallOK
<1> QED
  BY <1>4, <1>5

-----------------------------------------------------------------------------
\* Sessions begin.

\* Between operations everything is in order.
LEMMA ReadyFacts ==
    ASSUME IInv, At("ready")
    PROVE  /\ journal = None /\ head = rec.head /\ AtRest(disk, rec, mine) /\ disk = kept
           /\ AllKnown(lease, rec)
           /\ \A p \in Path : Ours(lease[p]) => lease[p] \in Grant /\ lease[p].token < next
<1>1. journal = None
  BY DEF IInv, CallOK, At
<1>2. head = rec.head /\ AtRest(disk, rec, mine) /\ disk = kept
  BY <1>1 DEF IInv, FilesOK
<1>3. AllKnown(lease, rec)
  BY <1>1 DEF IInv, LeasesOK, LeaseOK, Fresh, AllKnown
<1>4. \A p \in Path : Ours(lease[p]) => lease[p] \in Grant /\ lease[p].token < next
  BY DEF IInv, Typed, LeasesOK, LeaseOK, Ours
<1> QED
  BY <1>1, <1>2, <1>3, <1>4

\* The journal appears and nothing else has happened yet.
LEMMA BeginStep ==
    ASSUME IInv, At("ready"),
           NEW kind \in {"acquire", "sync", "discard"}, NEW paths \in SUBSET Path,
           NEW after \in LeafRecord \cup {None}, NEW gives \in SUBSET Path, NEW takes \in SUBSET Path,
           begin_view(kind, paths, after, gives, takes),
           UNCHANGED <<disk, head, rec, lease, next, tip, version, failure, kept, mine>>,
           SessionShape(call')
    PROVE  /\ journal' # None /\ Typed' /\ LeasesOK' /\ FilesOK'
           /\ journal'.kind = kind /\ journal'.before = rec /\ journal'.after = after
           /\ journal'.paths = paths /\ journal'.install = None /\ journal'.grants = Nothing
           /\ journal'.gives = gives /\ journal'.takes = takes
           /\ \A t \in journal'.tokens : t < next
<1> DEFINE tokens == {lease[p].token : p \in {q \in Path : Ours(lease[q])}}
<1>1. /\ journal = None /\ head = rec.head /\ AtRest(disk, rec, mine) /\ disk = kept
      /\ AllKnown(lease, rec)
      /\ \A p \in Path : Ours(lease[p]) => lease[p] \in Grant /\ lease[p].token < next
  BY ReadyFacts
<1>2. tokens \in SUBSET Nat /\ \A t \in tokens : t < next
  BY <1>1 DEF Grant
<1>3. journal' = [kind |-> kind, before |-> rec, paths |-> paths, after |-> after,
                  tokens |-> tokens, grants |-> Nothing, install |-> None, images |-> TRUE,
                  torn |-> {}, gives |-> gives, takes |-> takes]
  BY DEF begin_view
<1> HIDE DEF tokens
<1>4. journal' \in Journal
  BY <1>2, <1>3, NothingShape DEF IInv, Typed, Journal
<1>5. journal' # None
  BY <1>4, NoneAssumption
<1>6. Typed'
  BY <1>4 DEF IInv, Typed
<1>7. LeasesOK'
  BY <1>1, <1>3 DEF IInv, LeasesOK, LeaseOK, AllKnown
<1>8. FilesOK'
  <2>1. \A p \in Path : /\ p \notin mine' => FileOK(p, disk'[p], rec', journal')
                        /\ KeptOK(p, disk'[p], kept'[p], journal')
    BY <1>1 DEF AtRest, FileOK, KeptOK
  <2> QED
    BY <1>1, <1>3, <1>5, <2>1 DEF FilesOK
<1> QED
  BY <1>2, <1>3, <1>5, <1>6, <1>7, <1>8

\* acquire begins: the reservations there are, are known.
LEMMA acquireStep ==
    ASSUME IInv, NEW requested \in Requests, acquire(requested)
    PROVE  IInv'
<1> DEFINE selected == requested \cup
        {p \in Path : (disk[p] # None \/ tip[p] # None) /\ Above(p) \cap requested # {}}
<1>1. /\ At("ready") /\ begin_view("acquire", selected, None, {}, {}) /\ Go("reserve", Nothing)
      /\ UNCHANGED <<disk, head, rec, lease, next, tip, version, failure, kept, mine>>
  BY DEF acquire, files, authority, ghosts
<1>2. selected \in SUBSET Path
  BY ArgumentsAssumption
<1> HIDE DEF selected
<1>3. SessionShape(call') /\ call'.step = "reserve" /\ call'.choices = Nothing
  BY <1>1, GoShape DEF IInv, At, CallOK, EarlyOK
<1>4. /\ journal' # None /\ Typed' /\ LeasesOK' /\ FilesOK'
      /\ journal'.kind = "acquire" /\ journal'.before = rec
      /\ journal'.install = None /\ journal'.gives = {}
      /\ \A t \in journal'.tokens : t < next
  <2>1. "acquire" \in {"acquire", "sync", "discard"} /\ None \in LeafRecord \cup {None} /\ {} \in SUBSET Path
    OBVIOUS
  <2> QED
    BY ONLY IInv, <1>1, <1>2, <1>3, <2>1, BeginStep
<1>5. AllKnown(lease, rec)
  BY <1>1, ReadyFacts
<1>6. CallOK'
  BY <1>1, <1>3, <1>4, <1>5
     DEF CallOK, EarlyOK, ChoicesOK, ForwardOK, BackwardOK, Steps, Early, Forward
<1> QED
  BY <1>4, <1>6 DEF IInv

\* resolve begins: no capture is pending, so every path may be given up or kept.
LEMMA resolveStep ==
    ASSUME IInv, NEW choices \in Choices, resolve(choices)
    PROVE  IInv'
<1> DEFINE gives == {p \in DOMAIN choices : choices[p] = "published"}
           takes == {p \in DOMAIN choices : choices[p] = "local"}
<1>1. /\ At("ready") /\ begin_view("acquire", DOMAIN choices, None, gives, takes)
      /\ call' = [call EXCEPT !.step = "reserve", !.choices = choices]
      /\ UNCHANGED <<disk, head, rec, lease, next, tip, version, failure, kept, mine>>
  BY DEF resolve, files, authority, ghosts
<1>2. DOMAIN choices \in SUBSET Path
  BY ArgumentsAssumption, PartialShape
<1>3. gives \in SUBSET Path /\ takes \in SUBSET Path
  BY <1>2
<1> HIDE DEF gives, takes
<1>4. SessionShape(call') /\ call'.step = "reserve" /\ call'.choices = choices
  BY <1>1 DEF IInv, Typed, At, SessionShape
<1>5. /\ journal' # None /\ Typed' /\ LeasesOK' /\ FilesOK'
      /\ journal'.kind = "acquire" /\ journal'.before = rec
      /\ journal'.install = None /\ journal'.paths = DOMAIN choices
      /\ journal'.gives = gives /\ journal'.takes = takes
      /\ \A t \in journal'.tokens : t < next
  <2>1. "acquire" \in {"acquire", "sync", "discard"} /\ None \in LeafRecord \cup {None}
    OBVIOUS
  <2> QED
    BY ONLY IInv, <1>1, <1>2, <1>3, <1>4, <2>1, BeginStep
<1>6. AllKnown(lease, rec)
  BY <1>1, ReadyFacts
<1>7. ChoicesOK(choices, rec, journal')
  <2>1. rec.pending = Nothing /\ DOMAIN Nothing = {}
    BY NothingShape DEF resolve
  <2>2. choices \in [DOMAIN choices -> {"local", "published"}]
    BY ArgumentsAssumption, PartialShape
  <2> QED
    BY <1>5, <2>1, <2>2, NothingShape DEF ChoicesOK, gives, takes
<1>8. CallOK'
  BY <1>1, <1>4, <1>5, <1>6, <1>7
     DEF CallOK, EarlyOK, ForwardOK, BackwardOK, Steps, Early, Forward
<1> QED
  BY <1>5, <1>8 DEF IInv

\* The changes from the files there are to those that are wanted.
LEMMA ReplacingShape ==
    ASSUME NEW changed \in SUBSET Path, NEW wanted, disk \in Files,
           \A p \in changed : wanted[p] \in Image
    PROVE  /\ Replacing(changed, wanted) \in Changes
           /\ DOMAIN Replacing(changed, wanted) = changed
           /\ \A p \in changed : /\ Replacing(changed, wanted)[p].before = disk[p]
                                 /\ Replacing(changed, wanted)[p].after = wanted[p]
<1>1. \A p \in changed : disk[p] \in Image
  BY DEF Files
<1>2. Replacing(changed, wanted) \in [changed -> Change]
  BY <1>1 DEF Replacing, Change
<1> QED
  BY <1>2, ChangesShape DEF Replacing

\* sync begins: it plans to bring unedited, uncaptured paths to the tip.
LEMMA syncStep ==
    ASSUME IInv, sync
    PROVE  IInv'
<1> DEFINE selected == {p \in Path : disk[p] = rec.origins[p] /\ ~Captured(p)}
           after == [rec EXCEPT !.head = version,
                         !.origins = [p \in Path |-> IF p \in selected THEN tip[p] ELSE @[p]]]
           changed == {p \in selected : disk[p] # tip[p]}
           changes == Replacing(changed, tip)
<1>1. /\ At("ready") /\ begin_view("sync", selected, after, {}, {}) /\ Go("prepare", changes)
      /\ UNCHANGED <<disk, head, rec, lease, next, tip, version, failure, kept, mine>>
  BY DEF sync, files, authority, ghosts
<1>2. /\ rec \in LeafRecord /\ tip \in [Path -> Image] /\ disk \in [Path -> Image] /\ version \in Nat
      /\ disk \in Files /\ selected \in SUBSET Path
  BY DEF IInv, Typed, Files
<1>3. /\ after \in LeafRecord /\ after.head = version /\ after.grants = rec.grants
      /\ after.pending = rec.pending
      /\ \A p \in Path : after.origins[p] = IF p \in selected THEN tip[p] ELSE rec.origins[p]
  BY <1>2 DEF LeafRecord
<1>4. /\ changes \in Changes /\ DOMAIN changes = changed
      /\ \A p \in changed : changes[p].before = disk[p] /\ changes[p].after = tip[p]
  <2>1. changed \in SUBSET Path /\ \A p \in changed : tip[p] \in Image
    BY <1>2
  <2> HIDE DEF changed
  <2> QED
    BY <1>2, <2>1, ReplacingShape
<1>5. \A p \in selected : disk[p] = rec.origins[p] /\ p \notin DOMAIN rec.pending
  BY DEF Captured
<1>6. \A p \in Path : p \in changed <=> p \in selected /\ disk[p] # tip[p]
  OBVIOUS
<1> HIDE DEF selected, after, changed, changes
<1>7. SessionShape(call') /\ call'.step = "prepare" /\ call'.plan = changes
  BY <1>1, GoShape DEF IInv, At
<1>8. /\ journal' # None /\ Typed' /\ LeasesOK' /\ FilesOK'
      /\ journal'.kind = "sync" /\ journal'.before = rec /\ journal'.after = after
      /\ journal'.install = None /\ journal'.grants = Nothing
      /\ journal'.gives = {} /\ journal'.takes = {}
  <2>1. "sync" \in {"acquire", "sync", "discard"} /\ after \in LeafRecord \cup {None} /\ {} \in SUBSET Path
    BY <1>3
  <2> QED
    BY ONLY IInv, <1>1, <1>2, <1>7, <2>1, BeginStep
<1>9. AfterOK(journal', version)
  <2>1. DOMAIN rec.pending \subseteq Path
    BY <1>2, PartialShape DEF LeafRecord
  <2> QED
    BY <1>2, <1>3, <1>5, <1>8, <2>1, NothingShape DEF AfterOK
<1>10. \A p \in Path : Baseline(after, p) = IF p \in selected THEN tip[p] ELSE Baseline(rec, p)
  BY <1>3, <1>5 DEF Baseline
<1>11. \A p \in selected : Baseline(rec, p) = disk[p]
  BY <1>5 DEF Baseline
<1>12. ASSUME NEW p \in Path
       PROVE  /\ GrantOK(p, lease[p], journal', next)
              /\ p \in changed => ChangeOK(p, changes[p], rec, journal', mine)
              /\ p \notin changed => Baseline(after, p) = Baseline(rec, p)
  BY <1>4, <1>6, <1>8, <1>10, <1>11, NothingShape DEF GrantOK, ChangeOK
<1>13. PlanOK(changes, lease, rec, journal', next, version, mine)
  BY <1>4, <1>8, <1>9, <1>12 DEF PlanOK
<1>14. CallOK'
  BY <1>1, <1>4, <1>7, <1>8, <1>13
     DEF CallOK, EarlyOK, ForwardOK, BackwardOK, Steps, Early, Forward
<1> QED
  BY <1>8, <1>14 DEF IInv

\* discard begins: it plans to bring the given paths back to their baseline.
LEMMA discardStep ==
    ASSUME IInv, NEW selected \in Requests, discard(selected)
    PROVE  IInv'
<1> DEFINE baseline == [p \in Path |-> Baseline(rec, p)]
           changed == {p \in selected : disk[p] # baseline[p]}
           changes == Replacing(changed, baseline)
<1>1. /\ At("ready") /\ begin_view("discard", selected, rec, selected, {}) /\ Go("prepare", changes)
      /\ UNCHANGED <<disk, head, rec, lease, next, tip, version, failure, kept, mine>>
  BY DEF discard, files, authority, ghosts
<1>2. rec \in LeafRecord /\ disk \in Files /\ selected \in SUBSET Path
  BY ArgumentsAssumption DEF IInv, Typed
<1>3. \A p \in Path : baseline[p] = Baseline(rec, p) /\ baseline[p] \in Image
  BY <1>2, BaselineImage
<1>4. changed \in SUBSET Path /\ \A p \in Path : p \in changed <=> p \in selected /\ disk[p] # Baseline(rec, p)
  BY <1>2, <1>3
<1> HIDE DEF baseline, changed
<1>5. /\ changes \in Changes /\ DOMAIN changes = changed
      /\ \A p \in changed : changes[p].before = disk[p] /\ changes[p].after = Baseline(rec, p)
  BY <1>2, <1>3, <1>4, ReplacingShape
<1> HIDE DEF changes
<1>6. SessionShape(call') /\ call'.step = "prepare" /\ call'.plan = changes
  BY <1>1, GoShape DEF IInv, At
<1>7. /\ journal' # None /\ Typed' /\ LeasesOK' /\ FilesOK'
      /\ journal'.kind = "discard" /\ journal'.before = rec /\ journal'.after = rec
      /\ journal'.install = None /\ journal'.grants = Nothing
      /\ journal'.gives = selected /\ journal'.takes = {}
  <2>1. "discard" \in {"acquire", "sync", "discard"} /\ rec \in LeafRecord \cup {None} /\ {} \in SUBSET Path
    BY <1>2
  <2> QED
    BY ONLY IInv, <1>1, <1>2, <1>6, <2>1, BeginStep
<1>8. AfterOK(journal', version)
  BY <1>2, <1>7, NothingShape DEF IInv, Typed, AfterOK
<1>9. ASSUME NEW p \in Path
      PROVE  /\ GrantOK(p, lease[p], journal', next)
             /\ p \in changed => ChangeOK(p, changes[p], rec, journal', mine)
  BY <1>4, <1>5, <1>7, NothingShape DEF GrantOK, ChangeOK
<1>10. PlanOK(changes, lease, rec, journal', next, version, mine)
  BY <1>5, <1>7, <1>8, <1>9 DEF PlanOK
<1>11. CallOK'
  BY <1>1, <1>5, <1>6, <1>7, <1>10
     DEF CallOK, EarlyOK, ForwardOK, BackwardOK, Steps, Early, Forward
<1> QED
  BY <1>7, <1>11 DEF IInv

-----------------------------------------------------------------------------
\* From the reservations to the installation record.

\* A session that is past "ready" has a journal.
LEMMA JournalFacts ==
    ASSUME IInv, call # None, call.step # "ready"
    PROVE  /\ journal \in Journal /\ journal # None
           /\ journal.paths \subseteq Path /\ journal.tokens \subseteq Nat
           /\ DOMAIN journal.grants \subseteq Path
           /\ \A p \in DOMAIN journal.grants : journal.grants[p] \in Grant
           /\ rec \in {journal.before, journal.after}
           /\ \A p \in Path : /\ p \notin mine => FileOK(p, disk[p], rec, journal)
                              /\ KeptOK(p, disk[p], kept[p], journal)
           /\ journal.install # None =>
                 PlanOK(journal.install, lease, rec, journal, next, version, mine)
           /\ call.step \in Steps /\ EarlyOK /\ ForwardOK /\ BackwardOK
           /\ SessionShape(call)
<1>1. journal \in Journal /\ journal # None
  BY DEF IInv, CallOK, Typed
<1>2. /\ journal.paths \subseteq Path /\ journal.tokens \subseteq Nat
      /\ DOMAIN journal.grants \subseteq Path
      /\ \A p \in DOMAIN journal.grants : journal.grants[p] \in Grant
  BY <1>1, PartialShape DEF Journal
<1> QED
  BY <1>1, <1>2 DEF IInv, CallOK, Typed, FilesOK

\* Before anything is installed the files are as the user left them.
LEMMA Untouched ==
    ASSUME IInv, call # None, call.step # "ready", journal.install = None
    PROVE  head = rec.head /\ AtRest(disk, rec, mine) /\ disk = kept
<1>1. \A p \in Path : ~Changed(p, journal)
  BY DEF Changed
<1>2. \A p \in Path : KeptOK(p, disk[p], kept[p], journal)
  BY JournalFacts
<1>3. \A p \in Path : disk[p] = kept[p]
  BY <1>1, <1>2 DEF KeptOK
<1>4. disk \in [Path -> Image] /\ kept \in [Path -> Image]
  BY DEF IInv, Typed, Files
<1>5. head = rec.head
  BY JournalFacts DEF IInv, FilesOK
<1>6. AtRest(disk, rec, mine)
  BY <1>1, JournalFacts DEF FileOK, AtRest
<1> QED
  BY <1>3, <1>4, <1>5, <1>6

\* The authority answers with reservations of all the paths, the new ones
\* under a token that nothing names.
LEMMA ReserveStep ==
    ASSUME IInv, Reserve
    PROVE  IInv'
<1> DEFINE fresh == {p \in journal.paths : lease[p] = None}
           granted == [p \in Path |->
                         IF p \notin fresh THEN lease[p]
                         ELSE [token |-> next, origin |-> tip[p], activated |-> FALSE]]
           plan == [p \in journal.paths |-> granted[p]]
<1>1. CASE ~Reservable(journal.paths)
  BY <1>1, FailStep DEF Reserve
<1>2. CASE Reservable(journal.paths)
  <2>1. /\ call # None /\ call.step = "reserve"
        /\ lease' = granted /\ next' = next + 1 /\ Go("record", plan)
        /\ UNCHANGED <<disk, head, rec, tip, version, journal, failure, kept, mine>>
    BY <1>2 DEF Reserve, At, files, ghosts
  <2>2. /\ journal \in Journal /\ journal # None /\ journal.paths \subseteq Path
        /\ journal.kind = "acquire" /\ journal.install = None /\ rec = journal.before
        /\ AllKnown(lease, rec) /\ \A t \in journal.tokens : t < next
        /\ SessionShape(call) /\ ChoicesOK(call.choices, rec, journal)
    BY <2>1, JournalFacts DEF EarlyOK, Early
  <2>3. /\ next \in Nat /\ tip \in [Path -> Image] /\ lease \in [Path -> {None, Other} \cup Grant]
        /\ rec \in LeafRecord
    BY DEF IInv, Typed, Files
  <2>4. \A p \in journal.paths : lease[p] # Other /\ (lease[p] = None => p \notin DOMAIN rec.pending)
    BY <1>2, <2>2 DEF Reservable, Overlaps, Captured
  <2>5. [p \in Path |-> [token |-> next, origin |-> tip[p], activated |-> FALSE]] \in [Path -> Grant]
    BY <2>3 DEF Grant
  <2>6. \A p \in fresh : /\ granted[p].token = next /\ granted[p].origin = tip[p]
                         /\ granted[p] \in Grant
    BY <2>2, <2>5
  <2>7. /\ \A p \in Path \ fresh : granted[p] = lease[p]
        /\ granted \in [Path -> {None, Other} \cup Grant]
    BY <2>3, <2>5
  <2>8. plan \in [journal.paths -> Grant] /\ \A p \in journal.paths : plan[p] = granted[p]
    BY <2>2, <2>3, <2>4, <2>6, <2>7 DEF Ours
  <2>9. \A p \in Path : Ours(lease[p]) => lease[p] \in Grant /\ lease[p].token < next
    BY <2>3 DEF IInv, LeasesOK, LeaseOK, Ours
  <2>10. fresh \subseteq journal.paths
    OBVIOUS
  <2>11. \A p \in fresh : lease[p] = None /\ p \notin DOMAIN rec.pending
    BY <2>4
  <2> HIDE DEF fresh, granted, plan
  <2>12. /\ SessionShape(call') /\ call'.step = "record" /\ call'.plan = plan
         /\ call'.choices = call.choices
    BY <2>1, GoShape DEF IInv
  <2>13. Typed'
    BY <2>1, <2>3, <2>7, <2>12 DEF IInv, Typed
  <2>14. ASSUME NEW p \in Path
         PROVE  LeaseOK(p, granted[p], rec, journal, next + 1)
    <3>1. LeaseOK(p, lease[p], rec, journal, next)
      BY DEF IInv, LeasesOK
    <3>2. p \in DOMAIN rec.grants => rec.grants[p].token \in Nat
      <4>1. rec.grants \in [DOMAIN rec.grants -> Grant]
        BY <2>3, PartialShape DEF LeafRecord
      <4> QED
        BY <4>1 DEF Grant
    <3>3. CASE p \in fresh
      <4>1. next \notin journal.tokens
        BY <2>2, <2>3
      <4>2. Fresh(p, granted[p], rec, journal)
        BY <2>2, <2>3, <2>6, <2>10, <3>1, <3>2, <3>3, <4>1 DEF Fresh, LeaseOK
      <4>3. CaptureOK(p, granted[p], rec)
        BY <2>11, <3>3 DEF CaptureOK
      <4> QED
        BY <2>3, <2>6, <3>1, <3>2, <3>3, <4>2, <4>3 DEF LeaseOK
    <3>4. CASE p \notin fresh
      <4>1. granted[p] = lease[p] /\ (Ours(lease[p]) => lease[p].token \in Nat)
        BY <2>7, <2>9, <3>4 DEF Grant
      <4> QED
        BY <2>3, <3>1, <3>2, <4>1 DEF LeaseOK
    <3> QED
      BY <3>3, <3>4
  <2>15. LeasesOK'
    BY <2>1, <2>14 DEF LeasesOK
  <2>16. FilesOK'
    BY <2>1, <2>2 DEF IInv, FilesOK
  <2>17. AnswerOK(plan, granted, rec, journal, next + 1)
    <3>1. ASSUME NEW p \in journal.paths
          PROVE  plan[p].token < next + 1 /\ (p \in DOMAIN rec.pending => plan[p].origin = rec.origins[p])
      <4>1. CASE p \in fresh
        BY <2>3, <2>6, <2>8, <2>11, <4>1
      <4>2. CASE p \notin fresh
        <5>1. granted[p] = lease[p] /\ plan[p] = lease[p] /\ p \in Path /\ plan[p] \in Grant
          BY <2>2, <2>7, <2>8, <4>2
        <5>2. lease[p] # Other
          BY <2>4
        <5>3. lease[p] # None
          <6>1. CASE lease[p] = None
            BY <4>2, <6>1 DEF fresh
          <6> QED
            BY <6>1
        <5>4. Ours(lease[p])
          BY <5>2, <5>3 DEF Ours
        <5>5. CaptureOK(p, lease[p], rec)
          BY <5>1 DEF IInv, LeasesOK, LeaseOK
        <5> QED
          BY <2>3, <2>9, <5>1, <5>4, <5>5 DEF CaptureOK, Grant
      <4> QED
        BY <4>1, <4>2
    <3> QED
      BY <2>8, <3>1 DEF AnswerOK
  <2>18. CallOK'
    BY <2>1, <2>2, <2>12, <2>17
       DEF CallOK, EarlyOK, ForwardOK, BackwardOK, Steps, Early, Forward
  <2> QED
    BY <2>13, <2>15, <2>16, <2>18 DEF IInv
<1> QED
  BY <1>1, <1>2

\* The value acquire or resolve leaves at a path whose origin is o.
Wanted(p, o) == IF call.choices # Nothing THEN Chosen(p, o) ELSE acquisition(p, o)

\* It gives up nothing that the user wrote and did not give up, and comes to
\* the new origin or to the captured value wherever he wrote nothing.
LEMMA WantedFacts ==
    ASSUME NEW p \in Path, NEW o, NEW r,
           AtRest(disk, rec, mine), ChoicesOK(call.choices, rec, journal), p \in journal.paths,
           CaptureOK(p, lease[p], rec), p \in DOMAIN rec.pending => o = rec.origins[p],
           call.choices # Nothing \/ ~Conflicting(p, o),
           r.pending = rec.pending, r.origins[p] = o
    PROVE  /\ \/ disk[p] = Wanted(p, o)
              \/ p \in journal.gives
              \/ disk[p] = Baseline(rec, p)
           /\ p \in journal.gives \/ p \notin mine \cup journal.takes => Wanted(p, o) = Baseline(r, p)
           /\ p \notin mine => disk[p] = Baseline(rec, p)
<1>1. CASE call.choices # Nothing
  BY <1>1 DEF Wanted, Chosen, ChoicesOK, Baseline, AtRest
<1>2. CASE call.choices = Nothing
  BY <1>2 DEF Wanted, acquisition, Conflicting, Private, ChoicesOK, Baseline, AtRest, CaptureOK
<1> QED
  BY <1>1, <1>2

\* The journal learns what was reserved and the record to be written.
LEMMA RecordStep ==
    ASSUME IInv, Record
    PROVE  IInv'
<1> DEFINE grants == call.plan
           resolving == call.choices # Nothing
           origins == [p \in Path |-> IF p \in journal.paths THEN grants[p].origin ELSE rec.origins[p]]
           wanted == [p \in journal.paths |->
                        IF resolving THEN Chosen(p, origins[p]) ELSE acquisition(p, origins[p])]
           changed == {p \in journal.paths :
                         resolving \/ wanted[p] # disk[p] \/ origins[p] # rec.origins[p]}
           held == [p \in journal.paths \cup DOMAIN rec.grants |->
                      IF p \in journal.paths THEN [grants[p] EXCEPT !.activated = TRUE] ELSE rec.grants[p]]
           after == [rec EXCEPT !.origins = origins, !.grants = held]
           changes == Replacing(changed, wanted)
<1>1. CASE ~resolving /\ \E p \in journal.paths : Conflicting(p, origins[p])
  BY <1>1, FailStep DEF Record
<1>2. CASE resolving \/ \A p \in journal.paths : ~Conflicting(p, origins[p])
  <2>1. /\ call # None /\ call.step = "record"
        /\ journal' = [journal EXCEPT !.grants = grants, !.after = after]
        /\ Go("prepare", changes)
        /\ UNCHANGED <<disk, head, rec, lease, next, tip, version, failure, kept, mine>>
    BY <1>2 DEF Record, At, files, authority, ghosts
  <2>2. /\ journal \in Journal /\ journal # None /\ journal.paths \in SUBSET Path
        /\ journal.kind = "acquire" /\ journal.install = None /\ rec = journal.before
        /\ AnswerOK(grants, lease, rec, journal, next) /\ ChoicesOK(call.choices, rec, journal)
    BY <2>1, JournalFacts DEF EarlyOK, Early
  <2>3. head = rec.head /\ AtRest(disk, rec, mine) /\ disk = kept
    BY <2>1, <2>2, Untouched
  <2>4. /\ rec \in LeafRecord /\ disk \in Files /\ disk \in [Path -> Image]
        /\ rec.origins \in [Path -> Image] /\ rec.head <= version
    BY DEF IInv, Typed, Files, LeafRecord
  <2>5. /\ grants \in [journal.paths -> Grant]
        /\ \A p \in journal.paths :
              /\ grants[p].token < next
              /\ Ours(lease[p]) => lease[p].token = grants[p].token
              /\ p \in DOMAIN rec.pending => grants[p].origin = rec.origins[p]
    BY <2>2 DEF AnswerOK
  <2>6. \A p \in journal.paths : grants[p].origin \in Image
    BY <2>5 DEF Grant
  <2>7. /\ origins \in [Path -> Image]
        /\ \A p \in journal.paths : origins[p] = grants[p].origin
        /\ \A p \in Path \ journal.paths : origins[p] = rec.origins[p]
    BY <2>2, <2>4, <2>6
  <2>8. DOMAIN rec.grants \subseteq Path /\ rec.grants \in [DOMAIN rec.grants -> Grant]
    BY <2>4, PartialShape DEF LeafRecord
  <2>9. \A p \in journal.paths : wanted[p] = Wanted(p, origins[p])
    BY DEF Wanted
  <2>10. \A p \in Path : p \in changed <=>
            p \in journal.paths /\ (resolving \/ wanted[p] # disk[p] \/ origins[p] # rec.origins[p])
    BY <2>2
  <2>11. changed \in SUBSET Path /\ changed \subseteq journal.paths
    BY <2>2
  <2> HIDE DEF held, wanted, changed
  <2>13. /\ held \in Partial(Grant)
         /\ DOMAIN held = journal.paths \cup DOMAIN rec.grants
         /\ \A p \in journal.paths : held[p].token = grants[p].token
         /\ \A p \in DOMAIN rec.grants \ journal.paths : held[p] = rec.grants[p]
    <3>1. \A p \in journal.paths : /\ [grants[p] EXCEPT !.activated = TRUE] \in Grant
                                   /\ [grants[p] EXCEPT !.activated = TRUE].token = grants[p].token
      BY <2>5 DEF Grant
    <3>2. held \in [journal.paths \cup DOMAIN rec.grants -> Grant]
      BY <2>8, <3>1 DEF held
    <3>3. journal.paths \cup DOMAIN rec.grants \in SUBSET Path
      BY <2>2, <2>8
    <3> QED
      BY <3>1, <3>2, <3>3, PartialShape DEF held
  <2>14. /\ after \in LeafRecord /\ after.origins = origins /\ after.grants = held
         /\ after.head = rec.head /\ after.pending = rec.pending
    BY <2>4, <2>7, <2>13 DEF LeafRecord
  <2> HIDE DEF after, origins
  <2>15. grants \in Partial(Grant) /\ DOMAIN grants = journal.paths
    BY <2>2, <2>5, PartialShape
  <2> HIDE DEF grants
  <2>16. /\ journal' \in Journal /\ journal' # None
         /\ journal'.grants = grants /\ journal'.after = after /\ journal'.install = None
         /\ journal'.kind = "acquire" /\ journal'.before = rec /\ journal'.paths = journal.paths
         /\ journal'.tokens = journal.tokens
         /\ journal'.gives = journal.gives /\ journal'.takes = journal.takes
    <3>1. journal' \in Journal
      BY <2>1, <2>2, <2>14, <2>15 DEF Journal
    <3> QED
      BY <2>1, <2>2, <3>1, NoneAssumption DEF Journal
  <2>17. ASSUME NEW p \in journal.paths
         PROVE  /\ \/ disk[p] = wanted[p] \/ p \in journal.gives
                   \/ disk[p] = Baseline(rec, p)
                /\ p \in journal.gives \/ p \notin mine \cup journal.takes => wanted[p] = Baseline(after, p)
                /\ p \notin mine => disk[p] = Baseline(rec, p)
    <3>1. CaptureOK(p, lease[p], rec)
      BY <2>2 DEF IInv, LeasesOK, LeaseOK
    <3>2. p \in DOMAIN rec.pending => origins[p] = rec.origins[p]
      BY <2>5, <2>7
    <3>3. call.choices # Nothing \/ ~Conflicting(p, origins[p])
      BY <1>2
    <3> QED
      BY <2>2, <2>3, <2>9, <2>14, <3>1, <3>2, <3>3, WantedFacts
  <2>18. /\ changes \in Changes /\ DOMAIN changes = changed
         /\ \A p \in changed : changes[p].before = disk[p] /\ changes[p].after = wanted[p]
    <3>1. ASSUME NEW p \in changed
          PROVE  wanted[p] \in Image
      BY <2>4, <2>7, <2>9, <2>11 DEF Wanted, Chosen, acquisition
    <3> QED
      BY <2>4, <2>11, <3>1, ReplacingShape
  <2> HIDE DEF changes
  <2>19. AfterOK(journal', version)
    <3>1. DOMAIN rec.pending \subseteq Path
      BY <2>4, PartialShape DEF LeafRecord
    <3> QED
      BY <2>4, <2>5, <2>7, <2>14, <2>16, <3>1 DEF AfterOK
  <2>20. ASSUME NEW p \in Path
         PROVE  GrantOK(p, lease[p], journal', next)
    BY <2>5, <2>13, <2>14, <2>15, <2>16 DEF GrantOK
  <2>21. ASSUME NEW p \in changed
         PROVE  ChangeOK(p, changes[p], rec, journal', mine)
    BY <2>11, <2>16, <2>17, <2>18 DEF ChangeOK
  <2>22. ASSUME NEW p \in Path, p \notin changed
         PROVE  Baseline(after, p) = Baseline(rec, p)
    BY <2>7, <2>10, <2>14, <2>22 DEF Baseline
  <2>23. PlanOK(changes, lease, rec, journal', next, version, mine)
    BY <2>16, <2>18, <2>19, <2>20, <2>21, <2>22 DEF PlanOK
  <2>24. SessionShape(call') /\ call'.step = "prepare" /\ call'.plan = changes
    BY <2>1, GoShape DEF IInv
  <2>25. Typed'
    BY <2>1, <2>16, <2>24 DEF IInv, Typed
  <2>26. LeasesOK'
    BY <2>1, <2>2, <2>16 DEF IInv, LeasesOK, LeaseOK, Fresh
  <2>27. FilesOK'
    <3>1. ASSUME NEW p \in Path
          PROVE  /\ p \notin mine => FileOK(p, disk[p], rec, journal')
                 /\ KeptOK(p, disk[p], kept[p], journal')
      BY <2>3, <2>16 DEF AtRest, FileOK, KeptOK
    <3> QED
      BY <2>1, <2>3, <2>16, <3>1 DEF FilesOK
  <2>28. CallOK'
    BY <2>1, <2>16, <2>18, <2>23, <2>24
       DEF CallOK, EarlyOK, ForwardOK, BackwardOK, Steps, Early, Forward
  <2> QED
    BY <2>25, <2>26, <2>27, <2>28 DEF IInv
<1> QED
  BY <1>1, <1>2

-----------------------------------------------------------------------------
\* The installation.

\* A change set on disk, and each of its changes.
LEMMA InstallFacts ==
    ASSUME NEW changes, NEW l, NEW r, NEW j, NEW n, NEW v, NEW w,
           PlanOK(changes, l, r, j, n, v, w)
    PROVE  /\ changes \in Changes /\ changes # None
           /\ DOMAIN changes \subseteq Path
           /\ \A p \in DOMAIN changes :
                 /\ changes[p].before \in Image /\ changes[p].after \in Image
                 /\ ChangeOK(p, changes[p], r, j, w)
<1>1. changes \in Changes
  BY DEF PlanOK
<1>2. DOMAIN changes \subseteq Path /\ changes \in [DOMAIN changes -> Change]
  BY <1>1, ChangesShape
<1>3. \A p \in DOMAIN changes : changes[p].before \in Image /\ changes[p].after \in Image
  BY <1>2 DEF Change
<1> QED
  BY <1>1, <1>2, <1>3, NoneAssumption DEF PlanOK

\* The installation record appears, of files that are as the user left them.
LEMMA prepare_installationStep ==
    ASSUME IInv, prepare_installation
    PROVE  IInv'
<1>1. CASE ~preflight(disk, call.plan)
  BY <1>1, FailStep DEF prepare_installation
<1>2. CASE preflight(disk, call.plan)
  <2>1. /\ call # None /\ call.step = "prepare"
        /\ journal' = [journal EXCEPT !.install = call.plan] /\ Go("complete", Nothing)
        /\ UNCHANGED <<disk, head, rec, lease, next, tip, version, failure, kept, mine>>
    BY <1>2 DEF prepare_installation, At, files, authority, ghosts
  <2>2. /\ journal \in Journal /\ journal # None /\ journal.install = None /\ rec = journal.before
        /\ PlanOK(call.plan, lease, rec, journal, next, version, mine)
    BY <2>1, JournalFacts DEF EarlyOK, Early
  <2>3. head = rec.head /\ AtRest(disk, rec, mine) /\ disk = kept
    BY <2>1, <2>2, Untouched
  <2>4. call.plan \in Changes /\ call.plan # None
    BY <2>2, InstallFacts
  <2>5. /\ journal' \in Journal /\ journal' # None /\ journal'.install = call.plan
        /\ journal'.kind = journal.kind /\ journal'.before = journal.before
        /\ journal'.after = journal.after /\ journal'.paths = journal.paths
        /\ journal'.grants = journal.grants /\ journal'.tokens = journal.tokens
        /\ journal'.gives = journal.gives /\ journal'.takes = journal.takes
    <3>1. journal' \in Journal
      BY <2>1, <2>2, <2>4 DEF Journal
    <3> QED
      BY <2>1, <2>2, <3>1, NoneAssumption DEF Journal
  <2>6. PlanOK(journal'.install, lease, rec, journal', next, version, mine)
    BY <2>2, <2>5, PlanSame
  <2>7. SessionShape(call') /\ call'.step = "complete"
    BY <2>1, GoShape DEF IInv
  <2>8. Typed'
    BY <2>1, <2>5, <2>7 DEF IInv, Typed
  <2>9. LeasesOK'
    BY <2>1, <2>2, <2>5 DEF IInv, LeasesOK, LeaseOK, Fresh
  <2>10. ASSUME NEW p \in Path
         PROVE  /\ p \notin mine => FileOK(p, disk[p], rec, journal')
                /\ KeptOK(p, disk[p], kept[p], journal')
    BY <2>3 DEF AtRest, FileOK, KeptOK
  <2>11. FilesOK'
    BY <2>1, <2>2, <2>3, <2>5, <2>6, <2>10 DEF FilesOK
  <2>12. CallOK'
    BY <2>4, <2>5, <2>7 DEF CallOK, EarlyOK, ForwardOK, BackwardOK, Steps, Early, Forward
  <2> QED
    BY <2>8, <2>9, <2>11, <2>12 DEF IInv
<1> QED
  BY <1>1, <1>2

\* If the record has nothing more to learn, nothing is left to be done: the
\* reservations are in it, and the files are as it says.
LEMMA DoneFacts ==
    ASSUME IInv, journal # None, journal.install # None, ~Undone(rec, journal)
    PROVE  head = rec.head /\ AtRest(disk, rec, mine) /\ disk = kept /\ AllKnown(lease, rec)
<1>1. AtRest(disk, rec, mine) /\ disk = kept /\ head = rec.head
  BY DEF IInv, FilesOK, Undone
<1>2. PlanOK(journal.install, lease, rec, journal, next, version, mine)
  BY DEF IInv, FilesOK
<1>3. ASSUME NEW p \in Path, Ours(lease[p])
      PROVE  ~Fresh(p, lease[p], rec, journal)
  <2>1. GrantOK(p, lease[p], journal, next)
    BY <1>2 DEF PlanOK
  <2> QED
    BY <1>3, <2>1 DEF GrantOK, Fresh, Undone
<1>4. AllKnown(lease, rec)
  BY <1>3 DEF IInv, LeasesOK, LeaseOK, AllKnown
<1> QED
  BY <1>1, <1>4

\* complete_view goes on from the change set, or skips to the end if the record
\* already says what the journal asks for.
LEMMA complete_viewStep ==
    ASSUME IInv, complete_view
    PROVE  IInv'
<1>1. /\ call # None /\ call.step = "complete"
      /\ Go(IF Unfinished THEN "apply" ELSE "clean", Nothing)
      /\ UNCHANGED Place /\ UNCHANGED failure
  BY DEF complete_view, At, files, authority, ghosts, Place
<1>2. journal # None /\ journal.install # None
  BY <1>1, JournalFacts DEF ForwardOK
<1>3. PICK step : step = IF Unfinished THEN "apply" ELSE "clean"
  OBVIOUS
<1>4. SessionShape(call') /\ call'.step = step /\ call'.finished = {}
  BY <1>1, <1>3, GoShape DEF IInv
<1>5. CASE Unfinished
  <2>1. Undone(rec, journal) /\ Made({}, "apply", disk, journal.install)
    BY <1>5 DEF Unfinished, Undone, Made
  <2>2. CallOK'
    BY <1>1, <1>2, <1>3, <1>4, <1>5, <2>1
       DEF CallOK, EarlyOK, ForwardOK, BackwardOK, Steps, Early, Forward, Place
  <2> QED
    BY <1>1, <1>4, <2>2, Moves DEF IInv, Typed
<1>6. CASE ~Unfinished
  <2>1. head = rec.head /\ AtRest(disk, rec, mine) /\ disk = kept /\ AllKnown(lease, rec)
    BY <1>2, <1>6, DoneFacts DEF Unfinished, Undone
  <2>2. CallOK'
    BY <1>1, <1>2, <1>3, <1>4, <1>6, <2>1
       DEF CallOK, EarlyOK, ForwardOK, BackwardOK, Steps, Early, Forward, Place
  <2> QED
    BY <1>1, <1>4, <2>2, Moves DEF IInv, Typed
<1> QED
  BY <1>5, <1>6

\* What a session knows that applies changes or rolls them back.
LEMMA DirectionFacts ==
    ASSUME IInv, NEW direction \in {"apply", "rollback"}, At(direction)
    PROVE  /\ call # None /\ call.step = direction /\ journal # None /\ journal.install # None
           /\ PlanOK(journal.install, lease, rec, journal, next, version, mine)
           /\ Undone(rec, journal)
           /\ Made(call.finished, direction, disk, journal.install)
           /\ direction = "rollback" =>
                 journal.kind = "acquire" /\ rec # journal.after /\ rec = journal.before
<1>1. call # None /\ call.step = direction
  BY DEF At
<1>2. journal # None /\ ForwardOK /\ BackwardOK
  BY <1>1, JournalFacts
<1>3. journal.install # None
  BY <1>1, <1>2 DEF ForwardOK, Forward
<1>4. PlanOK(journal.install, lease, rec, journal, next, version, mine)
  BY <1>1, <1>3, JournalFacts
<1>5. direction = "rollback" =>
          journal.kind = "acquire" /\ rec # journal.after /\ rec = journal.before
  BY <1>1, <1>2, <1>3, JournalFacts DEF BackwardOK
<1> QED
  BY <1>1, <1>2, <1>3, <1>4, <1>5 DEF ForwardOK, BackwardOK, Forward, Undone

\* A file put in its place: directories above it, nothing below it.
LEMMA RoomKeepsFiles ==
    ASSUME NEW f \in Files, NEW p \in Path, NEW x \in Image,
           x # None => \A q \in Above(p) \cup Below(p) : f[q] = None
    PROVE  [f EXCEPT ![p] = x] \in Files
<1>1. f \in [Path -> Image]
  BY DEF Files
<1>2. ASSUME NEW q \in Path, NEW r \in Path, Inside(q, r), [f EXCEPT ![p] = x][r] # None
      PROVE  [f EXCEPT ![p] = x][q] = None
  <2>1. q # r
    BY <1>2, UnderAssumption DEF Inside
  <2>2. f[r] # None => f[q] = None
    BY <1>2 DEF Files
  <2> QED
    BY <1>1, <1>2, <2>1, <2>2 DEF Above, Below
<1> QED
  BY <1>1, <1>2 DEF Files

\* A replacement: only what it found or wrote is replaced.
LEMMA replaceStep ==
    ASSUME IInv, NEW p \in Path, NEW direction \in {"apply", "rollback"}, replace(p, direction)
    PROVE  IInv'
<1>1. CASE Stuck(p, direction)
  BY <1>1, FailStep DEF replace
<1>2. CASE ~Stuck(p, direction)
  <2> DEFINE c == journal.install[p]
             x == Desired(c, direction)
  <2>1. /\ p \in Replaceable(direction)
        /\ disk' = [disk EXCEPT ![p] = x] /\ Finish(p)
        /\ UNCHANGED <<head, rec, lease, next, tip, version, journal, failure, kept, mine>>
    BY <1>2 DEF replace, authority, ghosts
  <2>2. At(direction) /\ p \in DOMAIN journal.install
    BY <2>1 DEF Replaceable, Upcoming
  <2>3. /\ call # None /\ call.step = direction /\ journal # None /\ journal.install # None
        /\ PlanOK(journal.install, lease, rec, journal, next, version, mine)
        /\ Undone(rec, journal)
        /\ Made(call.finished, direction, disk, journal.install)
        /\ direction = "rollback" =>
              journal.kind = "acquire" /\ rec # journal.after /\ rec = journal.before
    BY <2>2, DirectionFacts
  <2>4. /\ DOMAIN journal.install \subseteq Path
        /\ c.before \in Image /\ c.after \in Image /\ ChangeOK(p, c, rec, journal, mine)
    BY <2>2, <2>3, InstallFacts
  <2>5. x \in {c.before, c.after} /\ x \in Image
    BY <2>4 DEF Desired
  <2>6. /\ disk[p] = x \/ (disk[p] = Expected(c, direction) /\ Room(disk, c, p, direction))
        /\ disk[p] = x \/ disk[p] \in {c.before, c.after}
    BY <1>2 DEF Stuck, SourceMatches, Expected
  <2>7. /\ disk \in Files /\ disk \in [Path -> Image]
        /\ \A q \in Path : disk'[q] = IF q = p THEN x ELSE disk[q]
    BY <2>1 DEF IInv, Typed, Files
  <2>8. disk' \in Files
    <3>1. CASE disk[p] = x
      <4>1. disk' = disk
        BY <2>1, <2>7, <3>1
      <4> QED
        BY <2>7, <4>1
    <3>2. CASE Room(disk, c, p, direction)
      BY <2>1, <2>5, <2>7, <3>2, RoomKeepsFiles DEF Room
    <3> QED
      BY <2>6, <3>1, <3>2
  <2>9. /\ SessionShape(call') /\ call'.step = direction
        /\ call'.finished = call.finished \cup {p}
    BY <2>1, <2>3, FinishShape DEF IInv
  <2>10. p \notin mine => FileOK(p, x, rec, journal)
    BY <2>2, <2>3, <2>4 DEF FileOK, Changed, ChangeOK, Desired
  <2>11. KeptOK(p, x, kept[p], journal)
    <3>1. KeptOK(p, disk[p], kept[p], journal)
      BY <2>3, JournalFacts
    <3> QED
      BY <2>2, <2>3, <2>4, <2>5, <2>6, <3>1 DEF KeptOK, Changed, ChangeOK
  <2>12. Typed'
    BY <2>1, <2>8, <2>9 DEF IInv, Typed
  <2>13. LeasesOK'
    BY <2>1 DEF IInv, LeasesOK
  <2>14. FilesOK'
    <3>1. ASSUME NEW q \in Path
          PROVE  /\ q \notin mine => FileOK(q, disk'[q], rec, journal)
                 /\ KeptOK(q, disk'[q], kept[q], journal)
      BY <2>3, <2>7, <2>10, <2>11, JournalFacts
    <3> QED
      BY <2>1, <2>3, <3>1 DEF IInv, FilesOK
  <2>15. Made(call'.finished, direction, disk', journal.install)
    BY <2>3, <2>4, <2>7, <2>9 DEF Made
  <2>16. CallOK'
    BY <2>1, <2>3, <2>9, <2>15
       DEF CallOK, EarlyOK, ForwardOK, BackwardOK, Steps, Early, Forward
  <2> QED
    BY <2>12, <2>13, <2>14, <2>16 DEF IInv
<1> QED
  BY <1>1, <1>2

\* Kills that leave a mark in the journal's directory: a torn image, or lost
\* ones.
LEMMA MarkStep ==
    ASSUME IInv, journal # None, call' = None, failure' = "crash",
           UNCHANGED <<disk, head, rec, lease, next, tip, version, kept, mine>>,
           \/ \E pair \in {"apply", "rollback"} \X Path :
                 journal' = [journal EXCEPT !.torn = @ \cup {pair}]
           \/ journal' = [journal EXCEPT !.images = FALSE]
    PROVE  IInv'
<1>1. journal \in Journal
  BY DEF IInv, Typed
<1>2. /\ journal' \in Journal /\ journal' # None /\ journal'.install = journal.install
      /\ journal'.kind = journal.kind /\ journal'.before = journal.before
      /\ journal'.after = journal.after /\ journal'.paths = journal.paths
      /\ journal'.grants = journal.grants /\ journal'.tokens = journal.tokens
      /\ journal'.gives = journal.gives /\ journal'.takes = journal.takes
  <2>1. CASE journal' = [journal EXCEPT !.images = FALSE]
    <3>1. journal' \in Journal
      BY <1>1, <2>1 DEF Journal
    <3> QED
      BY <1>1, <2>1, <3>1, NoneAssumption DEF Journal
  <2>2. ASSUME NEW pair \in {"apply", "rollback"} \X Path,
               journal' = [journal EXCEPT !.torn = @ \cup {pair}]
        PROVE  /\ journal' \in Journal /\ journal' # None /\ journal'.install = journal.install
               /\ journal'.kind = journal.kind /\ journal'.before = journal.before
               /\ journal'.after = journal.after /\ journal'.paths = journal.paths
               /\ journal'.grants = journal.grants /\ journal'.tokens = journal.tokens
               /\ journal'.gives = journal.gives /\ journal'.takes = journal.takes
    <3>1. journal.torn \cup {pair} \in SUBSET ({"apply", "rollback"} \X Path)
      BY <1>1 DEF Journal
    <3>2. journal' \in Journal
      BY <1>1, <2>2, <3>1 DEF Journal
    <3> QED
      BY <1>1, <2>2, <3>2, NoneAssumption DEF Journal
  <2> QED
    BY <2>1, <2>2
<1>3. Typed'
  BY <1>2 DEF IInv, Typed
<1>4. LeasesOK'
  BY <1>2 DEF IInv, LeasesOK, LeaseOK, Fresh
<1>5. journal.install # None =>
          PlanOK(journal.install, lease, rec, journal', next, version, mine)
  BY <1>2, PlanSame DEF IInv, FilesOK
<1>6. ASSUME NEW p \in Path
      PROVE  /\ p \notin mine => FileOK(p, disk[p], rec, journal')
             /\ KeptOK(p, disk[p], kept[p], journal')
  BY <1>2 DEF IInv, FilesOK, FileOK, KeptOK, Changed
<1>7. FilesOK'
  BY <1>2, <1>5, <1>6 DEF IInv, FilesOK, Undone
<1>8. CallOK'
  BY DEF CallOK
<1> QED
  BY <1>3, <1>4, <1>7, <1>8 DEF IInv

\* A kill tears the clone of an image: the path of it is marked and no file changes.
LEMMA TearCloneStep ==
    ASSUME IInv, NEW p \in Path, NEW direction \in {"apply", "rollback"}, TearClone(p, direction)
    PROVE  IInv'
<1>1. At(direction)
  BY DEF TearClone, Replaceable
<1>2. journal # None
  BY <1>1, DirectionFacts
<1>3. \E pair \in {"apply", "rollback"} \X Path : journal' = [journal EXCEPT !.torn = @ \cup {pair}]
  BY DEF TearClone
<1> QED
  BY <1>2, <1>3, MarkStep DEF TearClone, files, authority, ghosts

\* All changes are made, or all are undone.
LEMMA AppliedStep ==
    ASSUME IInv, NEW direction \in {"apply", "rollback"}, Applied(direction)
    PROVE  IInv'
<1>1. /\ At(direction) /\ DOMAIN journal.install \subseteq call.finished
      /\ Go(IF direction = "apply" THEN "activate" ELSE "release", Nothing)
      /\ UNCHANGED Place /\ UNCHANGED failure
  BY DEF Applied, files, authority, ghosts, Place
<1>2. /\ call # None /\ call.step = direction /\ journal # None /\ journal.install # None
      /\ PlanOK(journal.install, lease, rec, journal, next, version, mine)
      /\ Undone(rec, journal)
      /\ Made(call.finished, direction, disk, journal.install)
      /\ direction = "rollback" =>
            journal.kind = "acquire" /\ rec # journal.after /\ rec = journal.before
  BY <1>1, DirectionFacts
<1>3. PICK step : step = IF direction = "apply" THEN "activate" ELSE "release"
  OBVIOUS
<1>4. SessionShape(call') /\ call'.step = step /\ call'.finished = {}
  BY <1>1, <1>2, <1>3, GoShape DEF IInv
<1>5. DOMAIN journal.install \subseteq Path
  BY <1>2, InstallFacts
<1>6. Made(Path, direction, disk, journal.install)
  BY <1>1, <1>2 DEF Made
<1>7. CASE direction = "apply"
  <2>1. Activated(DOMAIN journal.grants \cap {}, lease)
    BY DEF Activated
  <2>2. CallOK'
    BY <1>1, <1>2, <1>3, <1>4, <1>6, <1>7, <2>1
       DEF CallOK, EarlyOK, ForwardOK, BackwardOK, Steps, Early, Forward, Place
  <2> QED
    BY <1>1, <1>4, <2>2, Moves DEF IInv, Typed
<1>8. CASE direction = "rollback"
  <2>1. head = rec.head
    BY <1>2, <1>8 DEF IInv, FilesOK
  <2>2. ASSUME NEW p \in Path, p \notin mine
        PROVE  disk[p] = Baseline(rec, p)
    <3>1. CASE p \in DOMAIN journal.install
      <4>1. ChangeOK(p, journal.install[p], rec, journal, mine)
        BY <1>2, <3>1, InstallFacts
      <4>2. disk[p] = journal.install[p].before
        BY <1>5, <1>6, <1>8, <3>1 DEF Made, Desired
      <4> QED
        BY <1>2, <1>8, <2>2, <4>1, <4>2 DEF ChangeOK
    <3>2. CASE p \notin DOMAIN journal.install
      <4>1. FileOK(p, disk[p], rec, journal)
        BY <1>2, <1>8, <2>2, JournalFacts
      <4> QED
        BY <3>2, <4>1 DEF FileOK, Changed
    <3> QED
      BY <3>1, <3>2
  <2>3. AtRest(disk, rec, mine)
    BY <2>2 DEF AtRest
  <2>4. CallOK'
    BY <1>1, <1>2, <1>3, <1>4, <1>8, <2>1, <2>3
       DEF CallOK, EarlyOK, ForwardOK, BackwardOK, Steps, Early, Forward, Place
  <2> QED
    BY <1>1, <1>4, <2>4, Moves DEF IInv, Typed
<1> QED
  BY <1>7, <1>8

-----------------------------------------------------------------------------
\* Acknowledgement.

\* A session that activates or saves has installed all of the change set.
LEMMA ForwardFacts ==
    ASSUME IInv, call # None, call.step \in {"activate", "save"}
    PROVE  /\ journal \in Journal /\ journal # None /\ journal.install # None
           /\ PlanOK(journal.install, lease, rec, journal, next, version, mine)
           /\ Undone(rec, journal) /\ Made(Path, "apply", disk, journal.install)
           /\ rec \in {journal.before, journal.after}
           /\ ForwardOK /\ SessionShape(call)
<1>1. /\ journal \in Journal /\ journal # None /\ rec \in {journal.before, journal.after}
      /\ ForwardOK /\ SessionShape(call)
  BY JournalFacts
<1>2. journal.install # None
  BY <1>1 DEF ForwardOK, Forward
<1> QED
  BY <1>1, <1>2, JournalFacts DEF ForwardOK, Forward

\* A reservation is acknowledged; one that is gone fails the call, or turns a
\* recovery back.
LEMMA activateStep ==
    ASSUME IInv, NEW p \in Path, activate(p)
    PROVE  IInv'
<1>1. call # None /\ call.step = "activate" /\ p \in DOMAIN journal.grants
  BY DEF activate, At
<1>2. /\ journal \in Journal /\ journal # None /\ journal.install # None
      /\ PlanOK(journal.install, lease, rec, journal, next, version, mine)
      /\ Undone(rec, journal) /\ Made(Path, "apply", disk, journal.install)
      /\ ForwardOK /\ SessionShape(call)
  BY <1>1, ForwardFacts
<1>3. CASE Stale(p) /\ ~call.recovering
  BY <1>3, FailStep DEF activate
<1>4. CASE Stale(p) /\ call.recovering
  <2>1. Go("abort", Nothing) /\ UNCHANGED Place /\ UNCHANGED failure
    BY <1>4 DEF activate, files, authority, ghosts, Place
  <2>2. SessionShape(call') /\ call'.step = "abort"
    BY <1>1, <2>1, GoShape DEF IInv
  <2>3. journal.kind = "acquire" /\ rec # journal.after
    BY <1>1, <1>2 DEF PlanOK, AfterOK, Undone, Journal
  <2>4. CallOK'
    BY <1>2, <2>1, <2>2, <2>3
       DEF CallOK, EarlyOK, ForwardOK, BackwardOK, Steps, Early, Forward, Place
  <2> QED
    BY <2>1, <2>2, <2>4, Moves DEF IInv, Typed
<1>5. CASE ~Stale(p)
  <2>1. /\ lease' = [lease EXCEPT ![p].activated = TRUE] /\ Finish(p)
        /\ UNCHANGED <<disk, head, rec, next, tip, version, journal, failure, kept, mine>>
    BY <1>5 DEF activate, files, ghosts
  <2>2. lease \in [Path -> {None, Other} \cup Grant] /\ next \in Nat /\ version \in Nat
    BY DEF IInv, Typed
  <2>3. Ours(lease[p]) /\ lease[p] \in Grant
    BY <1>5, <2>2 DEF Stale, Ours
  <2>4. /\ lease'[p] = [lease[p] EXCEPT !.activated = TRUE]
        /\ \A q \in Path : q # p => lease'[q] = lease[q]
    BY <2>1, <2>2
  <2>5. /\ lease'[p] \in Grant /\ lease'[p].activated
        /\ lease'[p].token = lease[p].token /\ lease'[p].origin = lease[p].origin
    BY <2>3, <2>4 DEF Grant
  <2>6. lease' \in [Path -> {None, Other} \cup Grant]
    BY <2>1, <2>2, <2>4, <2>5
  <2>7. \A q \in Path : Ours(lease'[q]) => /\ Ours(lease[q]) /\ lease'[q].token = lease[q].token
                                           /\ lease'[q].origin = lease[q].origin
                                           /\ lease[q].activated => lease'[q].activated
    BY <2>3, <2>4, <2>5
  <2>8. /\ SessionShape(call') /\ call'.step = "activate"
        /\ call'.finished = call.finished \cup {p}
    BY <1>1, <2>1, FinishShape DEF IInv
  <2>9. Typed'
    BY <2>1, <2>6, <2>8 DEF IInv, Typed
  <2>10. ASSUME NEW q \in Path
         PROVE  LeaseOK(q, lease'[q], rec, journal, next)
    <3>1. LeaseOK(q, lease[q], rec, journal, next)
      BY DEF IInv, LeasesOK
    <3> QED
      BY <2>7, <3>1 DEF LeaseOK, Known, Fresh, CaptureOK
  <2>11. LeasesOK'
    BY <2>1, <2>10 DEF LeasesOK
  <2>12. PlanOK(journal.install, lease', rec, journal, next, version, mine)
    <3>1. next <= next /\ version <= version
      BY <2>2
    <3> QED
      BY <1>2, <2>2, <2>7, <3>1, PlanKept
  <2>13. FilesOK'
    BY <1>2, <2>1, <2>12 DEF IInv, FilesOK
  <2>14. DOMAIN journal.grants \subseteq Path
    BY <1>1, JournalFacts
  <2>15. Activated(DOMAIN journal.grants \cap call'.finished, lease')
    BY <1>1, <1>2, <2>5, <2>7, <2>8, <2>14 DEF Activated, ForwardOK
  <2>16. CallOK'
    BY <1>2, <2>1, <2>8, <2>15
       DEF CallOK, EarlyOK, ForwardOK, BackwardOK, Steps, Early, Forward
  <2> QED
    BY <2>9, <2>11, <2>13, <2>16 DEF IInv
<1> QED
  BY <1>3, <1>4, <1>5

\* The worktree comes to the commit of the new record.
LEMMA ResetHeadStep ==
    ASSUME IInv, ResetHead
    PROVE  IInv'
<1>1. /\ call # None /\ call.step = "activate" /\ DOMAIN journal.grants \subseteq call.finished
      /\ head' = journal.after.head /\ Go("save", Nothing)
      /\ UNCHANGED <<disk, rec, lease, next, tip, version, journal, failure, kept, mine>>
  BY DEF ResetHead, At, authority, ghosts
<1>2. /\ journal \in Journal /\ journal # None /\ journal.install # None
      /\ PlanOK(journal.install, lease, rec, journal, next, version, mine)
      /\ Undone(rec, journal) /\ Made(Path, "apply", disk, journal.install)
      /\ rec \in {journal.before, journal.after}
      /\ ForwardOK
  BY <1>1, ForwardFacts
<1>3. /\ journal.after.head \in Nat /\ journal.after.head <= version
      /\ journal.kind # "sync" => journal.after.head = rec.head
  BY <1>2 DEF PlanOK, AfterOK, LeafRecord
<1>4. SessionShape(call') /\ call'.step = "save"
  BY <1>1, GoShape DEF IInv
<1>5. Typed'
  BY <1>1, <1>3, <1>4 DEF IInv, Typed
<1>6. LeasesOK'
  BY <1>1 DEF IInv, LeasesOK
<1>7. FilesOK'
  BY <1>1, <1>2, <1>3 DEF IInv, FilesOK
<1>8. Activated(DOMAIN journal.grants, lease)
  BY <1>1, <1>2 DEF ForwardOK, Activated
<1>9. CallOK'
  BY <1>1, <1>2, <1>4, <1>8 DEF CallOK, EarlyOK, ForwardOK, BackwardOK, Steps, Early, Forward
<1> QED
  BY <1>5, <1>6, <1>7, <1>9 DEF IInv

\* The record is written last: it names the reservations, and the files are
\* as it says.
LEMMA save_leafStep ==
    ASSUME IInv, save_leaf
    PROVE  IInv'
<1> DEFINE r == journal.after
           install == journal.install
<1>1. /\ call # None /\ call.step = "save" /\ rec' = r /\ Go("clean", Nothing) /\ kept' = disk
      /\ mine' = (mine \ (journal.gives \cap DOMAIN install)) \cup journal.takes
      /\ UNCHANGED <<disk, head, lease, next, tip, version, journal, failure>>
  BY DEF save_leaf, At, files, authority
<1>2. /\ journal \in Journal /\ journal # None /\ install # None
      /\ PlanOK(install, lease, rec, journal, next, version, mine)
      /\ Made(Path, "apply", disk, install)
      /\ rec \in {journal.before, r}
      /\ Activated(DOMAIN journal.grants, lease) /\ head = r.head
  BY <1>1, ForwardFacts DEF ForwardOK
<1>3. /\ r \in LeafRecord /\ r.head <= version
      /\ r.pending = journal.before.pending
      /\ \A p \in DOMAIN journal.before.pending : r.origins[p] = journal.before.origins[p]
      /\ journal.kind # "acquire" => r.grants = journal.before.grants
  BY <1>2 DEF PlanOK, AfterOK
<1>4. SessionShape(call') /\ call'.step = "clean"
  BY <1>1, GoShape DEF IInv
<1>5. Typed'
  <2>1. journal.takes \subseteq Path
    BY <1>2 DEF Journal
  <2>2. disk \in [Path -> Image]
    BY DEF IInv, Typed, Files
  <2> QED
    BY <1>1, <1>3, <1>4, <2>1, <2>2 DEF IInv, Typed
<1>6. ASSUME NEW p \in Path
      PROVE  LeaseOK(p, lease[p], r, journal, next) /\ (Ours(lease[p]) => Known(p, lease[p], r))
  <2>1. LeaseOK(p, lease[p], rec, journal, next)
    BY DEF IInv, LeasesOK
  <2>2. GrantOK(p, lease[p], journal, next)
    BY <1>2 DEF PlanOK
  <2>3. CaptureOK(p, lease[p], r)
    BY <1>2, <1>3, <2>1 DEF LeaseOK, CaptureOK
  <2>4. CASE journal.kind = "acquire" /\ p \in journal.paths
    <3>1. /\ p \in DOMAIN journal.grants /\ p \in DOMAIN r.grants
          /\ r.grants[p].token = journal.grants[p].token /\ r.grants[p].token < next
          /\ Ours(lease[p]) => lease[p].token = journal.grants[p].token
      BY <2>2, <2>4 DEF GrantOK
    <3> QED
      BY <1>2, <2>1, <2>3, <3>1 DEF LeaseOK, Known, Activated
  <2>5. CASE ~(journal.kind = "acquire" /\ p \in journal.paths)
    <3>1. ~Fresh(p, lease[p], rec, journal)
      BY <2>5 DEF Fresh
    <3>2. /\ p \in DOMAIN r.grants <=> p \in DOMAIN rec.grants
          /\ p \in DOMAIN r.grants => r.grants[p] = rec.grants[p]
      BY <1>2, <1>3, <2>2, <2>5 DEF GrantOK
    <3> QED
      BY <2>1, <2>3, <3>1, <3>2 DEF LeaseOK, Known
  <2> QED
    BY <2>4, <2>5
<1>7. LeasesOK' /\ AllKnown(lease, r)
  BY <1>1, <1>6 DEF LeasesOK, AllKnown
<1>8. ASSUME NEW p \in Path, p \notin mine'
      PROVE  disk[p] = Baseline(r, p)
  <2>1. p \notin journal.takes /\ (p \notin mine \/ p \in journal.gives \cap DOMAIN install)
    BY <1>1, <1>8
  <2>2. CASE p \in DOMAIN install
    <3>1. disk[p] = install[p].after /\ ChangeOK(p, install[p], rec, journal, mine)
      BY <1>2, <2>2, InstallFacts DEF Made, Desired
    <3> QED
      BY <2>1, <3>1 DEF ChangeOK
  <2>3. CASE p \notin DOMAIN install
    <3>1. Baseline(r, p) = Baseline(journal.before, p)
      BY <1>2, <2>3 DEF PlanOK
    <3>2. FileOK(p, disk[p], rec, journal)
      BY <1>1, <2>1, <2>3, JournalFacts
    <3> QED
      BY <1>2, <2>3, <3>1, <3>2 DEF FileOK, Changed
  <2> QED
    BY <2>2, <2>3
<1>9. AtRest(disk, r, mine')
  BY <1>8 DEF AtRest
<1>10. PlanOK(install, lease, r, journal, next, version, mine')
  <2>1. ASSUME NEW p \in DOMAIN install
        PROVE  ChangeOK(p, install[p], r, journal, mine')
    <3>1. ChangeOK(p, install[p], rec, journal, mine)
      BY <1>2, InstallFacts
    <3> QED
      BY <1>1, <3>1 DEF ChangeOK
  <2> QED
    BY <1>2, <2>1 DEF PlanOK
<1>11. FilesOK'
  <2>1. ASSUME NEW p \in Path
        PROVE  /\ p \notin mine' => FileOK(p, disk[p], r, journal)
               /\ KeptOK(p, disk[p], kept'[p], journal)
    BY <1>1, <1>8 DEF FileOK, KeptOK
  <2> QED
    BY <1>1, <1>2, <1>9, <1>10, <2>1 DEF FilesOK
<1>12. CallOK'
  BY <1>1, <1>2, <1>4, <1>7, <1>9
     DEF CallOK, EarlyOK, ForwardOK, BackwardOK, Steps, Early, Forward
<1> QED
  BY <1>5, <1>7, <1>11, <1>12 DEF IInv

-----------------------------------------------------------------------------
\* The way back, and the end of the journal.

\* An abort releases what this acquisition reserved.
LEMMA releaseStep ==
    ASSUME IInv, NEW p \in Path, release(p)
    PROVE  IInv'
<1>1. /\ call # None /\ call.step = "release" /\ lease' = [lease EXCEPT ![p] = None]
      /\ UNCHANGED <<disk, head, rec, next, tip, version, journal, call, failure, kept, mine>>
  BY DEF release, At, files, ghosts
<1>2. lease' \in [Path -> {None, Other} \cup Grant] /\ LeasesOK' /\ FilesOK'
  BY <1>1, LeaseLoss
<1>3. Typed'
  BY <1>1, <1>2 DEF IInv, Typed
<1>4. CallOK'
  BY <1>1, <1>2 DEF IInv, CallOK, EarlyOK, ForwardOK, BackwardOK, Early, Forward
<1> QED
  BY <1>2, <1>3, <1>4 DEF IInv

\* Nothing is left of the acquisition at the authority.
LEMMA ReleasedStep ==
    ASSUME IInv, Released
    PROVE  IInv'
<1>1. /\ call # None /\ call.step = "release" /\ Acquired = {} /\ Go("clean", Nothing)
      /\ kept' = disk
      /\ UNCHANGED <<disk, head, rec, lease, next, tip, version, journal, failure, mine>>
  BY DEF Released, At, files, authority
<1>2. journal # None /\ head = rec.head /\ AtRest(disk, rec, mine)
  BY <1>1, JournalFacts DEF BackwardOK
<1>3. ASSUME NEW p \in Path, Ours(lease[p])
      PROVE  ~Fresh(p, lease[p], rec, journal)
  BY <1>1, <1>3 DEF Acquired, Fresh
<1>4. AllKnown(lease, rec)
  BY <1>3 DEF AllKnown, IInv, LeasesOK, LeaseOK
<1>5. SessionShape(call') /\ call'.step = "clean"
  BY <1>1, GoShape DEF IInv
<1>6. Typed'
  <2>1. disk \in [Path -> Image]
    BY DEF IInv, Typed, Files
  <2> QED
    BY <1>1, <1>5, <2>1 DEF IInv, Typed
<1>7. LeasesOK'
  BY <1>1 DEF IInv, LeasesOK
<1>8. FilesOK'
  <2>1. \A p \in Path : KeptOK(p, disk[p], kept'[p], journal)
    BY <1>1 DEF KeptOK
  <2> QED
    BY <1>1, <1>2, <2>1 DEF IInv, FilesOK
<1>9. CallOK'
  BY <1>1, <1>2, <1>4, <1>5 DEF CallOK, EarlyOK, ForwardOK, BackwardOK, Steps, Early, Forward
<1> QED
  BY <1>6, <1>7, <1>8, <1>9 DEF IInv

\* Forward only with a complete plan.
LEMMA recoverStep ==
    ASSUME IInv, recover
    PROVE  IInv'
<1>1. /\ call # None /\ call.step = "recover"
      /\ Go(IF journal.after = None \/ journal.install = None THEN "abort" ELSE "complete", Nothing)
      /\ UNCHANGED Place /\ UNCHANGED failure
  BY DEF recover, At, files, authority, ghosts, Place
<1>2. /\ journal # None
      /\ journal.install # None => PlanOK(journal.install, lease, rec, journal, next, version, mine)
  BY <1>1, JournalFacts
<1>3. journal.install # None => journal.after # None
  BY <1>2, NoneAssumption DEF PlanOK, AfterOK
<1>4. PICK step : step = IF journal.install = None THEN "abort" ELSE "complete"
  OBVIOUS
<1>5. SessionShape(call') /\ call'.step = step
  BY <1>1, <1>3, <1>4, GoShape DEF IInv
<1>6. CallOK'
  BY <1>1, <1>2, <1>4, <1>5
     DEF CallOK, EarlyOK, ForwardOK, BackwardOK, Steps, Early, Forward, Place
<1> QED
  BY <1>1, <1>5, <1>6, Moves DEF IInv, Typed

\* An abort decides whether there is something to roll back.
LEMMA abort_viewStep ==
    ASSUME IInv, abort_view
    PROVE  IInv'
<1>1. /\ call # None /\ call.step = "abort"
      /\ Go(IF journal.install = None THEN "release" ELSE "rollback", Nothing)
      /\ UNCHANGED Place /\ UNCHANGED failure
  BY DEF abort_view, At, files, authority, ghosts, Place
<1>2. journal # None /\ BackwardOK
  BY <1>1, JournalFacts
<1>3. journal.install = None => head = rec.head /\ AtRest(disk, rec, mine)
  BY <1>1, Untouched
<1>4. PICK step : step = IF journal.install = None THEN "release" ELSE "rollback"
  OBVIOUS
<1>5. SessionShape(call') /\ call'.step = step /\ call'.finished = {}
  BY <1>1, <1>4, GoShape DEF IInv
<1>6. Made({}, "rollback", disk, journal.install)
  BY DEF Made
<1>7. CallOK'
  BY <1>1, <1>2, <1>3, <1>4, <1>5, <1>6
     DEF CallOK, EarlyOK, ForwardOK, BackwardOK, Steps, Early, Forward, Place
<1> QED
  BY <1>1, <1>5, <1>7, Moves DEF IInv, Typed

\* What a session knows that removes the journal.
LEMMA CleanFacts ==
    ASSUME IInv, At("clean")
    PROVE  /\ call # None /\ call.step = "clean"
           /\ journal \in Journal /\ journal # None /\ rec \in {journal.before, journal.after}
           /\ head = rec.head /\ AtRest(disk, rec, mine)
           /\ AllKnown(lease, rec) /\ disk = kept
<1>1. call # None /\ call.step = "clean"
  BY DEF At
<1> QED
  BY <1>1, JournalFacts DEF BackwardOK

\* The journal is removed last, when everything agrees.
LEMMA remove_directoryStep ==
    ASSUME IInv, remove_directory
    PROVE  IInv'
<1>1. /\ At("clean") /\ journal' = None
      /\ call' = IF call.recovering THEN Session("ready", FALSE) ELSE None
      /\ UNCHANGED <<disk, head, rec, lease, next, tip, version, failure, kept, mine>>
  BY DEF remove_directory, files, authority, ghosts
<1>2. head = rec.head /\ AtRest(disk, rec, mine) /\ AllKnown(lease, rec) /\ disk = kept
  BY <1>1, CleanFacts
<1>3. call' # None => SessionShape(call') /\ call'.step = "ready" /\ call'.choices = Nothing
  BY <1>1 DEF Session, SessionShape
<1>4. Typed'
  BY <1>1, <1>3 DEF IInv, Typed
<1>5. LeasesOK'
  BY <1>1, <1>2 DEF IInv, LeasesOK, LeaseOK, AllKnown
<1>6. FilesOK'
  BY <1>1, <1>2 DEF FilesOK
<1>7. CallOK'
  BY <1>1, <1>3 DEF CallOK, EarlyOK, ForwardOK, BackwardOK, Steps, Early, Forward
<1> QED
  BY <1>4, <1>5, <1>6, <1>7 DEF IInv

\* The installation record is gone and the journal is not: everything was
\* in order before, so going back changes nothing.
LEMMA TearCleanupStep ==
    ASSUME IInv, TearCleanup
    PROVE  IInv'
<1>1. /\ At("clean") /\ call' = None /\ failure' = "crash"
      /\ UNCHANGED <<disk, head, rec, lease, next, tip, version, kept, mine>>
  BY DEF TearCleanup, files, authority, ghosts
<1>2. /\ journal \in Journal /\ journal # None /\ rec \in {journal.before, journal.after}
      /\ head = rec.head /\ AtRest(disk, rec, mine)
      /\ AllKnown(lease, rec) /\ disk = kept
  BY <1>1, CleanFacts
<1>3. CASE journal' = [journal EXCEPT !.images = FALSE]
  BY <1>1, <1>2, <1>3, MarkStep
<1>4. CASE journal' = [journal EXCEPT !.install = None]
  <2>1. journal' \in Journal /\ journal' # None
    <3>1. journal' \in Journal
      BY <1>2, <1>4 DEF Journal
    <3> QED
      BY <3>1, NoneAssumption
  <2>2. /\ journal'.install = None /\ journal'.before = journal.before
        /\ journal'.after = journal.after
    BY <1>2, <1>4 DEF Journal
  <2>3. Typed'
    BY <1>1, <2>1 DEF IInv, Typed
  <2>4. LeasesOK'
    BY <1>1, <1>2 DEF IInv, LeasesOK, LeaseOK, AllKnown
  <2>5. \A p \in Path : /\ p \notin mine => FileOK(p, disk[p], rec, journal')
                        /\ KeptOK(p, disk[p], kept[p], journal')
    BY <1>2 DEF AtRest, FileOK, KeptOK
  <2>6. FilesOK'
    BY <1>1, <1>2, <2>1, <2>2, <2>5 DEF FilesOK
  <2>7. CallOK'
    BY <1>1 DEF CallOK
  <2> QED
    BY <2>3, <2>4, <2>6, <2>7 DEF IInv
<1> QED
  BY <1>3, <1>4 DEF TearCleanup

-----------------------------------------------------------------------------
\* The invariant, and what follows from it.

\* A forked leaf has no journal and holds what its record says.
LEMMA Initially ==
    ASSUME Init
    PROVE  IInv
<1>1. PICK tree \in Tree, pending \in Pending, b \in Budgets :
        LET grants == [p \in DOMAIN pending |->
                         [token |-> 1, origin |-> tree[p], activated |-> TRUE]]
        IN  /\ disk = [p \in Path |-> IF p \in DOMAIN pending THEN pending[p] ELSE tree[p]]
            /\ disk \in Files /\ \A p \in DOMAIN pending : pending[p] # tree[p]
            /\ rec = [origins |-> tree, head |-> 1, grants |-> grants, pending |-> pending]
            /\ lease = [p \in Path |-> IF p \in DOMAIN pending THEN grants[p] ELSE None]
            /\ head = 1 /\ version = 1 /\ tip = tree /\ next = 2
            /\ journal = None /\ call = None /\ failure = None
            /\ kept = disk /\ mine = {} /\ budget = b
  BY DEF Init
<1> DEFINE grants == [p \in DOMAIN pending |->
                        [token |-> 1, origin |-> tree[p], activated |-> TRUE]]
<1>2. /\ tree \in Files /\ tree \in [Path -> Image]
      /\ pending \in Partial(Image) /\ DOMAIN pending \subseteq Path
  BY ArgumentsAssumption, PartialShape DEF Files
<1>3. grants \in [DOMAIN pending -> Grant] /\ grants \in Partial(Grant)
  <2>1. grants \in [DOMAIN pending -> Grant]
    BY <1>2 DEF Grant
  <2> QED
    BY <1>2, <2>1, PartialShape
<1>4. /\ DOMAIN grants = DOMAIN pending
      /\ \A p \in DOMAIN pending : /\ grants[p].token = 1 /\ grants[p].origin = tree[p]
                                   /\ grants[p].activated
  OBVIOUS
<1>5. /\ rec = [origins |-> tree, head |-> 1, grants |-> grants, pending |-> pending]
      /\ lease = [p \in Path |-> IF p \in DOMAIN pending THEN grants[p] ELSE None]
  BY <1>1
<1> HIDE DEF grants
<1>6. rec \in LeafRecord
  BY <1>2, <1>3, <1>5 DEF LeafRecord
<1>7. lease \in [Path -> {None, Other} \cup Grant]
  BY <1>2, <1>3, <1>5
<1>8. Typed
  BY <1>1, <1>2, <1>5, <1>6, <1>7 DEF Typed, Files
<1>9. LeasesOK
  BY <1>1, <1>2, <1>3, <1>4, <1>5 DEF LeasesOK, LeaseOK, Known, CaptureOK, Ours
<1>10. FilesOK
  BY <1>1, <1>2, <1>5 DEF FilesOK, AtRest, Baseline
<1>11. CallOK
  BY <1>1 DEF CallOK
<1> QED
  BY <1>8, <1>9, <1>10, <1>11 DEF IInv

\* The invariant is inductive.
LEMMA Consecution ==
    ASSUME IInv, [Next]_vars
    PROVE  IInv'
<1>1. CASE World
  <2>1. ASSUME NEW p \in Path, OtherReserves(p) PROVE IInv'
    BY <2>1, OtherReservesStep
  <2>2. ASSUME NEW p \in Path, Revoke(p) PROVE IInv'
    BY <2>2, RevokeStep
  <2>3. ASSUME NEW p \in Path, NEW x \in Image, Edit(p, x) PROVE IInv'
    BY <2>3, EditStep
  <2>4. ASSUME NEW p \in Path, NEW x \in Image, OtherPublishes(p, x) PROVE IInv'
    BY <2>4, OtherPublishesStep
  <2> QED
    BY <1>1, <2>1, <2>2, <2>3, <2>4, CrashStep DEF World
<1>2. CASE Operation
  <2>1. ASSUME NEW paths \in Requests, acquire(paths) \/ discard(paths) PROVE IInv'
    BY <2>1, acquireStep, discardStep
  <2>2. ASSUME NEW choices \in Choices, resolve(choices) PROVE IInv'
    BY <2>2, resolveStep
  <2>3. ASSUME NEW p \in Path, activate(p) \/ release(p) PROVE IInv'
    BY <2>3, activateStep, releaseStep
  <2>4. ASSUME NEW direction \in {"apply", "rollback"}, Applied(direction) PROVE IInv'
    BY <2>4, AppliedStep
  <2>5. ASSUME NEW direction \in {"apply", "rollback"}, NEW p \in Path,
               replace(p, direction) \/ TearClone(p, direction)
        PROVE  IInv'
    BY <2>5, replaceStep, TearCloneStep
  <2>6. CASE Lock \/ Return \/ sync
    BY <2>6, LockStep, ReturnStep, syncStep
  <2>7. CASE Reserve \/ Record \/ prepare_installation \/ complete_view
    BY <2>7, ReserveStep, RecordStep, prepare_installationStep, complete_viewStep
  <2>8. CASE ResetHead \/ save_leaf \/ Released \/ recover \/ abort_view \/ remove_directory
    BY <2>8, ResetHeadStep, save_leafStep, ReleasedStep, recoverStep, abort_viewStep,
       remove_directoryStep
  <2>9. CASE TearCleanup
    BY <2>9, TearCleanupStep
  <2> QED
    BY <1>2, <2>1, <2>2, <2>3, <2>4, <2>5, <2>6, <2>7, <2>8, <2>9 DEF Operation
<1>3. CASE UNCHANGED vars
  <2>1. UNCHANGED Place /\ UNCHANGED <<call, failure>>
    BY <1>3 DEF vars, files, authority, ghosts, Place
  <2>2. CallOK'
    BY <2>1 DEF IInv, CallOK, EarlyOK, ForwardOK, BackwardOK, Place
  <2> QED
    BY <2>1, <2>2, Moves DEF IInv, Typed
<1> QED
  BY <1>1, <1>2, <1>3 DEF Next

\* The invariant holds of every state.
THEOREM Invariance == Spec => []IInv
<1>1. Init => IInv
  BY Initially
<1>2. IInv /\ [Next]_vars => IInv'
  BY Consecution
<1> QED
  BY <1>1, <1>2, PTL DEF Spec

\* Every variable always holds a value of the kind the code gives it; the
\* leaf never has a file below a file.
THEOREM TypeCorrect == Spec => []TypeOK
<1>1. IInv => TypeOK
  <2> SUFFICES ASSUME IInv PROVE TypeOK
    OBVIOUS
  <2>1. rec.origins \in [Path -> Image] /\ DOMAIN rec.grants \subseteq Path
    BY PartialShape DEF IInv, Typed, LeafRecord
  <2>2. ASSUME NEW p \in Path, lease[p] \notin {None, Other}
        PROVE  lease[p] \in Lease
    <3>1. lease[p] \in Grant /\ lease[p].token < next /\ next \in Nat
      BY <2>2 DEF IInv, Typed, LeasesOK, LeaseOK, Ours
    <3>2. lease[p].token \in Token
      BY <3>1 DEF Token, Grant
    <3> QED
      BY <3>1, <3>2 DEF Grant, Lease
  <2> QED
    BY <2>1, <2>2 DEF IInv, Typed, TypeOK
<1> QED
  BY <1>1, Invariance, PTL

\* No session overwrites what the user wrote and did not give up.
THEOREM EditsAreKept == Spec => []EditsSurvive
<1>1. IInv => EditsSurvive
  <2> SUFFICES ASSUME IInv, NEW p \in Path, disk[p] # kept[p]
               PROVE  /\ journal # None /\ journal.install # None /\ p \in DOMAIN journal.install
                      /\ {disk[p], kept[p]} \subseteq {journal.install[p].before, journal.install[p].after}
                      /\ kept[p] = journal.install[p].before =>
                            p \in journal.gives \/ kept[p] = Baseline(journal.before, p)
    BY DEF EditsSurvive
  <2>1. journal # None
    BY DEF IInv, FilesOK
  <2>2. KeptOK(p, disk[p], kept[p], journal)
    BY <2>1 DEF IInv, FilesOK
  <2> QED
    BY <2>1, <2>2 DEF KeptOK, Changed
<1> QED
  BY <1>1, Invariance, PTL

\* No interrupted operation leaves the files or the worktree half way.
THEOREM FilesAreReconciled == Spec => []CleanIsOrigin
<1>1. IInv => CleanIsOrigin
  BY DEF IInv, FilesOK, AtRest, CleanIsOrigin
<1> QED
  BY <1>1, Invariance, PTL

\* No interrupted operation leaves a reservation that the leaf does not know.
THEOREM ReservationsAreReconciled == Spec => []NoLeakedReservation
<1>1. IInv => NoLeakedReservation
  BY DEF IInv, LeasesOK, LeaseOK, Known, Fresh, NoLeakedReservation
<1> QED
  BY <1>1, Invariance, PTL

=============================================================================
