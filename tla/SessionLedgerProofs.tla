------------------------ MODULE SessionLedgerProofs ------------------------
(* Proofs about SessionLedger, for any threads, processes, pending actions,      *)
(* tears and bounds: the types, that a pending action is applied once, and that  *)
(* what is claimed or previewed can be finished.                                 *)
EXTENDS SessionLedger, WellFoundedInduction, SequenceTheorems, TLAPS

-----------------------------------------------------------------------------
(* The lineage of a transcript.                                                 *)

\* A set of numbers that has the first, and with each the next, has them all.
LEMMA Numbers ==
  ASSUME NEW T, 0 \in T, \A n \in Nat : n \in T => n + 1 \in T
  PROVE  Nat \subseteq T
<1> DEFINE Out == Nat \ T
           R == OpToRel(<, Nat)
<1>1. SUFFICES ASSUME Out # {} PROVE FALSE
  OBVIOUS
<1>2. IsWellFoundedOn(R, Nat)
  BY NatLessThanWellFounded
<1> HIDE DEF R
<1>3. PICK x \in Out : \A y \in Out : <<y, x>> \notin R
  BY <1>1, <1>2, WFMin
<1>4. x - 1 \in Nat /\ x - 1 < x /\ (x - 1) + 1 = x
  OBVIOUS
<1>5. <<x - 1, x>> \in R
  BY <1>4 DEF R, OpToRel
<1> QED  BY <1>3, <1>4, <1>5

\* The recursion of Lineage: the path that ends in the i-th event.
PathTo(s, f, i) ==
  IF i = 0 THEN {} ELSE {i} \cup UNION {f[j] : j \in {k \in At(s, s[i].parent) : k < i}}
Path(s, n, f) == f = [i \in 0..n |-> PathTo(s, f, i)]

LEMMA PathAt ==
  ASSUME NEW s, NEW n, NEW f, Path(s, n, f), NEW i \in 0..n
  PROVE  f[i] = PathTo(s, f, i)
BY Zenon DEF Path

LEMMA LineageIsPath ==
  \A s : Lineage(s) = (CHOOSE f : Path(s, Len(s), f))[Len(s)]
BY DEF Lineage, Path, PathTo

\* It looks at earlier events only.
LEMMA PathLocal ==
  ASSUME NEW S, NEW s \in Seq(S), NEW f, NEW g, NEW i \in Nat, \A j \in 0..(i - 1) : f[j] = g[j]
  PROVE  PathTo(s, f, i) = PathTo(s, g, i)
<1> DEFINE K == {k \in At(s, s[i].parent) : k < i}
<1>1. \A j \in K : j \in 0..(i - 1)
  BY DEF At
<1>2. {f[j] : j \in K} = {g[j] : j \in K}
  BY <1>1
<1> QED  BY <1>2 DEF PathTo

\* So every transcript has its paths.
LEMMA PathExists ==
  ASSUME NEW S, NEW s \in Seq(S), NEW n \in Nat
  PROVE  \E f : Path(s, n, f)
<1> DEFINE T == {m \in Nat : \E f : Path(s, m, f)}
<1>1. 0 \in T
  <2> DEFINE f0 == [i \in 0..0 |-> {}]
  <2>1. Path(s, 0, f0)
    BY DEF Path, PathTo
  <2> HIDE DEF f0
  <2> QED  BY <2>1
<1>2. ASSUME NEW m \in Nat, m \in T PROVE m + 1 \in T
  <2>1. PICK f : Path(s, m, f)
    BY <1>2
  <2> DEFINE g == [i \in 0..(m + 1) |-> PathTo(s, f, i)]
  <2>2. /\ \A i \in 0..(m + 1) : g[i] = PathTo(s, f, i)
        /\ DOMAIN g = 0..(m + 1) /\ g = [i \in 0..(m + 1) |-> g[i]]
    OBVIOUS
  <2> HIDE DEF g
  <2>3. \A i \in 0..m : f[i] = g[i]
    BY <2>1, <2>2, PathAt
  <2>4. ASSUME NEW i \in 0..(m + 1) PROVE g[i] = PathTo(s, g, i)
    <3>1. \A j \in 0..(i - 1) : f[j] = g[j]
      BY <2>3
    <3>2. i \in Nat
      OBVIOUS
    <3>3. PathTo(s, f, i) = PathTo(s, g, i)
      BY <3>1, <3>2, PathLocal
    <3> QED  BY <2>2, <3>3
  <2>5. Path(s, m + 1, g)
    BY <2>2, <2>4 DEF Path
  <2> QED  BY <2>5
<1>3. Nat \subseteq T
  <2> HIDE DEF T
  <2> QED  BY <1>1, <1>2, Numbers
<1>4. n \in T
  BY <1>3
<1> QED  BY <1>4

LEMMA LineagePath ==
  ASSUME NEW S, NEW s \in Seq(S)
  PROVE  \E f : Path(s, Len(s), f) /\ Lineage(s) = f[Len(s)]
<1>1. Len(s) \in Nat
  OBVIOUS
<1>2. \E f : Path(s, Len(s), f)
  BY <1>1, PathExists
<1> DEFINE c == CHOOSE f : Path(s, Len(s), f)
<1>3. Path(s, Len(s), c)
  BY <1>2
<1>4. Lineage(s) = c[Len(s)]
  BY LineageIsPath
<1> QED  BY <1>3, <1>4

\* The lineage is of events of the transcript.
LEMMA LineageInside ==
  ASSUME NEW S, NEW s \in Seq(S)
  PROVE  Lineage(s) \subseteq DOMAIN s
<1>1. PICK f : Path(s, Len(s), f) /\ Lineage(s) = f[Len(s)]
  BY LineagePath
<1>2. DOMAIN s = 1..Len(s) /\ Len(s) \in Nat
  OBVIOUS
<1> DEFINE T == {m \in Nat : \A i \in 0..Len(s) : i <= m => f[i] \subseteq 1..i}
<1>3. 0 \in T
  BY <1>1, <1>2 DEF Path, PathTo
<1>4. ASSUME NEW m \in Nat, m \in T PROVE m + 1 \in T
  <2>1. ASSUME NEW i \in 0..Len(s), i = m + 1 PROVE f[i] \subseteq 1..i
    <3> DEFINE K == {k \in At(s, s[i].parent) : k < i}
    <3>1. f[i] = {i} \cup UNION {f[j] : j \in K}
      <4>1. f[i] = PathTo(s, f, i)
        BY <1>1, PathAt
      <4>2. i # 0
        BY <2>1
      <4> QED  BY <4>1, <4>2 DEF PathTo
    <3>2. ASSUME NEW j \in K PROVE f[j] \subseteq 1..i
      <4>1. j \in 0..Len(s) /\ j <= m
        BY <1>2, <2>1 DEF At
      <4> QED  BY <1>4, <2>1, <4>1
    <3> HIDE DEF K
    <3> QED  BY <2>1, <3>1, <3>2
  <2> QED  BY <1>2, <1>4, <2>1
<1>5. Nat \subseteq T
  <2> HIDE DEF T
  <2> QED  BY <1>3, <1>4, Numbers
<1>6. Len(s) \in T
  BY <1>2, <1>5
<1> QED  BY <1>1, <1>2, <1>6

\* An event that names the last one as its parent extends the lineage.
LEMMA LineageGrows ==
  ASSUME NEW S, NEW s \in Seq(S), NEW e \in S, s # <<>>,
         e.parent = s[Len(s)].id
  PROVE  Lineage(s) \cup {Len(s) + 1} \subseteq Lineage(Append(s, e))
<1> DEFINE n == Len(s)
           z == Append(s, e)
<1>1. n \in Nat /\ n # 0 /\ z \in Seq(S) /\ Len(z) = n + 1 /\ z[n + 1] = e
      /\ \A i \in 1..n : z[i] = s[i]
  OBVIOUS
<1>2. PICK f : Path(s, n, f) /\ Lineage(s) = f[n]
  BY LineagePath
<1>3. PICK g : Path(z, n + 1, g) /\ Lineage(z) = g[n + 1]
  BY <1>1, LineagePath
<1> HIDE DEF z
<1> DEFINE T == {m \in Nat : \A i \in 0..n : i <= m => f[i] = g[i]}
<1>4. 0 \in T
  BY <1>1, <1>2, <1>3 DEF Path, PathTo
<1>5. ASSUME NEW m \in Nat, m \in T PROVE m + 1 \in T
  <2>1. ASSUME NEW i \in 0..n, i = m + 1 PROVE f[i] = g[i]
    <3>1. f[i] = PathTo(s, f, i) /\ g[i] = PathTo(z, g, i)
      BY <1>1, <1>2, <1>3, PathAt
    <3>2. i # 0 /\ z[i] = s[i]
      BY <1>1, <2>1
    <3>3. {k \in At(z, z[i].parent) : k < i} = {k \in At(s, s[i].parent) : k < i}
      BY <1>1, <3>2 DEF At
    <3>4. PathTo(z, g, i) = PathTo(s, g, i)
      BY <3>3 DEF PathTo
    <3>5. \A j \in 0..(i - 1) : f[j] = g[j]
      BY <1>5, <2>1
    <3>6. PathTo(s, f, i) = PathTo(s, g, i)
      BY <3>5, PathLocal
    <3> QED  BY <3>1, <3>4, <3>6
  <2> QED  BY <1>1, <1>5, <2>1
<1>6. Nat \subseteq T
  <2> HIDE DEF T
  <2> QED  BY <1>4, <1>5, Numbers
<1>7. n \in T
  BY <1>1, <1>6
<1>8. f[n] = g[n]
  BY <1>1, <1>7
<1>9. g[n + 1] = {n + 1} \cup UNION {g[j] : j \in {k \in At(z, z[n + 1].parent) : k < n + 1}}
  <2>1. g[n + 1] = PathTo(z, g, n + 1)
    BY <1>1, <1>3, PathAt
  <2>2. n + 1 # 0
    BY <1>1
  <2> QED  BY <2>1, <2>2 DEF PathTo
<1>10. n \in {k \in At(z, z[n + 1].parent) : k < n + 1}
  BY <1>1 DEF At
<1> QED  BY <1>2, <1>3, <1>8, <1>9, <1>10 DEF z

-----------------------------------------------------------------------------
(* What a state knows.                                                          *)

\* Before its line is written, and after.
Before == {"read", "migrate", "publish", "write"}
Locked == Before \cup {"mirror", "remove"}

CallRecord == [op : Kind \cup {"none"}, pending : Pending \cup {None},
               checkpoint : Id \cup {NoId}, expect : {"base", "edit", "none"} \cup Pending]

\* The lines that no torn write can take back: all but a bare one at the end.
Solid == IF tail = "bare" THEN Front(lines) ELSE lines

\* A transcript's line.
Line == Event \cup {Malformed}

Types ==
  /\ lines \in Seq(Line)
  /\ tail \in {"ended", "torn", "bare"} /\ legacy \in BOOLEAN
  /\ temps \subseteq Process /\ payload \subseteq Pending /\ made \subseteq Pending
  /\ target \in {"base", "edit"} \cup Pending
  /\ pc \in [Thread -> Places] /\ call \in [Thread -> CallRecord]
  /\ lock \in [Process -> Thread \cup {None}]
  /\ got \in [Thread -> Seq(Event)]
  /\ applied \in [Pending -> Nat]
  /\ tail = "bare" => lines # <<>> /\ Last(lines) # Malformed

\* A thread in an append holds its process's lock.
LockHeld == \A t \in Thread : pc[t] \in Locked => lock[ProcessOf[t]] = t

\* What thread t may be doing at a place, and have read there.
CallOk(t, place, c, g) ==
  /\ place = "idle" <=> c.op = "none"
  /\ place = "preview" => c.op = "preview"
  /\ place \in {"claimed", "replace", "complete"} => c.op = "claim"
  /\ place = "remove" => c.op \in {"apply", "discard"}
  /\ c.op \in {"preview", "claim", "apply", "discard"} => c.pending \in Pending /\ "pending" \in Ops[t]
  /\ c.op \notin {"preview", "claim", "apply", "discard"} => c.pending = None
  /\ c.op = "rewind" => "rewind" \in Ops[t]
  /\ place \in {"migrate", "publish"} => g = <<Older>>
  /\ place \in {"migrate", "publish", "write"} => Len(g) < MaxLines
CallAt(t) == CallOk(t, pc[t], call[t], got[t])

\* An older transcript holds its one event until it is migrated, and no call got
\* beyond that.
LegacyIsOld ==
  legacy => /\ lines = <<Older>> /\ tail = "ended"
            /\ \A t \in Thread : pc[t] \notin {"write", "mirror", "remove", "claimed", "replace", "complete"}

Names(p) == \E i \in DOMAIN lines : lines[i] # Malformed /\ lines[i].pending = p
Writer(t, p) == call[t].op = "preview" /\ call[t].pending = p /\ pc[t] \in Before \cup {"preview"}

\* A pending action that was not made is nowhere; one whose preview is not written
\* yet is its writer's alone, and has its payload.
Fresh(p) ==
  /\ p \notin made => /\ ~Names(p) /\ applied[p] = 0
                      /\ \A t \in Thread : call[t].pending # p
  /\ \A t \in Thread : Writer(t, p) =>
       /\ ~Names(p) /\ applied[p] = 0 /\ p \in payload
       /\ \A u \in Thread \ {t} : call[u].pending # p

\* A claim, or a discard, that is written and in hand; an action that took effect.
Claiming(t, p) ==
  /\ call[t].pending = p
  /\ \/ call[t].op = "claim" /\ pc[t] \in {"mirror", "claimed", "replace", "complete"}
     \/ call[t].op = "apply"
Discarding(t, p) ==
  call[t].pending = p /\ call[t].op = "discard" /\ pc[t] \in {"mirror", "remove"}
Spent(p) == applied[p] # 0 \/ \E t \in Thread : Claiming(t, p)
Over(p) == Spent(p) \/ (\E t \in Thread : Discarding(t, p)) \/ p \in made \ payload

SolidBad == \E i \in DOMAIN Solid : Solid[i] = Malformed
Ended == {"claim", "apply", "discard"}

\* What is over cannot be claimed from the transcript: it is unreadable for good,
\* or names its end, or not even its preview.
Gone(p) ==
  \/ SolidBad
  \/ On(Solid, DOMAIN Solid, Ended, p)
  \/ /\ ~On(lines, DOMAIN lines, {"preview"}, p)
     /\ \A t \in Thread : ~Writer(t, p)
OverIsGone == \A p \in Pending : Over(p) => Gone(p)

-----------------------------------------------------------------------------
(* What holds besides when one process alone does more than append entries, as  *)
(* `jeden todo` beside a session does.                                          *)

\* Claims and discards under way are of actions that are not spent, and spent ones
\* were not discarded.
NotSpentYet ==
  \A p \in Pending :
    /\ \A t \in Thread :
         call[t].pending = p /\ call[t].op \in {"claim", "discard"} /\ pc[t] \in Before
           => ~Spent(p) /\ (call[t].op = "claim" => ~On(lines, DOMAIN lines, {"discard"}, p))
    /\ Spent(p) => ~On(lines, DOMAIN lines, {"discard"}, p)

\* One claim of an action is in hand at a time, and takes effect once.
OneClaim ==
  \A p \in Pending :
    /\ applied[p] <= 1
    /\ \A t, u \in Thread : Claiming(t, p) /\ Claiming(u, p) => t = u
    /\ \A t \in Thread : Claiming(t, p) /\ call[t].op = "claim" /\ pc[t] # "complete" => applied[p] = 0

Reads(s) == /\ \A i \in DOMAIN s : s[i] # Malformed
            /\ \A i \in DOMAIN s : ValidNext(SubSeq(s, 1, i - 1), s[i])
Open(s, p) == On(s, DOMAIN s, {"claim"}, p) /\ ~PendingResolved(s, DOMAIN s, p)

\* While a rewind is under way no claim is open, or it cannot be written.
RewindWaits ==
  \A t \in Thread : call[t].op = "rewind" /\ pc[t] \in Before =>
    tail = "torn" \/ SolidBad \/ \A p \in Pending : ~Open(lines, p)

\* Open claims are on the lineage, of the whole transcript and of its solid part.
OnLine(s) == Reads(s) => \A p \in Pending : Open(s, p) => On(s, Lineage(s), {"claim"}, p)
ClaimsOnLine == OnLine(lines) /\ OnLine(Solid)

Core == Types /\ LockHeld /\ (\A t \in Thread : CallAt(t)) /\ LegacyIsOld

IInv == Types /\ LockHeld /\ (\A t \in Thread : CallAt(t)) /\ LegacyIsOld /\ (\A p \in Pending : Fresh(p)) /\ OverIsGone
Apart == NotSpentYet /\ OneClaim /\ RewindWaits /\ ClaimsOnLine
SInv == ~overlapped => ~Overlap /\ Apart

-----------------------------------------------------------------------------
(* What a step does to the transcript.                                          *)

LEMMA OlderIsEvent == Older \in Event /\ <<Older>> \in Seq(Event) /\ <<Older>> \in Seq(Line)
<1>1. Older \in Event
  BY ThreadAssumption DEF Older, Event, Id, NoId, Kind
<1> QED  BY <1>1 DEF Line

LEMMA MalformedIsNone == Malformed \notin Event /\ Malformed.kind = "malformed"
  BY DEF Malformed, Event

LEMMA LineKinds ==
  ASSUME NEW l \in Line, l.kind \in Kind
  PROVE  l \in Event
  BY DEF Line, Malformed, Kind

LEMMA FrontOf ==
  ASSUME NEW S, NEW s \in Seq(S), s # <<>>
  PROVE  /\ Front(s) \in Seq(S) /\ Len(Front(s)) = Len(s) - 1
         /\ \A i \in 1..(Len(s) - 1) : Front(s)[i] = s[i]
         /\ s = Append(Front(s), Last(s))
<1>1. /\ Front(s) \in Seq(S) /\ Len(Front(s)) = Len(s) - 1 /\ Len(s) \in Nat \ {0}
      /\ \A i \in 1..(Len(s) - 1) : Front(s)[i] = s[i]
  <2> DEFINE n == Len(s) - 1
  <2>1. Len(s) \in Nat \ {0} /\ n \in Nat /\ 1 \in Int
    BY EmptySeq
  <2>2. \A i \in 1..n : s[i] \in S
    BY <2>1
  <2>3. Front(s) = SubSeq(s, 1, n)
    BY DEF Front
  <2> HIDE DEF n
  <2>4. /\ SubSeq(s, 1, n) \in Seq(S)
        /\ Len(SubSeq(s, 1, n)) = IF 1 <= n THEN n - 1 + 1 ELSE 0
        /\ \A i \in 1..(n - 1 + 1) : SubSeq(s, 1, n)[i] = s[1 + i - 1]
    BY <2>1, <2>2, SubSeqProperties
  <2>5. /\ Front(s) \in Seq(S) /\ Len(Front(s)) = n
        /\ \A i \in 1..n : Front(s)[i] = s[i]
    BY <2>1, <2>3, <2>4
  <2> QED  BY <2>1, <2>5 DEF n
<1>2. Last(s) \in S /\ Last(s) = s[Len(s)]
  BY <1>1 DEF Last
<1>3. Append(Front(s), Last(s)) \in Seq(S) /\ Len(Append(Front(s), Last(s))) = Len(s)
  BY <1>1, <1>2
<1>4. \A i \in 1..Len(s) : Append(Front(s), Last(s))[i] = s[i]
  BY <1>1, <1>2
<1>5. Append(Front(s), Last(s)) = s
  BY <1>1, <1>3, <1>4, SeqEqual
<1> QED  BY <1>1, <1>5

LEMMA SolidLines ==
  ASSUME Types
  PROVE  /\ Solid \in Seq(Line) /\ DOMAIN Solid \subseteq DOMAIN lines
         /\ DOMAIN Solid = 1..Len(Solid) /\ DOMAIN lines = 1..Len(lines)
         /\ \A i \in DOMAIN Solid : Solid[i] = lines[i]
         /\ tail # "bare" => Solid = lines
         /\ tail = "bare" => lines = Append(Solid, Last(lines)) /\ lines # <<>>
<1>1. lines \in Seq(Line) /\ DOMAIN lines = 1..Len(lines) /\ Len(lines) \in Nat
  BY DEF Types
<1>2. CASE tail = "bare"
  <2>1. lines # <<>> /\ Solid = Front(lines)
    BY <1>2 DEF Types, Solid
  <2>2. /\ Front(lines) \in Seq(Line) /\ Len(Front(lines)) = Len(lines) - 1
        /\ \A i \in 1..(Len(lines) - 1) : Front(lines)[i] = lines[i]
        /\ lines = Append(Front(lines), Last(lines))
    BY <1>1, <2>1, FrontOf
  <2>3. DOMAIN Front(lines) = 1..(Len(lines) - 1)
    BY <2>2
  <2>4. Solid \in Seq(Line) /\ DOMAIN Solid = 1..(Len(lines) - 1) /\ Len(Solid) = Len(lines) - 1
    BY <2>1, <2>2, <2>3
  <2>5. DOMAIN Solid \subseteq DOMAIN lines /\ DOMAIN Solid = 1..Len(Solid)
    BY <1>1, <2>4
  <2>6. \A i \in DOMAIN Solid : Solid[i] = lines[i]
    BY <2>1, <2>2, <2>3
  <2>7. lines = Append(Solid, Last(lines))
    BY <2>1, <2>2
  <2> QED  BY <1>1, <1>2, <2>1, <2>4, <2>5, <2>6, <2>7
<1>3. CASE tail # "bare"
  <2>1. Solid = lines
    BY <1>3 DEF Solid
  <2> QED  BY <1>1, <1>3, <2>1
<1> QED  BY <1>2, <1>3

\* The event a call seals is one.
LEMMA SealedIsEvent ==
  ASSUME Core, NEW t \in Thread, pc[t] = "write"
  PROVE  /\ Sealed(t, got[t]) \in Event
         /\ Sealed(t, got[t]).kind = call[t].op
         /\ Sealed(t, got[t]).pending = call[t].pending
         /\ call[t].op \in Kind
<1> DEFINE e == Sealed(t, got[t])
<1>1. /\ got[t] \in Seq(Event) /\ Len(got[t]) < MaxLines /\ call[t] \in CallRecord
      /\ call[t].op # "none"
  BY DEF Core, Types, CallAt, CallOk
<1>2. Len(got[t]) + 1 \in 1..MaxLines
  BY <1>1, ThreadAssumption
<1>3. Leaf(got[t]) \in Id \cup {NoId}
  <2>1. CASE got[t] = <<>>
    BY <2>1 DEF Leaf
  <2>2. CASE got[t] # <<>>
    <3>1. Last(got[t]) \in Event
      BY <1>1, <2>2 DEF Last
    <3> QED  BY <2>2, <3>1 DEF Leaf, Event
  <2> QED  BY <2>1, <2>2
<1>4. /\ e.id = <<Len(got[t]) + 1, t>> /\ e.id \in Id
      /\ e.kind = call[t].op /\ e.pending = call[t].pending
  BY <1>2 DEF Sealed, Id
<1>5. call[t].op \in Kind /\ call[t].pending \in Pending \cup {None}
      /\ call[t].checkpoint \in Id \cup {NoId}
      /\ call[t].expect \in {"base", "edit", "none"} \cup Pending
  BY <1>1 DEF CallRecord
<1>6. e \in Event
  <2> DEFINE parent == IF call[t].op = "rewind" THEN call[t].checkpoint ELSE Leaf(got[t])
             from == IF call[t].op = "rewind" THEN Leaf(got[t]) ELSE NoId
             expect == IF call[t].op = "preview" THEN call[t].expect ELSE "none"
             id == <<Len(got[t]) + 1, t>>
  <2>1. id \in Id
    BY <1>2 DEF Id
  <2>2. parent \in Id \cup {NoId} /\ from \in Id \cup {NoId}
    BY <1>3, <1>5
  <2>3. expect \in {"base", "edit", "none"} \cup Pending
    BY <1>5
  <2>4. e = [id |-> id, kind |-> call[t].op, parent |-> parent, from |-> from,
             pending |-> call[t].pending, expect |-> expect]
    BY DEF Sealed
  <2> HIDE DEF id, parent, from, expect, e
  <2> QED  BY <1>5, <2>1, <2>2, <2>3, <2>4 DEF Event
<1> QED  BY <1>4, <1>5, <1>6

\* A write makes its line, joins what was cut to a bad one, or is cut itself.
Grows(e) ==
  \/ tail = "ended" /\ lines' = Append(lines, e) /\ tail' \in {"ended", "bare"}
  \/ lines' = Append(Solid, Malformed) /\ tail' = "ended"
  \/ lines' = Solid /\ tail' = "torn"

Republished == lines' = <<Older>> /\ tail' = "ended"

\* A whole write, and a cut one.
LEMMA WriteGrows ==
  ASSUME Core, NEW t \in Thread, WriteLine(t)
  PROVE  /\ Grows(Sealed(t, got[t])) /\ tail' = "ended"
         /\ lines' = Append(lines, Sealed(t, got[t])) \/ lines' = Append(Solid, Malformed)
<1>1. tail \in {"ended", "torn", "bare"}
  BY DEF Core, Types
<1>2. lines' = Joined(Sealed(t, got[t])) /\ tail' = "ended"
  BY DEF WriteLine
<1> QED  BY <1>1, <1>2 DEF Joined, Grows, Solid

LEMMA LeftGrows ==
  ASSUME Core, NEW t \in Thread, NEW how \in Tears, Left(t, how)
  PROVE  UNCHANGED <<lines, tail>> \/ Grows(Sealed(t, got[t]))
<1>1. tail \in {"ended", "torn", "bare"} /\ how \in {"nothing", "torn", "bare"}
  BY ThreadAssumption DEF Core, Types
<1>2. CASE how = "nothing"
  BY <1>2 DEF Left
<1>3. CASE how = "bare" /\ tail = "ended"
  BY <1>3 DEF Left, Grows
<1>4. CASE how # "nothing" /\ ~(how = "bare" /\ tail = "ended")
  BY <1>4 DEF Left, Grows, Solid
<1> QED  BY <1>2, <1>3, <1>4

LinesStep ==
  \/ UNCHANGED <<lines, tail>> \/ Republished
  \/ \E t \in Thread : pc[t] = "write" /\ pc'[t] \in {"mirror", "idle"} /\ Grows(Sealed(t, got[t]))

LEMMA NextLines ==
  ASSUME Core, Step
  PROVE  LinesStep
<1>0. pc \in [Thread -> Places]
  BY DEF Core, Types
<1>1. ASSUME NEW t \in Thread, Fail(t) PROVE LinesStep
  <2>1. pc'[t] = "idle"
    BY <1>0, <1>1 DEF Fail, Return, Go
  <2> QED  BY <1>1, <2>1, LeftGrows DEF Fail, LinesStep
<1>2. ASSUME NEW r \in Process, Crash(r) PROVE LinesStep
  <2>1. \A t \in Thread : ProcessOf[t] = r => pc'[t] = "idle"
    BY <1>2 DEF Crash
  <2> QED  BY <1>2, <2>1, LeftGrows DEF Crash, LinesStep
<1>3. ASSUME NEW t \in Thread, WriteLine(t) PROVE LinesStep
  <2>1. pc'[t] = "mirror" /\ pc[t] = "write"
    BY <1>0, <1>3 DEF WriteLine, Go
  <2> QED  BY <1>3, <2>1, WriteGrows DEF LinesStep
<1>4. ASSUME NEW t \in Thread, MigratePublished(t) PROVE LinesStep
  <2>1. got[t] = <<Older>>
    BY <1>4 DEF Core, CallAt, CallOk, MigratePublished
  <2> QED  BY <1>4, <2>1 DEF MigratePublished, LinesStep, Republished
<1>5. ASSUME NEW t \in Thread,
             \/ \E op \in Ops[t] : BeginAppend(t, op)
             \/ \E p \in Pending : WritePayload(t, p) \/ BeginClaim(t, p) \/ BeginDiscard(t, p)
             \/ BeginRewind(t) \/ BeginPreview(t) \/ BeginComplete(t) \/ CompleteRefused(t)
             \/ Read(t) \/ ReadRefused(t) \/ Migrate(t) \/ Mirror(t) \/ RemovePayload(t)
             \/ CheckTarget(t) \/ CheckRefused(t) \/ Replace(t)
      PROVE  LinesStep
  BY <1>5 DEF BeginAppend, WritePayload, BeginClaim, BeginDiscard, BeginRewind, BeginPreview,
     BeginComplete, CompleteRefused, Read, ReadRefused, Migrate, Mirror, RemovePayload, CheckTarget,
     CheckRefused, Replace, Begin, disk, LinesStep
<1>6. ASSUME NEW c, Edit(c) PROVE LinesStep
  BY <1>6 DEF Edit, LinesStep
<1> QED  BY <1>1, <1>2, <1>3, <1>4, <1>5, <1>6 DEF Step

LEMMA LinesTypes ==
  ASSUME Core, LinesStep
  PROVE  /\ lines' \in Seq(Line) /\ tail' \in {"ended", "torn", "bare"}
         /\ tail' = "bare" => lines' # <<>> /\ Last(lines') # Malformed
<1>1. /\ lines \in Seq(Line) /\ Solid \in Seq(Line) /\ tail \in {"ended", "torn", "bare"}
      /\ tail = "bare" => lines # <<>> /\ Last(lines) # Malformed
  BY SolidLines DEF Core, Types
<1>2. CASE UNCHANGED <<lines, tail>>
  BY <1>1, <1>2
<1>3. CASE Republished
  BY <1>3, OlderIsEvent DEF Republished
<1>4. ASSUME NEW t \in Thread, pc[t] = "write", Grows(Sealed(t, got[t]))
      PROVE  /\ lines' \in Seq(Line) /\ tail' \in {"ended", "torn", "bare"}
             /\ tail' = "bare" => lines' # <<>> /\ Last(lines') # Malformed
  <2>1. PICK e \in Event : Grows(e)
    BY <1>4, SealedIsEvent
  <2>2. CASE tail = "ended" /\ lines' = Append(lines, e) /\ tail' \in {"ended", "bare"}
    <3>1. e \in Line
      BY DEF Line
    <3>2. lines' \in Seq(Line) /\ lines' # <<>> /\ Last(lines') = e
      BY <1>1, <2>2, <3>1, AppendProperties DEF Last
    <3> QED  BY <2>2, <3>2, MalformedIsNone
  <2>3. CASE lines' = Append(Solid, Malformed) /\ tail' = "ended"
    <3>1. Malformed \in Line
      BY DEF Line
    <3> QED  BY <1>1, <2>3, <3>1, AppendProperties
  <2>4. CASE lines' = Solid /\ tail' = "torn"
    BY <1>1, <2>4
  <2> QED  BY <2>1, <2>2, <2>3, <2>4 DEF Grows
<1> QED  BY <1>2, <1>3, <1>4 DEF LinesStep

-----------------------------------------------------------------------------
(* What a step does to its thread.                                              *)

\* Thread t comes to a place with a call and with what it read, and holds the lock
\* there if the place needs it.
Moves(t, place, c, g) ==
  /\ pc' = [pc EXCEPT ![t] = place] /\ call' = [call EXCEPT ![t] = c] /\ got' = [got EXCEPT ![t] = g]
  /\ \/ UNCHANGED lock /\ (place \in Locked => pc[t] \in Locked)
     \/ Lock(t)
     \/ Unlock(t) /\ place \notin Locked

\* The places beyond the migration of an older transcript.
Late == {"write", "mirror", "remove", "claimed", "replace", "complete"}

StepOf(t) ==
  \E place \in Places, c \in CallRecord, g \in Seq(Event) :
    /\ Moves(t, place, c, g) /\ CallOk(t, place, c, g)
    /\ legacy' => legacy /\ (place \in Late => pc[t] \in Late)

ThreadTypes ==
  /\ pc' \in [Thread -> Places] /\ call' \in [Thread -> CallRecord]
  /\ got' \in [Thread -> Seq(Event)] /\ lock' \in [Process -> Thread \cup {None}]

LEMMA MoveKeeps ==
  ASSUME Core, NEW t \in Thread, StepOf(t)
  PROVE  /\ ThreadTypes /\ LockHeld' /\ \A u \in Thread : CallAt(u)'
         /\ legacy' => legacy /\ \A u \in Thread : pc'[u] \in Late => pc[u] \in Late
<1>1. PICK place \in Places, c \in CallRecord, g \in Seq(Event) :
        /\ Moves(t, place, c, g) /\ CallOk(t, place, c, g)
        /\ legacy' => legacy /\ (place \in Late => pc[t] \in Late)
  BY DEF StepOf
<1>2. /\ pc \in [Thread -> Places] /\ call \in [Thread -> CallRecord]
      /\ got \in [Thread -> Seq(Event)] /\ lock \in [Process -> Thread \cup {None}]
      /\ ProcessOf \in [Thread -> Process] /\ None \notin Thread
  BY ThreadAssumption DEF Core, Types
<1>3. /\ pc' = [pc EXCEPT ![t] = place] /\ call' = [call EXCEPT ![t] = c]
      /\ got' = [got EXCEPT ![t] = g]
  BY <1>1 DEF Moves
<1>4. /\ pc' \in [Thread -> Places] /\ call' \in [Thread -> CallRecord]
      /\ got' \in [Thread -> Seq(Event)]
  <2>1. pc' \in [Thread -> Places]
    BY <1>2, <1>3
  <2>2. call' \in [Thread -> CallRecord]
    BY <1>2, <1>3
  <2>3. got' \in [Thread -> Seq(Event)]
    BY <1>2, <1>3
  <2> QED  BY <2>1, <2>2, <2>3
<1>5. lock' \in [Process -> Thread \cup {None}]
  BY <1>1, <1>2 DEF Moves, Lock, Unlock
<1>6. LockHeld'
  <2>1. \A u \in Thread : pc[u] \in Locked => lock[ProcessOf[u]] = u
    BY DEF Core, LockHeld
  <2>2. ASSUME NEW u \in Thread, pc'[u] \in Locked PROVE lock'[ProcessOf[u]] = u
    <3>1. u = t => place \in Locked
      BY <1>2, <1>3, <2>2
    <3>2. u # t => pc[u] \in Locked
      BY <1>2, <1>3, <2>2
    <3>3. CASE UNCHANGED lock /\ (place \in Locked => pc[t] \in Locked)
      BY <2>1, <3>1, <3>2, <3>3
    <3>4. CASE Lock(t)
      BY <1>2, <2>1, <3>2, <3>4 DEF Lock
    <3>5. CASE Unlock(t) /\ place \notin Locked
      BY <1>2, <2>1, <3>1, <3>2, <3>5 DEF Unlock
    <3> QED  BY <1>1, <3>3, <3>4, <3>5 DEF Moves
  <2> QED  BY <2>2 DEF LockHeld
<1>7. ASSUME NEW u \in Thread PROVE CallAt(u)'
  <2>1. CASE u = t
    <3>1. pc'[u] = place /\ call'[u] = c /\ got'[u] = g
      BY <1>2, <1>3, <2>1
    <3> QED  BY <1>1, <2>1, <3>1 DEF CallAt
  <2>2. CASE u # t
    <3>1. pc'[u] = pc[u] /\ call'[u] = call[u] /\ got'[u] = got[u]
      BY <1>2, <1>3, <2>2
    <3> QED  BY <3>1 DEF CallAt, Core
  <2> QED  BY <2>1, <2>2
<1>8. legacy' => legacy /\ \A u \in Thread : pc'[u] \in Late => pc[u] \in Late
  BY <1>1, <1>2, <1>3
<1> QED  BY <1>4, <1>5, <1>6, <1>7, <1>8 DEF ThreadTypes

LEMMA NoCallIs ==
  /\ NoCall \in CallRecord /\ NoCall.op = "none" /\ NoCall.pending = None
  /\ \A t \in Thread : CallOk(t, "idle", NoCall, <<>>)
<1>1. /\ NoCall \in CallRecord /\ NoCall.op = "none" /\ NoCall.pending = None
  BY DEF NoCall, CallRecord
<1> QED  BY <1>1 DEF CallOk, Before

LEMMA CallIs ==
  ASSUME NEW op \in Kind, NEW p \in Pending \cup {None}
  PROVE  /\ Call(op, p) = [op |-> op, pending |-> p, checkpoint |-> NoId, expect |-> "none"]
         /\ Call(op, p) \in CallRecord
<1>1. Call(op, p) = [op |-> op, pending |-> p, checkpoint |-> NoId, expect |-> "none"]
  <2>1. NoCall = [op |-> "none", pending |-> None, checkpoint |-> NoId, expect |-> "none"]
    BY DEF NoCall
  <2> DEFINE r == [NoCall EXCEPT !.op = op]
  <2>2. r = [op |-> op, pending |-> None, checkpoint |-> NoId, expect |-> "none"]
    BY <2>1
  <2>3. Call(op, p) = [r EXCEPT !.pending = p]
    BY Zenon DEF Call
  <2> HIDE DEF r
  <2>4. [r EXCEPT !.pending = p]
          = [op |-> op, pending |-> p, checkpoint |-> NoId, expect |-> "none"]
    BY <2>2
  <2> QED  BY <2>3, <2>4
<1> QED  BY <1>1 DEF CallRecord

LEMMA ReturnMoves ==
  ASSUME Core, NEW t \in Thread, Return(t), legacy' = legacy
  PROVE  StepOf(t)
<1>1. Moves(t, "idle", NoCall, <<>>)
  BY DEF Return, Go, Forget, Moves, Locked, Before
<1>2. CallOk(t, "idle", NoCall, <<>>) /\ NoCall \in CallRecord
  BY NoCallIs
<1>3. "idle" \in Places /\ "idle" \notin Late /\ <<>> \in Seq(Event)
  BY DEF Places, Late
<1> QED  BY <1>1, <1>2, <1>3 DEF StepOf

\* Beginning a call with the lock.
LEMMA BeginMoves ==
  ASSUME Core, NEW t \in Thread, NEW c \in CallRecord, Begin(t, c), CallOk(t, "read", c, got[t])
  PROVE  StepOf(t)
<1>1. got \in [Thread -> Seq(Event)] /\ got[t] \in Seq(Event)
  BY DEF Core, Types
<1>2. Moves(t, "read", c, got[t])
  BY <1>1 DEF Begin, Go, Moves
<1>3. legacy' = legacy
  BY DEF Begin, disk
<1>4. "read" \in Places /\ "read" \notin Late
  BY DEF Places, Late
<1> QED  BY <1>1, <1>2, <1>3, <1>4 DEF StepOf

LEMMA EventAt ==
  ASSUME Core, NEW i \in Lineage(lines), lines[i].kind \in Kind
  PROVE  i \in DOMAIN lines /\ lines[i] \in Event
<1>1. lines \in Seq(Line)
  BY DEF Core, Types
<1>2. i \in DOMAIN lines
  BY <1>1, LineageInside
<1>3. lines[i] \in Line
  BY <1>1, <1>2
<1> QED  BY <1>2, <1>3, LineKinds

LEMMA StepMoves ==
  ASSUME Core, NEW t \in Thread,
         \/ \E op \in Ops[t] : BeginAppend(t, op)
         \/ \E p \in Pending : WritePayload(t, p) \/ BeginClaim(t, p) \/ BeginDiscard(t, p)
         \/ BeginRewind(t) \/ BeginPreview(t) \/ BeginComplete(t) \/ CompleteRefused(t)
         \/ Read(t) \/ ReadRefused(t) \/ Migrate(t) \/ MigratePublished(t) \/ WriteLine(t)
         \/ Mirror(t) \/ RemovePayload(t)
         \/ CheckTarget(t) \/ CheckRefused(t) \/ Replace(t)
         \/ Fail(t)
  PROVE  StepOf(t)
<1>t. /\ pc \in [Thread -> Places] /\ call \in [Thread -> CallRecord]
      /\ got \in [Thread -> Seq(Event)] /\ lines \in Seq(Line)
      /\ target \in {"base", "edit"} \cup Pending
      /\ call[t] \in CallRecord /\ got[t] \in Seq(Event) /\ CallOk(t, pc[t], call[t], got[t])
  BY DEF Core, Types, CallAt
<1>1. ASSUME NEW op \in Ops[t], BeginAppend(t, op) PROVE StepOf(t)
  <2>1. op \in {"entry", "checkpoint"} /\ Begin(t, Call(op, None))
    BY <1>1 DEF BeginAppend
  <2>2. /\ Call(op, None) \in CallRecord
        /\ Call(op, None) = [op |-> op, pending |-> None, checkpoint |-> NoId, expect |-> "none"]
    BY <2>1, CallIs DEF Kind
  <2>3. CallOk(t, "read", Call(op, None), got[t])
    BY <2>1, <2>2 DEF CallOk
  <2> QED  BY <2>1, <2>2, <2>3, BeginMoves
<1>2. ASSUME NEW p \in Pending, WritePayload(t, p) PROVE StepOf(t)
  <2> DEFINE c == [op |-> "preview", pending |-> p, checkpoint |-> NoId, expect |-> target]
  <2>1. [Call("preview", p) EXCEPT !.expect = target] = c
    BY CallIs DEF Kind
  <2>2. c \in CallRecord
    BY <1>t DEF CallRecord, Kind
  <2>3. CallOk(t, "preview", c, got[t])
    BY <1>2 DEF CallOk, WritePayload
  <2>4. call' = [call EXCEPT ![t] = c]
    BY <1>2, <2>1 DEF WritePayload
  <2> HIDE DEF c
  <2>5. Moves(t, "preview", c, got[t]) /\ legacy' = legacy
    BY <1>t, <1>2, <2>4 DEF WritePayload, Moves, Go, Locked, Before
  <2>6. "preview" \in Places /\ "preview" \notin Late
    BY DEF Places, Late
  <2> QED  BY <1>t, <2>2, <2>3, <2>5, <2>6 DEF StepOf
<1>3. ASSUME NEW p \in Pending, BeginClaim(t, p) PROVE StepOf(t)
  <2>1. PICK i \in Lineage(lines) :
          /\ lines[i].kind = "preview" /\ lines[i].pending = p
          /\ Begin(t, [Call("claim", p) EXCEPT !.expect = lines[i].expect])
    BY <1>3 DEF BeginClaim
  <2>2. lines[i] \in Event
    BY <2>1, EventAt DEF Kind
  <2>3. lines[i].expect \in {"base", "edit", "none"} \cup Pending
    BY <2>2 DEF Event
  <2> DEFINE x == lines[i].expect
             c == [op |-> "claim", pending |-> p, checkpoint |-> NoId, expect |-> x]
  <2> HIDE DEF x
  <2>4. [Call("claim", p) EXCEPT !.expect = x] = c
    BY CallIs DEF Kind
  <2>5. c \in CallRecord
    BY <2>3 DEF CallRecord, Kind, x
  <2>6. CallOk(t, "read", c, got[t])
    BY <1>3 DEF CallOk, BeginClaim
  <2>7. Begin(t, c)
    BY <2>1, <2>4 DEF x
  <2> QED  BY <2>5, <2>6, <2>7, BeginMoves
<1>4. ASSUME NEW p \in Pending, BeginDiscard(t, p) PROVE StepOf(t)
  <2>1. /\ Call("discard", p) \in CallRecord
        /\ Call("discard", p) = [op |-> "discard", pending |-> p, checkpoint |-> NoId, expect |-> "none"]
    BY CallIs DEF Kind
  <2>2. CallOk(t, "read", Call("discard", p), got[t])
    BY <1>4, <2>1 DEF CallOk, BeginDiscard
  <2> QED  BY <1>4, <2>1, <2>2, BeginMoves DEF BeginDiscard
<1>5. ASSUME BeginRewind(t) PROVE StepOf(t)
  <2>1. PICK i \in Lineage(lines) :
          /\ lines[i].kind = "checkpoint"
          /\ Begin(t, [Call("rewind", None) EXCEPT !.checkpoint = lines[i].id])
    BY <1>5 DEF BeginRewind
  <2>2. lines[i] \in Event
    BY <2>1, EventAt DEF Kind
  <2>3. lines[i].id \in Id \cup {NoId}
    BY <2>2 DEF Event
  <2> DEFINE x == lines[i].id
             c == [op |-> "rewind", pending |-> None, checkpoint |-> x, expect |-> "none"]
  <2> HIDE DEF x
  <2>4. [Call("rewind", None) EXCEPT !.checkpoint = x] = c
    BY CallIs DEF Kind
  <2>5. c \in CallRecord
    BY <2>3 DEF CallRecord, Kind, x
  <2>6. CallOk(t, "read", c, got[t])
    BY <1>5 DEF CallOk, BeginRewind
  <2>7. Begin(t, c)
    BY <2>1, <2>4 DEF x
  <2> QED  BY <2>5, <2>6, <2>7, BeginMoves
<1>6. ASSUME BeginPreview(t) PROVE StepOf(t)
  <2>1. CallOk(t, "read", call[t], got[t])
    BY <1>t, <1>6 DEF CallOk, BeginPreview
  <2> QED  BY <1>t, <1>6, <2>1, BeginMoves DEF BeginPreview
<1>7. ASSUME BeginComplete(t) PROVE StepOf(t)
  <2> DEFINE p == call[t].pending
  <2>1. p \in Pending /\ "pending" \in Ops[t]
    BY <1>t, <1>7 DEF CallOk, BeginComplete
  <2> HIDE DEF p
  <2>2. /\ Call("apply", p) \in CallRecord
        /\ Call("apply", p) = [op |-> "apply", pending |-> p, checkpoint |-> NoId, expect |-> "none"]
    BY <2>1, CallIs DEF Kind
  <2>3. CallOk(t, "read", Call("apply", p), got[t])
    BY <2>1, <2>2 DEF CallOk
  <2> QED  BY <1>7, <2>2, <2>3, BeginMoves DEF BeginComplete, p
<1>8. ASSUME \/ CompleteRefused(t) \/ ReadRefused(t) \/ RemovePayload(t) \/ CheckRefused(t) \/ Fail(t)
      PROVE  StepOf(t)
  <2>1. Return(t) /\ legacy' = legacy
    BY <1>8 DEF CompleteRefused, ReadRefused, RemovePayload, CheckRefused, Fail, disk
  <2> QED  BY <2>1, ReturnMoves
<1>9. ASSUME Read(t) PROVE StepOf(t)
  <2> DEFINE place == IF legacy THEN "migrate" ELSE "write"
  <2>1. Len(lines) < MaxLines /\ \A i \in DOMAIN lines : lines[i] # Malformed
    BY <1>9 DEF Read, Readable
  <2>2. lines \in Seq(Event)
    BY <1>t, <2>1 DEF Line
  <2>3. legacy => lines = <<Older>>
    BY DEF Core, LegacyIsOld
  <2>4. call[t].op # "none" /\ pc[t] = "read"
    BY <1>t, <1>9 DEF CallOk, Read
  <2>5. CallOk(t, place, call[t], lines)
    BY <1>t, <2>1, <2>3, <2>4 DEF CallOk
  <2>6. Moves(t, place, call[t], lines) /\ legacy' = legacy
    BY <1>t, <1>9, <2>4 DEF Read, Moves, Go, Locked, Before, disk
  <2>7. place \in Places /\ (legacy' => place \notin Late)
    BY <2>6 DEF Places, Late
  <2> QED  BY <1>t, <2>2, <2>5, <2>6, <2>7 DEF StepOf
<1>10. ASSUME Migrate(t) PROVE StepOf(t)
  <2>1. legacy' = legacy /\ pc[t] = "migrate"
    BY <1>10 DEF Migrate
  <2>2. CASE ProcessOf[t] \in temps
    BY <1>10, <2>1, <2>2, ReturnMoves DEF Migrate
  <2>3. CASE ProcessOf[t] \notin temps
    <3>1. Moves(t, "publish", call[t], got[t])
      BY <1>t, <1>10, <2>1, <2>3 DEF Migrate, Moves, Go, Locked, Before
    <3>2. CallOk(t, "publish", call[t], got[t])
      BY <1>t, <2>1 DEF CallOk
    <3>3. "publish" \in Places /\ "publish" \notin Late
      BY DEF Places, Late
    <3> QED  BY <1>t, <2>1, <3>1, <3>2, <3>3 DEF StepOf
  <2> QED  BY <2>2, <2>3
<1>11. ASSUME MigratePublished(t) PROVE StepOf(t)
  <2>1. legacy' = FALSE /\ pc[t] = "publish"
    BY <1>11 DEF MigratePublished
  <2>2. Moves(t, "write", call[t], got[t])
    BY <1>t, <1>11, <2>1 DEF MigratePublished, Moves, Go, Locked, Before
  <2>3. CallOk(t, "write", call[t], got[t])
    BY <1>t, <2>1 DEF CallOk
  <2>4. "write" \in Places
    BY DEF Places
  <2> QED  BY <1>t, <2>1, <2>2, <2>3, <2>4 DEF StepOf
<1>12. ASSUME WriteLine(t) PROVE StepOf(t)
  <2>1. legacy' = legacy /\ pc[t] = "write"
    BY <1>12 DEF WriteLine
  <2>2. Moves(t, "mirror", call[t], got[t])
    BY <1>t, <1>12, <2>1 DEF WriteLine, Moves, Go, Locked, Before
  <2>3. CallOk(t, "mirror", call[t], got[t])
    BY <1>t, <2>1 DEF CallOk
  <2>4. "mirror" \in Places /\ pc[t] \in Late
    BY <2>1 DEF Places, Late
  <2> QED  BY <1>t, <2>1, <2>2, <2>3, <2>4 DEF StepOf
<1>13. ASSUME Mirror(t) PROVE StepOf(t)
  <2>1. legacy' = legacy /\ pc[t] = "mirror" /\ pc[t] \in Late /\ <<>> \in Seq(Event) /\ After(t)
    BY <1>13 DEF Mirror, disk, Late
  <2>2. CASE call[t].op = "claim"
    <3>1. Moves(t, "claimed", call[t], <<>>)
      BY <1>t, <2>1, <2>2 DEF After, Forget, Moves, Go, Locked, Before
    <3>2. CallOk(t, "claimed", call[t], <<>>)
      BY <1>t, <2>1, <2>2 DEF CallOk
    <3>3. "claimed" \in Places
      BY DEF Places
    <3> QED  BY <1>t, <2>1, <3>1, <3>2, <3>3 DEF StepOf
  <2>3. CASE call[t].op \in {"apply", "discard"}
    <3>1. Moves(t, "remove", call[t], <<>>)
      BY <1>t, <2>1, <2>3 DEF After, Forget, Moves, Go, Locked, Before
    <3>2. CallOk(t, "remove", call[t], <<>>)
      BY <1>t, <2>1, <2>3 DEF CallOk
    <3>3. "remove" \in Places
      BY DEF Places
    <3> QED  BY <1>t, <2>1, <3>1, <3>2, <3>3 DEF StepOf
  <2>4. CASE call[t].op \notin {"claim", "apply", "discard"}
    BY <2>1, <2>4, ReturnMoves DEF After
  <2> QED  BY <2>2, <2>3, <2>4
<1>14. ASSUME CheckTarget(t) PROVE StepOf(t)
  <2>1. legacy' = legacy /\ pc[t] = "claimed" /\ pc[t] \in Late
    BY <1>14 DEF CheckTarget, disk, Late
  <2>2. Moves(t, "replace", call[t], got[t])
    BY <1>t, <1>14 DEF CheckTarget, Moves, Go, Locked, Before
  <2>3. CallOk(t, "replace", call[t], got[t])
    BY <1>t, <2>1 DEF CallOk
  <2>4. "replace" \in Places
    BY DEF Places
  <2> QED  BY <1>t, <2>1, <2>2, <2>3, <2>4 DEF StepOf
<1>15. ASSUME Replace(t) PROVE StepOf(t)
  <2>1. legacy' = legacy /\ pc[t] = "replace" /\ pc[t] \in Late
    BY <1>15 DEF Replace, Late
  <2>2. Moves(t, "complete", call[t], got[t])
    BY <1>t, <1>15 DEF Replace, Moves, Go, Locked, Before
  <2>3. CallOk(t, "complete", call[t], got[t])
    BY <1>t, <2>1 DEF CallOk
  <2>4. "complete" \in Places
    BY DEF Places
  <2> QED  BY <1>t, <2>1, <2>2, <2>3, <2>4 DEF StepOf
<1> QED
  BY <1>1, <1>2, <1>3, <1>4, <1>5, <1>6, <1>7, <1>8, <1>9, <1>10, <1>11, <1>12, <1>13, <1>14, <1>15

LEMMA CrashKeeps ==
  ASSUME Core, NEW r \in Process, Crash(r)
  PROVE  /\ ThreadTypes /\ LockHeld' /\ \A u \in Thread : CallAt(u)'
         /\ legacy' => legacy /\ \A u \in Thread : pc'[u] \in Late => pc[u] \in Late
<1> DEFINE gone == {t \in Thread : ProcessOf[t] = r}
<1>1. /\ pc \in [Thread -> Places] /\ call \in [Thread -> CallRecord]
      /\ got \in [Thread -> Seq(Event)] /\ lock \in [Process -> Thread \cup {None}]
  BY DEF Core, Types
<1>2. /\ pc' = [t \in Thread |-> IF t \in gone THEN "idle" ELSE pc[t]]
      /\ call' = [t \in Thread |-> IF t \in gone THEN NoCall ELSE call[t]]
      /\ got' = [t \in Thread |-> IF t \in gone THEN <<>> ELSE got[t]]
      /\ lock' = [lock EXCEPT ![r] = None] /\ legacy' = legacy
  BY DEF Crash
<1>3. "idle" \in Places /\ "idle" \notin Locked /\ "idle" \notin Late /\ <<>> \in Seq(Event)
  BY DEF Places, Locked, Before, Late
<1>4. /\ pc' \in [Thread -> Places] /\ call' \in [Thread -> CallRecord]
      /\ got' \in [Thread -> Seq(Event)] /\ lock' \in [Process -> Thread \cup {None}]
  <2>1. pc' \in [Thread -> Places]
    BY <1>1, <1>2, <1>3
  <2>2. call' \in [Thread -> CallRecord]
    BY <1>1, <1>2, NoCallIs
  <2>3. got' \in [Thread -> Seq(Event)]
    BY <1>1, <1>2, <1>3
  <2>4. lock' \in [Process -> Thread \cup {None}]
    BY <1>1, <1>2
  <2> QED  BY <2>1, <2>2, <2>3, <2>4
<1>5. LockHeld'
  <2>1. \A u \in Thread : pc[u] \in Locked => lock[ProcessOf[u]] = u
    BY DEF Core, LockHeld
  <2>2. ASSUME NEW u \in Thread, pc'[u] \in Locked PROVE lock'[ProcessOf[u]] = u
    <3>1. ProcessOf[u] # r /\ pc[u] \in Locked
      BY <1>2, <1>3, <2>2
    <3> QED  BY <1>1, <1>2, <2>1, <3>1
  <2> QED  BY <2>2 DEF LockHeld
<1>6. ASSUME NEW u \in Thread PROVE CallAt(u)'
  <2>1. CASE u \in gone
    <3>1. pc'[u] = "idle" /\ call'[u] = NoCall /\ got'[u] = <<>>
      BY <1>2, <2>1
    <3> QED  BY <3>1, NoCallIs DEF CallAt
  <2>2. CASE u \notin gone
    <3>1. pc'[u] = pc[u] /\ call'[u] = call[u] /\ got'[u] = got[u]
      BY <1>2, <2>2
    <3> QED  BY <3>1 DEF CallAt, Core
  <2> QED  BY <2>1, <2>2
<1>7. \A u \in Thread : pc'[u] \in Late => pc[u] \in Late
  BY <1>2, <1>3
<1> QED  BY <1>2, <1>4, <1>5, <1>6, <1>7 DEF ThreadTypes

\* The steps of a thread.
ThreadStep(t) ==
  \/ \E op \in Ops[t] : BeginAppend(t, op)
  \/ \E p \in Pending : WritePayload(t, p) \/ BeginClaim(t, p) \/ BeginDiscard(t, p)
  \/ BeginRewind(t) \/ BeginPreview(t) \/ BeginComplete(t) \/ CompleteRefused(t)
  \/ Read(t) \/ ReadRefused(t) \/ Migrate(t) \/ MigratePublished(t) \/ WriteLine(t)
  \/ Mirror(t) \/ RemovePayload(t)
  \/ CheckTarget(t) \/ CheckRefused(t) \/ Replace(t)
  \/ Fail(t)

LEMMA StepIs ==
  Step <=> \/ \E t \in Thread : ThreadStep(t)
           \/ \E r \in Process : Crash(r)
           \/ \E c \in {"base", "edit"} \ {target} : Edit(c)
BY Zenon DEF Step, ThreadStep

LEMMA NextKeeps ==
  ASSUME Core, Step
  PROVE  /\ ThreadTypes /\ LockHeld' /\ \A u \in Thread : CallAt(u)'
         /\ legacy' => legacy /\ \A u \in Thread : pc'[u] \in Late => pc[u] \in Late
<1> DEFINE Goal == /\ ThreadTypes /\ LockHeld' /\ \A u \in Thread : CallAt(u)'
                   /\ legacy' => legacy /\ \A u \in Thread : pc'[u] \in Late => pc[u] \in Late
<1>1. ASSUME NEW t \in Thread, ThreadStep(t) PROVE Goal
  <2>1. StepOf(t)
    BY <1>1, StepMoves DEF ThreadStep
  <2> QED  BY <2>1, MoveKeeps
<1>2. ASSUME NEW r \in Process, Crash(r) PROVE Goal
  BY <1>2, CrashKeeps
<1>3. ASSUME NEW c, Edit(c) PROVE Goal
  <2>1. UNCHANGED <<pc, call, got, lock, legacy>>
    BY <1>3 DEF Edit
  <2>2. ThreadTypes
    BY <2>1 DEF ThreadTypes, Core, Types
  <2>3. LockHeld'
    BY <2>1 DEF LockHeld, Core
  <2>4. \A u \in Thread : CallAt(u)'
    BY <2>1 DEF CallAt, Core
  <2> QED  BY <2>1, <2>2, <2>3, <2>4
<1> QED  BY <1>1, <1>2, <1>3, StepIs

\* The variables no thread's place depends on.
RestTypes ==
  /\ temps \subseteq Process /\ payload \subseteq Pending /\ made \subseteq Pending
  /\ target \in {"base", "edit"} \cup Pending /\ applied \in [Pending -> Nat]
  /\ legacy \in BOOLEAN

LEMMA RestStep ==
  ASSUME Core, Step
  PROVE  RestTypes'
<1>t. RestTypes
  BY DEF Core, Types, RestTypes
<1>1. ASSUME NEW t \in Thread, NEW p \in Pending, WritePayload(t, p) PROVE RestTypes'
  <2>1. /\ payload' = payload \cup {p} /\ made' = made \cup {p}
        /\ UNCHANGED <<temps, target, applied, legacy>>
    BY <1>1 DEF WritePayload, counts
  <2> QED  BY <1>t, <2>1 DEF RestTypes
<1>2. ASSUME NEW t \in Thread, Migrate(t) PROVE RestTypes'
  <2>1. /\ temps' \subseteq temps \cup {ProcessOf[t]}
        /\ UNCHANGED <<payload, made, target, applied, legacy>>
    BY <1>2 DEF Migrate, counts
  <2>2. temps' \subseteq Process
    BY <1>t, <2>1, ThreadAssumption DEF RestTypes
  <2> QED  BY <1>t, <2>1, <2>2 DEF RestTypes
<1>3. ASSUME NEW t \in Thread, MigratePublished(t) PROVE RestTypes'
  <2>1. /\ temps' \subseteq temps /\ legacy' = FALSE
        /\ UNCHANGED <<payload, made, target, applied>>
    BY <1>3 DEF MigratePublished, counts
  <2> QED  BY <1>t, <2>1 DEF RestTypes
<1>4. ASSUME NEW t \in Thread, RemovePayload(t) PROVE RestTypes'
  <2>1. /\ payload' \subseteq payload
        /\ UNCHANGED <<temps, made, target, applied, legacy>>
    BY <1>4 DEF RemovePayload, counts
  <2> QED  BY <1>t, <2>1 DEF RestTypes
<1>5. ASSUME NEW t \in Thread, Replace(t) PROVE RestTypes'
  <2>1. call[t].pending \in Pending
    BY <1>5 DEF Replace, Core, CallAt, CallOk
  <2>2. /\ target' = call[t].pending /\ applied' = [applied EXCEPT ![call[t].pending] = @ + 1]
        /\ UNCHANGED <<temps, payload, made, legacy>>
    BY <1>5 DEF Replace
  <2>3. applied' \in [Pending -> Nat]
    BY <1>t, <2>1, <2>2 DEF RestTypes
  <2> QED  BY <1>t, <2>1, <2>2, <2>3 DEF RestTypes
<1>6. ASSUME NEW t \in Thread, Fail(t) PROVE RestTypes'
  BY <1>t, <1>6 DEF Fail, RestTypes
<1>7. ASSUME NEW r \in Process, Crash(r) PROVE RestTypes'
  BY <1>t, <1>7 DEF Crash, RestTypes
<1>8. ASSUME NEW c \in {"base", "edit"} \ {target}, Edit(c) PROVE RestTypes'
  BY <1>t, <1>8 DEF Edit, RestTypes
<1>9. ASSUME NEW t \in Thread,
             \/ \E op \in Ops[t] : BeginAppend(t, op)
             \/ \E p \in Pending : BeginClaim(t, p) \/ BeginDiscard(t, p)
             \/ BeginRewind(t) \/ BeginPreview(t) \/ BeginComplete(t) \/ CompleteRefused(t)
             \/ Read(t) \/ ReadRefused(t) \/ WriteLine(t) \/ Mirror(t)
             \/ CheckTarget(t) \/ CheckRefused(t)
      PROVE  RestTypes'
  <2>1. UNCHANGED <<temps, payload, made, target, applied, legacy>>
    BY <1>9 DEF BeginAppend, BeginClaim, BeginDiscard, BeginRewind, BeginPreview, BeginComplete,
       CompleteRefused, Read, ReadRefused, WriteLine, Mirror, CheckTarget, CheckRefused, Begin,
       disk, counts
  <2> QED  BY <1>t, <2>1 DEF RestTypes
<1> QED  BY <1>1, <1>2, <1>3, <1>4, <1>5, <1>6, <1>7, <1>8, <1>9, StepIs DEF ThreadStep

LEMMA CoreStep ==
  ASSUME Core, [Next]_vars
  PROVE  Core'
<1>1. CASE UNCHANGED vars
  BY <1>1 DEF vars, Core, Types, LockHeld, CallAt, LegacyIsOld
<1>2. CASE Step
  <2>1. LinesStep /\ RestTypes'
    BY <1>2, NextLines, RestStep
  <2>2. /\ lines' \in Seq(Line) /\ tail' \in {"ended", "torn", "bare"}
        /\ tail' = "bare" => lines' # <<>> /\ Last(lines') # Malformed
    BY <2>1, LinesTypes
  <2>3. /\ ThreadTypes /\ LockHeld' /\ \A u \in Thread : CallAt(u)'
        /\ legacy' => legacy /\ \A u \in Thread : pc'[u] \in Late => pc[u] \in Late
    BY <1>2, NextKeeps
  <2>4. Types'
    BY <2>1, <2>2, <2>3 DEF Types, ThreadTypes, RestTypes
  <2>5. LegacyIsOld'
    <3>1. SUFFICES ASSUME legacy'
                   PROVE  /\ lines' = <<Older>> /\ tail' = "ended"
                          /\ \A t \in Thread : pc'[t] \notin Late
      BY DEF LegacyIsOld, Late
    <3>2. legacy /\ lines = <<Older>> /\ tail = "ended" /\ \A t \in Thread : pc[t] \notin Late
      BY <2>3, <3>1 DEF Core, LegacyIsOld, Late
    <3>3. UNCHANGED <<lines, tail>> \/ Republished
      BY <2>1, <3>2 DEF LinesStep, Late
    <3> QED  BY <2>3, <3>1, <3>2, <3>3 DEF Republished
  <2> QED  BY <2>3, <2>4, <2>5 DEF Core
<1> QED  BY <1>1, <1>2 DEF Next

LEMMA CoreInit ==
  ASSUME Init
  PROVE  Core
<1>1. lines \in Seq(Line) /\ (legacy => lines = <<Older>>)
  BY OlderIsEvent DEF Init
<1>2. /\ pc = [t \in Thread |-> "idle"] /\ call = [t \in Thread |-> NoCall]
      /\ got = [t \in Thread |-> <<>>] /\ lock = [r \in Process |-> None]
      /\ applied = [p \in Pending |-> 0] /\ tail = "ended"
  BY DEF Init
<1>3. "idle" \in Places /\ "idle" \notin Locked /\ "idle" \notin Late /\ <<>> \in Seq(Event)
  BY DEF Places, Locked, Before, Late
<1>4. Types
  <2>1. pc \in [Thread -> Places] /\ got \in [Thread -> Seq(Event)]
    BY <1>2, <1>3
  <2>2. call \in [Thread -> CallRecord]
    BY <1>2, NoCallIs
  <2>3. lock \in [Process -> Thread \cup {None}] /\ applied \in [Pending -> Nat]
    BY <1>2
  <2>4. /\ temps \subseteq Process /\ payload \subseteq Pending /\ made \subseteq Pending
        /\ target \in {"base", "edit"} \cup Pending /\ legacy \in BOOLEAN
    BY DEF Init
  <2> QED  BY <1>1, <1>2, <2>1, <2>2, <2>3, <2>4 DEF Types
<1>5. LockHeld
  BY <1>2, <1>3 DEF LockHeld
<1>6. \A t \in Thread : CallAt(t)
  BY <1>2, NoCallIs DEF CallAt
<1>7. LegacyIsOld
  BY <1>1, <1>2 DEF LegacyIsOld
<1> QED  BY <1>4, <1>5, <1>6, <1>7 DEF Core

LEMMA CoreAlways == Spec => []Core
BY CoreInit, CoreStep, PTL DEF Spec

\* The variables have their types, and a thread in an append holds the append lock
\* of its process.
THEOREM SessionTypes == Spec => []TypeOK
<1> DEFINE History == overlapped \in BOOLEAN
<1>1. Core /\ History => TypeOK
  BY DEF Core, Types, LockHeld, TypeOK, Line, Locked, Before
<1>2. Init => History
  BY DEF Init
<1>3. History /\ [Next]_vars => History'
  BY Zenon DEF Next, vars, Overlap
<1> QED  BY <1>1, <1>2, <1>3, CoreAlways, PTL DEF Spec

-----------------------------------------------------------------------------
(* Where each thread goes.                                                      *)

Stays(u) == pc'[u] = pc[u] /\ call'[u] = call[u]
Returns(u) == pc'[u] = "idle" /\ call'[u] = NoCall
Begins(u, op, p) == pc[u] = "idle" /\ pc'[u] = "read" /\ call'[u].op = op /\ call'[u].pending = p
Continues(u, from, to) == pc[u] = from /\ pc'[u] = to /\ call'[u] = call[u]

Turn(u) ==
  \/ Stays(u) \/ Returns(u)
  \/ \E op \in {"entry", "checkpoint"} : Begins(u, op, None)
  \/ BeginRewind(u) /\ Begins(u, "rewind", None)
  \/ \E p \in Pending :
       \/ WritePayload(u, p) /\ pc[u] = "idle" /\ pc'[u] = "preview"
            /\ call'[u].op = "preview" /\ call'[u].pending = p
       \/ BeginClaim(u, p) /\ Begins(u, "claim", p)
       \/ BeginDiscard(u, p) /\ Begins(u, "discard", p)
  \/ Continues(u, "preview", "read")
  \/ BeginComplete(u) /\ pc[u] = "complete" /\ pc'[u] = "read"
       /\ call'[u].op = "apply" /\ call'[u].pending = call[u].pending
  \/ Continues(u, "read", "migrate") \/ Continues(u, "read", "write")
  \/ Continues(u, "migrate", "publish") \/ Continues(u, "publish", "write")
  \/ WriteLine(u) /\ Continues(u, "write", "mirror")
  \/ Continues(u, "mirror", "claimed") /\ call[u].op = "claim"
  \/ Continues(u, "mirror", "remove") /\ call[u].op \in {"apply", "discard"}
  \/ Continues(u, "claimed", "replace")
  \/ Replace(u) /\ Continues(u, "replace", "complete")

\* Nothing of the other threads changes.
Alone(t) == \A u \in Thread \ {t} : Stays(u)

LEMMA TurnOfThread ==
  ASSUME Core, NEW t \in Thread, ThreadStep(t)
  PROVE  Turn(t) /\ Alone(t)
<1>t. /\ pc \in [Thread -> Places] /\ call \in [Thread -> CallRecord]
      /\ call[t] \in CallRecord /\ CallOk(t, pc[t], call[t], got[t])
  BY DEF Core, Types, CallAt
<1>a. ASSUME NEW place, NEW c, pc' = [pc EXCEPT ![t] = place], call' = [call EXCEPT ![t] = c]
      PROVE  pc'[t] = place /\ call'[t] = c /\ Alone(t)
  BY <1>t, <1>a DEF Alone, Stays
<1>b. ASSUME NEW place, pc' = [pc EXCEPT ![t] = place], UNCHANGED call
      PROVE  pc'[t] = place /\ call'[t] = call[t] /\ Alone(t)
  BY <1>t, <1>b DEF Alone, Stays
<1>r. ASSUME Return(t) PROVE Turn(t) /\ Alone(t)
  <2>1. pc' = [pc EXCEPT ![t] = "idle"] /\ call' = [call EXCEPT ![t] = NoCall]
    BY <1>r DEF Return, Go
  <2> QED  BY <1>a, <2>1 DEF Turn, Returns
<1>c. ASSUME NEW c, Begin(t, c) PROVE pc'[t] = "read" /\ call'[t] = c /\ Alone(t)
  <2>1. pc' = [pc EXCEPT ![t] = "read"] /\ call' = [call EXCEPT ![t] = c]
    BY <1>c DEF Begin, Go
  <2> QED  BY <1>a, <2>1
<1>1. ASSUME NEW op \in Ops[t], BeginAppend(t, op) PROVE Turn(t) /\ Alone(t)
  <2>1. op \in {"entry", "checkpoint"} /\ Begin(t, Call(op, None)) /\ pc[t] = "idle"
    BY <1>1 DEF BeginAppend
  <2>2. Call(op, None) = [op |-> op, pending |-> None, checkpoint |-> NoId, expect |-> "none"]
    BY <2>1, CallIs DEF Kind
  <2>3. Begins(t, op, None) /\ Alone(t)
    BY <1>c, <2>1, <2>2 DEF Begins
  <2> QED  BY <2>1, <2>3 DEF Turn
<1>2. ASSUME NEW p \in Pending, WritePayload(t, p) PROVE Turn(t) /\ Alone(t)
  <2> DEFINE c == [op |-> "preview", pending |-> p, checkpoint |-> NoId, expect |-> target]
  <2>1. [Call("preview", p) EXCEPT !.expect = target] = c
    BY CallIs DEF Kind
  <2>2. call' = [call EXCEPT ![t] = c] /\ pc' = [pc EXCEPT ![t] = "preview"] /\ pc[t] = "idle"
    BY <1>2, <2>1 DEF WritePayload, Go
  <2>3. c.op = "preview" /\ c.pending = p
    OBVIOUS
  <2> HIDE DEF c
  <2>4. pc'[t] = "preview" /\ call'[t] = c /\ Alone(t)
    BY <1>a, <2>2
  <2> QED  BY <1>2, <2>2, <2>3, <2>4 DEF Turn
<1>3. ASSUME NEW p \in Pending, BeginClaim(t, p) PROVE Turn(t) /\ Alone(t)
  <2>1. PICK i \in Lineage(lines) : Begin(t, [Call("claim", p) EXCEPT !.expect = lines[i].expect])
    BY <1>3 DEF BeginClaim
  <2> DEFINE x == lines[i].expect
             c == [Call("claim", p) EXCEPT !.expect = x]
  <2> HIDE DEF x
  <2>2. c.op = "claim" /\ c.pending = p
    BY CallIs DEF Kind
  <2>3. Begin(t, c)
    BY <2>1 DEF x
  <2> HIDE DEF c
  <2>4. Begins(t, "claim", p) /\ Alone(t)
    BY <1>3, <1>c, <2>2, <2>3 DEF Begins, BeginClaim
  <2> QED  BY <1>3, <2>4 DEF Turn
<1>4. ASSUME NEW p \in Pending, BeginDiscard(t, p) PROVE Turn(t) /\ Alone(t)
  <2>1. Call("discard", p) = [op |-> "discard", pending |-> p, checkpoint |-> NoId, expect |-> "none"]
    BY CallIs DEF Kind
  <2>2. Begin(t, Call("discard", p)) /\ pc[t] = "idle"
    BY <1>4 DEF BeginDiscard
  <2>3. Begins(t, "discard", p) /\ Alone(t)
    BY <1>c, <2>1, <2>2 DEF Begins
  <2> QED  BY <1>4, <2>3 DEF Turn
<1>5. ASSUME BeginRewind(t) PROVE Turn(t) /\ Alone(t)
  <2>1. PICK i \in Lineage(lines) : Begin(t, [Call("rewind", None) EXCEPT !.checkpoint = lines[i].id])
    BY <1>5 DEF BeginRewind
  <2> DEFINE x == lines[i].id
             c == [Call("rewind", None) EXCEPT !.checkpoint = x]
  <2> HIDE DEF x
  <2>2. c.op = "rewind" /\ c.pending = None
    BY CallIs DEF Kind
  <2>3. Begin(t, c)
    BY <2>1 DEF x
  <2> HIDE DEF c
  <2>4. Begins(t, "rewind", None) /\ Alone(t)
    BY <1>5, <1>c, <2>2, <2>3 DEF Begins, BeginRewind
  <2> QED  BY <1>5, <2>4 DEF Turn
<1>6. ASSUME BeginPreview(t) PROVE Turn(t) /\ Alone(t)
  <2>1. Continues(t, "preview", "read") /\ Alone(t)
    BY <1>6, <1>c DEF BeginPreview, Continues
  <2> QED  BY <2>1 DEF Turn
<1>7. ASSUME BeginComplete(t) PROVE Turn(t) /\ Alone(t)
  <2> DEFINE p == call[t].pending
  <2>1. p \in Pending /\ pc[t] = "complete"
    BY <1>t, <1>7 DEF CallOk, BeginComplete
  <2> HIDE DEF p
  <2>2. Call("apply", p) = [op |-> "apply", pending |-> p, checkpoint |-> NoId, expect |-> "none"]
    BY <2>1, CallIs DEF Kind
  <2>3. Begin(t, Call("apply", p))
    BY <1>7 DEF BeginComplete, p
  <2>4. pc'[t] = "read" /\ call'[t].op = "apply" /\ call'[t].pending = p /\ Alone(t)
    BY <1>c, <2>2, <2>3
  <2> QED  BY <1>7, <2>1, <2>4 DEF Turn, p
<1>8. ASSUME \/ CompleteRefused(t) \/ ReadRefused(t) \/ RemovePayload(t) \/ CheckRefused(t) \/ Fail(t)
      PROVE  Turn(t) /\ Alone(t)
  <2>1. Return(t)
    BY <1>8 DEF CompleteRefused, ReadRefused, RemovePayload, CheckRefused, Fail
  <2> QED  BY <1>r, <2>1
<1>9. ASSUME Read(t) PROVE Turn(t) /\ Alone(t)
  <2> DEFINE place == IF legacy THEN "migrate" ELSE "write"
  <2>1. pc' = [pc EXCEPT ![t] = place] /\ UNCHANGED call /\ pc[t] = "read"
    BY <1>9 DEF Read, Go
  <2>2. (Continues(t, "read", "migrate") \/ Continues(t, "read", "write")) /\ Alone(t)
    BY <1>b, <2>1 DEF Continues
  <2> QED  BY <2>2 DEF Turn
<1>10. ASSUME Migrate(t) PROVE Turn(t) /\ Alone(t)
  <2>1. CASE ProcessOf[t] \in temps
    BY <1>10, <1>r, <2>1 DEF Migrate
  <2>2. CASE ProcessOf[t] \notin temps
    <3>1. pc' = [pc EXCEPT ![t] = "publish"] /\ UNCHANGED call /\ pc[t] = "migrate"
      BY <1>10, <2>2 DEF Migrate, Go
    <3>2. Continues(t, "migrate", "publish") /\ Alone(t)
      BY <1>b, <3>1 DEF Continues
    <3> QED  BY <3>2 DEF Turn
  <2> QED  BY <2>1, <2>2
<1>11. ASSUME MigratePublished(t) PROVE Turn(t) /\ Alone(t)
  <2>1. pc' = [pc EXCEPT ![t] = "write"] /\ UNCHANGED call /\ pc[t] = "publish"
    BY <1>11 DEF MigratePublished, Go
  <2>2. Continues(t, "publish", "write") /\ Alone(t)
    BY <1>b, <2>1 DEF Continues
  <2> QED  BY <2>2 DEF Turn
<1>12. ASSUME WriteLine(t) PROVE Turn(t) /\ Alone(t)
  <2>1. pc' = [pc EXCEPT ![t] = "mirror"] /\ UNCHANGED call /\ pc[t] = "write"
    BY <1>12 DEF WriteLine, Go
  <2>2. Continues(t, "write", "mirror") /\ Alone(t)
    BY <1>b, <2>1 DEF Continues
  <2> QED  BY <1>12, <2>2 DEF Turn
<1>13. ASSUME Mirror(t) PROVE Turn(t) /\ Alone(t)
  <2>1. pc[t] = "mirror" /\ After(t)
    BY <1>13 DEF Mirror
  <2>2. CASE call[t].op = "claim"
    <3>1. pc' = [pc EXCEPT ![t] = "claimed"] /\ UNCHANGED call
      BY <2>1, <2>2 DEF After, Go
    <3>2. Continues(t, "mirror", "claimed") /\ Alone(t)
      BY <1>b, <2>1, <3>1 DEF Continues
    <3> QED  BY <2>2, <3>2 DEF Turn
  <2>3. CASE call[t].op \in {"apply", "discard"}
    <3>1. pc' = [pc EXCEPT ![t] = "remove"] /\ UNCHANGED call
      BY <2>1, <2>3 DEF After, Go
    <3>2. Continues(t, "mirror", "remove") /\ Alone(t)
      BY <1>b, <2>1, <3>1 DEF Continues
    <3> QED  BY <2>3, <3>2 DEF Turn
  <2>4. CASE call[t].op \notin {"claim", "apply", "discard"}
    BY <1>r, <2>1, <2>4 DEF After
  <2> QED  BY <2>2, <2>3, <2>4
<1>14. ASSUME CheckTarget(t) PROVE Turn(t) /\ Alone(t)
  <2>1. pc' = [pc EXCEPT ![t] = "replace"] /\ UNCHANGED call /\ pc[t] = "claimed"
    BY <1>14 DEF CheckTarget, Go
  <2>2. Continues(t, "claimed", "replace") /\ Alone(t)
    BY <1>b, <2>1 DEF Continues
  <2> QED  BY <2>2 DEF Turn
<1>15. ASSUME Replace(t) PROVE Turn(t) /\ Alone(t)
  <2>1. pc' = [pc EXCEPT ![t] = "complete"] /\ UNCHANGED call /\ pc[t] = "replace"
    BY <1>15 DEF Replace, Go
  <2>2. Continues(t, "replace", "complete") /\ Alone(t)
    BY <1>b, <2>1 DEF Continues
  <2> QED  BY <1>15, <2>2 DEF Turn
<1> QED
  BY <1>1, <1>2, <1>3, <1>4, <1>5, <1>6, <1>7, <1>8, <1>9, <1>10, <1>11, <1>12, <1>13, <1>14, <1>15
  DEF ThreadStep

LEMMA NextTurns ==
  ASSUME Core, Step
  PROVE  \A u \in Thread : Turn(u)
<1>1. ASSUME NEW t \in Thread, ThreadStep(t) PROVE \A u \in Thread : Turn(u)
  <2>1. Turn(t) /\ Alone(t)
    BY <1>1, TurnOfThread
  <2> QED  BY <2>1 DEF Alone, Turn
<1>2. ASSUME NEW r \in Process, Crash(r), NEW u \in Thread PROVE Turn(u)
  <2>1. Stays(u) \/ Returns(u)
    BY <1>2 DEF Crash, Stays, Returns
  <2> QED  BY <2>1 DEF Turn
<1>3. ASSUME NEW c, Edit(c), NEW u \in Thread PROVE Turn(u)
  <2>1. Stays(u)
    BY <1>3 DEF Edit, Stays
  <2> QED  BY <2>1 DEF Turn
<1> QED  BY <1>1, <1>2, <1>3, StepIs

\* What changes besides: the identities, the payloads and the actions that took effect.
LEMMA NextFiles ==
  ASSUME Core, Step, NEW p \in Pending
  PROVE  /\ p \in made => p \in made'
         /\ p \in made' => p \in made \/ p \in payload'
         /\ p \in payload /\ p \notin payload' =>
              \E u \in Thread : pc[u] = "remove" /\ call[u].pending = p
         /\ \/ applied'[p] = applied[p]
            \/ /\ applied'[p] = applied[p] + 1
               /\ \E u \in Thread : Replace(u) /\ call[u].pending = p
<1> DEFINE Goal == /\ p \in made => p \in made'
                   /\ p \in made' => p \in made \/ p \in payload'
                   /\ p \in payload /\ p \notin payload' =>
                        \E u \in Thread : pc[u] = "remove" /\ call[u].pending = p
                   /\ \/ applied'[p] = applied[p]
                      \/ /\ applied'[p] = applied[p] + 1
                         /\ \E u \in Thread : Replace(u) /\ call[u].pending = p
<1>t. applied \in [Pending -> Nat]
  BY DEF Core, Types
<1>1. ASSUME NEW t \in Thread, NEW q \in Pending, WritePayload(t, q) PROVE Goal
  <2>1. made' = made \cup {q} /\ payload' = payload \cup {q} /\ applied' = applied
    BY <1>1 DEF WritePayload, counts
  <2> QED  BY <2>1
<1>2. ASSUME NEW t \in Thread, RemovePayload(t) PROVE Goal
  <2>1. /\ made' = made /\ payload' = payload \ {call[t].pending} /\ applied' = applied
        /\ pc[t] = "remove"
    BY <1>2 DEF RemovePayload, counts
  <2> QED  BY <2>1
<1>3. ASSUME NEW t \in Thread, Replace(t) PROVE Goal
  <2>1. /\ made' = made /\ payload' = payload
        /\ applied' = [applied EXCEPT ![call[t].pending] = @ + 1]
    BY <1>3 DEF Replace
  <2>2. CASE call[t].pending = p
    BY <1>t, <1>3, <2>1, <2>2
  <2>3. CASE call[t].pending # p
    BY <1>t, <2>1, <2>3
  <2> QED  BY <2>2, <2>3
<1>4. ASSUME UNCHANGED <<made, payload, applied>> PROVE Goal
  BY <1>4
<1>5. ASSUME NEW t \in Thread,
             \/ \E op \in Ops[t] : BeginAppend(t, op)
             \/ \E q \in Pending : BeginClaim(t, q) \/ BeginDiscard(t, q)
             \/ BeginRewind(t) \/ BeginPreview(t) \/ BeginComplete(t) \/ CompleteRefused(t)
             \/ Read(t) \/ ReadRefused(t) \/ Migrate(t) \/ MigratePublished(t) \/ WriteLine(t)
             \/ Mirror(t) \/ CheckTarget(t) \/ CheckRefused(t) \/ Fail(t)
      PROVE  UNCHANGED <<made, payload, applied>>
  BY <1>5 DEF BeginAppend, BeginClaim, BeginDiscard, BeginRewind, BeginPreview, BeginComplete,
     CompleteRefused, Read, ReadRefused, Migrate, MigratePublished, WriteLine, Mirror, CheckTarget,
     CheckRefused, Fail, Begin, disk, counts
<1>6. ASSUME NEW r \in Process, Crash(r) PROVE UNCHANGED <<made, payload, applied>>
  BY <1>6 DEF Crash
<1>7. ASSUME NEW c, Edit(c) PROVE UNCHANGED <<made, payload, applied>>
  BY <1>7 DEF Edit
<1> HIDE DEF Goal
<1>8. Goal
  BY <1>1, <1>2, <1>3, <1>4, <1>5, <1>6, <1>7, StepIs DEF ThreadStep
<1> QED  BY <1>8 DEF Goal

-----------------------------------------------------------------------------
(* What a step adds to the transcript, and what it keeps.                       *)

\* A line that is there after a step was there before, or was just written.
LEMMA NewLine ==
  ASSUME Core, LinesStep, NEW i \in DOMAIN lines', lines'[i] # Malformed
  PROVE  \/ \E j \in DOMAIN lines : lines'[i] = lines[j]
         \/ lines'[i] = Older
         \/ \E t \in Thread : /\ pc[t] = "write" /\ pc'[t] \in {"mirror", "idle"}
                              /\ lines'[i] = Sealed(t, got[t])
<1> DEFINE Goal == \/ \E j \in DOMAIN lines : lines'[i] = lines[j]
                   \/ lines'[i] = Older
                   \/ \E t \in Thread : /\ pc[t] = "write" /\ pc'[t] \in {"mirror", "idle"}
                                        /\ lines'[i] = Sealed(t, got[t])
<1>t. /\ lines \in Seq(Line) /\ Solid \in Seq(Line)
      /\ DOMAIN Solid \subseteq DOMAIN lines /\ \A j \in DOMAIN Solid : Solid[j] = lines[j]
  BY SolidLines DEF Core, Types
<1>1. CASE UNCHANGED <<lines, tail>>
  BY <1>1
<1>2. CASE Republished
  BY <1>2 DEF Republished
<1>3. ASSUME NEW t \in Thread, pc[t] = "write", pc'[t] \in {"mirror", "idle"}, NEW e,
             e = Sealed(t, got[t]), Grows(e)
      PROVE  Goal
  <2>1. CASE lines' = Append(lines, e)
    <3>1. e \in Line
      BY <1>3, SealedIsEvent DEF Line
    <3>2. (i \in DOMAIN lines /\ lines'[i] = lines[i]) \/ lines'[i] = e
      BY <1>t, <2>1, <3>1, AppendProperties
    <3> QED  BY <1>3, <3>2
  <2>2. CASE lines' = Append(Solid, Malformed)
    <3>1. Malformed \in Line
      BY DEF Line
    <3>2. (i \in DOMAIN Solid /\ lines'[i] = Solid[i]) \/ lines'[i] = Malformed
      BY <1>t, <2>2, <3>1, AppendProperties
    <3> QED  BY <1>t, <3>2
  <2>3. CASE lines' = Solid
    BY <1>t, <2>3
  <2> QED  BY <1>3, <2>1, <2>2, <2>3 DEF Grows
<1> QED  BY <1>1, <1>2, <1>3 DEF LinesStep

LEMMA NamesStep ==
  ASSUME Core, Step, NEW p \in Pending, Names(p)'
  PROVE  \/ Names(p)
         \/ \E t \in Thread : pc[t] = "write" /\ pc'[t] \in {"mirror", "idle"} /\ call[t].pending = p
<1>1. PICK i \in DOMAIN lines' : lines'[i] # Malformed /\ lines'[i].pending = p
  BY DEF Names
<1>2. LinesStep
  BY NextLines
<1>3. Older.pending # p
  BY ThreadAssumption DEF Older
<1>4. ASSUME NEW t \in Thread, pc[t] = "write", lines'[i] = Sealed(t, got[t])
      PROVE  call[t].pending = p
  BY <1>1, <1>4, SealedIsEvent
<1>5. ASSUME NEW j \in DOMAIN lines, lines'[i] = lines[j] PROVE Names(p)
  BY <1>1, <1>5 DEF Names
<1> QED  BY <1>1, <1>2, <1>3, <1>4, <1>5, NewLine

\* A preview is written by its writer.
LEMMA PreviewStep ==
  ASSUME Core, Step, NEW p \in Pending, On(lines, DOMAIN lines, {"preview"}, p)'
  PROVE  On(lines, DOMAIN lines, {"preview"}, p) \/ \E t \in Thread : Writer(t, p)
<1>1. PICK i \in DOMAIN lines' : lines'[i].kind = "preview" /\ lines'[i].pending = p
  BY DEF On
<1>2. LinesStep
  BY NextLines
<1>3. lines'[i] # Malformed /\ lines'[i] # Older
  BY <1>1 DEF Malformed, Older
<1>4. ASSUME NEW t \in Thread, pc[t] = "write", lines'[i] = Sealed(t, got[t])
      PROVE  Writer(t, p)
  BY <1>1, <1>4, SealedIsEvent DEF Writer, Before
<1>5. ASSUME NEW j \in DOMAIN lines, lines'[i] = lines[j]
      PROVE  On(lines, DOMAIN lines, {"preview"}, p)
  BY <1>1, <1>5 DEF On
<1> QED  BY <1>2, <1>3, <1>4, <1>5, NewLine

\* The solid lines stay, unless a bad one joins them or a migration starts anew.
LEMMA SolidStep ==
  ASSUME Core, Core', LinesStep
  PROVE  \/ Republished \/ SolidBad'
         \/ DOMAIN Solid \subseteq DOMAIN Solid' /\ \A i \in DOMAIN Solid : Solid'[i] = Solid[i]
<1>t. /\ lines \in Seq(Line) /\ Solid \in Seq(Line)
      /\ DOMAIN Solid \subseteq DOMAIN lines /\ \A j \in DOMAIN Solid : Solid[j] = lines[j]
      /\ tail # "bare" => Solid = lines
  BY SolidLines DEF Core, Types
<1>n. /\ lines' \in Seq(Line) /\ (tail' # "bare" => Solid' = lines')
      /\ tail' = "bare" => Solid' = Front(lines') /\ lines' # <<>>
  BY DEF Core, Types, Solid
<1>1. CASE UNCHANGED <<lines, tail>>
  BY <1>1 DEF Solid
<1>2. ASSUME NEW t \in Thread, pc[t] = "write", NEW e, e = Sealed(t, got[t]), Grows(e)
      PROVE  \/ SolidBad'
             \/ DOMAIN Solid \subseteq DOMAIN Solid' /\ \A i \in DOMAIN Solid : Solid'[i] = Solid[i]
  <2>e. e \in Line
    BY <1>2, SealedIsEvent DEF Line
  <2>1. CASE tail = "ended" /\ lines' = Append(lines, e) /\ tail' \in {"ended", "bare"}
    <3>1. /\ Solid = lines /\ Len(lines') = Len(lines) + 1 /\ Len(lines) \in Nat
          /\ \A i \in 1..Len(lines) : lines'[i] = lines[i]
          /\ DOMAIN lines = 1..Len(lines) /\ DOMAIN lines' = 1..Len(lines')
      BY <1>t, <1>n, <2>1, <2>e, AppendProperties
    <3>2. CASE tail' = "ended"
      BY <1>n, <3>1, <3>2
    <3>3. CASE tail' = "bare"
      <4>1. /\ Solid' \in Seq(Line) /\ Len(Solid') = Len(lines') - 1
            /\ \A i \in 1..(Len(lines') - 1) : Solid'[i] = lines'[i]
        BY <1>n, <3>3, FrontOf
      <4>2. DOMAIN Solid' = 1..Len(lines)
        BY <3>1, <4>1
      <4> QED  BY <3>1, <4>1, <4>2
    <3> QED  BY <2>1, <3>2, <3>3
  <2>2. CASE lines' = Append(Solid, Malformed) /\ tail' = "ended"
    <3>1. Malformed \in Line
      BY DEF Line
    <3>2. Len(Solid) + 1 \in DOMAIN lines' /\ lines'[Len(Solid) + 1] = Malformed
      BY <1>t, <2>2, <3>1, AppendProperties
    <3>3. Solid' = lines'
      BY <1>n, <2>2
    <3> QED  BY <3>2, <3>3 DEF SolidBad
  <2>3. CASE lines' = Solid /\ tail' = "torn"
    BY <1>n, <2>3
  <2> QED  BY <1>2, <2>1, <2>2, <2>3 DEF Grows
<1> QED  BY <1>1, <1>2 DEF LinesStep

\* A line that was written is solid, or its transcript is unreadable.
LEMMA WrittenSolid ==
  ASSUME Core, Core', NEW t \in Thread, WriteLine(t), pc[t] = "write"
  PROVE  \/ SolidBad'
         \/ \E i \in DOMAIN Solid' : Solid'[i].kind = call[t].op /\ Solid'[i].pending = call[t].pending
<1> DEFINE e == Sealed(t, got[t])
<1>1. /\ lines \in Seq(Line) /\ Solid \in Seq(Line)
  BY SolidLines DEF Core, Types
<1>2. /\ tail' = "ended" /\ (lines' = Append(lines, e) \/ lines' = Append(Solid, Malformed))
  BY WriteGrows
<1>3. Solid' = lines'
  BY <1>2 DEF Solid
<1>4. e \in Line /\ e.kind = call[t].op /\ e.pending = call[t].pending /\ Malformed \in Line
  BY SealedIsEvent DEF Line
<1> HIDE DEF e
<1>5. CASE lines' = Append(lines, e)
  <2>1. Len(lines) + 1 \in DOMAIN lines' /\ lines'[Len(lines) + 1] = e
    BY <1>1, <1>4, <1>5, AppendProperties
  <2> QED  BY <1>3, <1>4, <2>1
<1>6. CASE lines' = Append(Solid, Malformed)
  <2>1. Len(Solid) + 1 \in DOMAIN lines' /\ lines'[Len(Solid) + 1] = Malformed
    BY <1>1, <1>4, <1>6, AppendProperties
  <2> QED  BY <1>3, <2>1 DEF SolidBad
<1> QED  BY <1>2, <1>5, <1>6

-----------------------------------------------------------------------------
(* A preview that can be claimed has its payload.                               *)

LEMMA OnNames ==
  ASSUME NEW p, NEW kinds, NEW places, places \subseteq DOMAIN lines,
         "malformed" \notin kinds, On(lines, places, kinds, p)
  PROVE  Names(p)
  BY MalformedIsNone DEF On, Names

\* Whose call is about p was about it before, or has just made or found it.
LEMMA CallNames ==
  ASSUME Core, Step, NEW p \in Pending, NEW u \in Thread, call'[u].pending = p
  PROVE  call[u].pending = p \/ WritePayload(u, p) \/ Names(p)
<1>1. Turn(u)
  BY NextTurns
<1>2. p # None /\ NoCall.pending = None
  BY ThreadAssumption, NoCallIs
<1>3. lines \in Seq(Line)
  BY DEF Core, Types
<1>4. ASSUME BeginClaim(u, p) PROVE Names(p)
  <2>1. On(lines, Lineage(lines), {"preview"}, p)
    BY <1>4 DEF BeginClaim, On
  <2> QED  BY <1>3, <2>1, LineageInside, OnNames
<1>5. ASSUME BeginDiscard(u, p) PROVE Names(p)
  <2>1. On(lines, Lineage(lines), {"preview"}, p)
    BY <1>5 DEF BeginDiscard
  <2> QED  BY <1>3, <2>1, LineageInside, OnNames
<1> QED  BY <1>1, <1>2, <1>4, <1>5 DEF Turn, Stays, Returns, Begins, Continues

LEMMA WriterStep ==
  ASSUME Core, Step, NEW p \in Pending, NEW u \in Thread, Writer(u, p)'
  PROVE  \/ Writer(u, p) /\ pc[u] \notin {"remove", "replace"} /\ pc'[u] \notin {"mirror", "idle"}
         \/ WritePayload(u, p)
<1>1. Turn(u) /\ CallOk(u, pc[u], call[u], got[u])
  BY NextTurns DEF Core, CallAt
<1>2. NoCall.op = "none"
  BY NoCallIs
<1>3. call'[u].op = "preview" /\ call'[u].pending = p /\ pc'[u] \in Before \cup {"preview"}
  BY DEF Writer
<1>4. \/ Stays(u)
      \/ WritePayload(u, p)
      \/ \E x \in Before \cup {"preview"}, y \in Places : Continues(u, x, y)
  BY <1>1, <1>2, <1>3 DEF Turn, Returns, Begins, Continues, Places, Before
<1> QED  BY <1>3, <1>4 DEF Writer, Stays, Continues, Before

LEMMA FreshStep ==
  ASSUME Core, Step, NEW p \in Pending, Fresh(p)
  PROVE  Fresh(p)'
<1>f. /\ p \in made => p \in made'
      /\ p \in payload /\ p \notin payload' =>
            \E u \in Thread : pc[u] = "remove" /\ call[u].pending = p
      /\ \/ applied'[p] = applied[p]
         \/ \E u \in Thread : Replace(u) /\ call[u].pending = p
  BY NextFiles
<1>r. \A u \in Thread : Replace(u) => pc[u] = "replace"
  BY DEF Replace
<1>w. ASSUME NEW t \in Thread, WritePayload(t, p)
      PROVE  /\ p \notin made /\ p \in made' /\ p \in payload' /\ UNCHANGED <<lines, applied>>
             /\ call' = [call EXCEPT ![t] = [Call("preview", p) EXCEPT !.expect = target]]
  BY <1>w DEF WritePayload, counts
<1>1. ASSUME p \notin made'
      PROVE  /\ ~Names(p)' /\ applied'[p] = 0
             /\ \A t \in Thread : call'[t].pending # p
  <2>1. p \notin made /\ ~Names(p) /\ applied[p] = 0 /\ \A t \in Thread : call[t].pending # p
    BY <1>1, <1>f DEF Fresh
  <2>2. ~Names(p)'
    BY <2>1, NamesStep
  <2>3. applied'[p] = 0
    BY <1>f, <2>1
  <2>4. ASSUME NEW t \in Thread PROVE call'[t].pending # p
    BY <1>1, <1>w, <2>1, CallNames
  <2> QED  BY <2>2, <2>3, <2>4
<1>2. ASSUME NEW t \in Thread, Writer(t, p)'
      PROVE  /\ ~Names(p)' /\ applied'[p] = 0 /\ p \in payload'
             /\ \A u \in Thread \ {t} : call'[u].pending # p
  <2>1. CASE Writer(t, p) /\ pc[t] \notin {"remove", "replace"} /\ pc'[t] \notin {"mirror", "idle"}
    <3>1. /\ ~Names(p) /\ applied[p] = 0 /\ p \in payload
          /\ \A u \in Thread \ {t} : call[u].pending # p
      BY <2>1 DEF Fresh
    <3>2. p \in made
      BY <2>1 DEF Fresh, Writer
    <3>3. ~Names(p)'
      BY <2>1, <3>1, NamesStep
    <3>4. applied'[p] = 0
      BY <1>f, <1>r, <2>1, <3>1
    <3>5. p \in payload'
      BY <1>f, <2>1, <3>1
    <3>6. ASSUME NEW u \in Thread \ {t} PROVE call'[u].pending # p
      BY <1>w, <3>1, <3>2, CallNames
    <3> QED  BY <3>3, <3>4, <3>5, <3>6
  <2>2. CASE WritePayload(t, p)
    <3>1. /\ p \notin made /\ p \in payload' /\ UNCHANGED <<lines, applied>>
          /\ call' = [call EXCEPT ![t] = [Call("preview", p) EXCEPT !.expect = target]]
      BY <1>w, <2>2
    <3>2. ~Names(p) /\ applied[p] = 0 /\ \A u \in Thread : call[u].pending # p
      BY <3>1 DEF Fresh
    <3>3. ~Names(p)'
      BY <3>1, <3>2 DEF Names
    <3>4. call \in [Thread -> CallRecord]
      BY DEF Core, Types
    <3>5. ASSUME NEW u \in Thread \ {t} PROVE call'[u].pending # p
      BY <3>1, <3>2, <3>4
    <3> QED  BY <3>1, <3>2, <3>3, <3>5
  <2> QED  BY <1>2, <2>1, <2>2, WriterStep
<1> QED  BY <1>1, <1>2 DEF Fresh

\* What is over has no writer of its preview.
LEMMA OverNoWriter ==
  ASSUME Core, NEW p \in Pending, Fresh(p), Over(p)
  PROVE  p \in made /\ \A t \in Thread : ~Writer(t, p)
<1>1. ASSUME NEW t \in Thread, Writer(t, p) PROVE FALSE
  <2>1. applied[p] = 0 /\ p \in payload /\ \A u \in Thread \ {t} : call[u].pending # p
    BY <1>1 DEF Fresh
  <2>2. ASSUME NEW u \in Thread PROVE ~Claiming(u, p) /\ ~Discarding(u, p)
    BY <1>1, <2>1 DEF Claiming, Discarding, Writer
  <2> QED  BY <2>1, <2>2 DEF Over, Spent
<1>2. p \in made
  <2>1. SUFFICES ASSUME p \notin made PROVE FALSE
    OBVIOUS
  <2>2. applied[p] = 0 /\ \A u \in Thread : call[u].pending # p
    BY <2>1 DEF Fresh
  <2> QED  BY <2>1, <2>2 DEF Over, Spent, Claiming, Discarding
<1> QED  BY <1>1, <1>2

\* Of what is over, the transcript's answer stays.
LEMMA GoneStays ==
  ASSUME Core, Core', Step, NEW p \in Pending, Fresh(p), Over(p), Gone(p)
  PROVE  Gone(p)'
<1>1. p \in made /\ \A t \in Thread : ~Writer(t, p)
  BY OverNoWriter
<1>2. \A t \in Thread : ~Writer(t, p)'
  BY <1>1, WriterStep DEF WritePayload
<1>3. LinesStep
  BY NextLines
<1>4. CASE ~On(lines, DOMAIN lines, {"preview"}, p)
  <2>1. ~On(lines, DOMAIN lines, {"preview"}, p)'
    BY <1>1, <1>4, PreviewStep
  <2> QED  BY <1>2, <2>1 DEF Gone
<1>5. CASE Republished
  <2>1. ~On(lines, DOMAIN lines, {"preview"}, p)'
    BY <1>5 DEF Republished, On, Older
  <2> QED  BY <1>2, <2>1 DEF Gone
<1>6. CASE SolidBad'
  BY <1>6 DEF Gone
<1>7. CASE /\ DOMAIN Solid \subseteq DOMAIN Solid' /\ \A i \in DOMAIN Solid : Solid'[i] = Solid[i]
           /\ SolidBad \/ On(Solid, DOMAIN Solid, Ended, p)
  <2>1. SolidBad => SolidBad'
    BY <1>7 DEF SolidBad
  <2>2. On(Solid, DOMAIN Solid, Ended, p) => On(Solid, DOMAIN Solid, Ended, p)'
    BY <1>7 DEF On, Ended
  <2> QED  BY <1>7, <2>1, <2>2 DEF Gone
<1> QED  BY <1>3, <1>4, <1>5, <1>6, <1>7, SolidStep DEF Gone

LEMMA ClaimingStep ==
  ASSUME Core, Step, NEW p \in Pending, NEW u \in Thread
  PROVE  /\ Claiming(u, p)' =>
              \/ Claiming(u, p)
              \/ WriteLine(u) /\ pc[u] = "write" /\ call[u].op = "claim" /\ call[u].pending = p
         /\ Discarding(u, p)' =>
              \/ Discarding(u, p)
              \/ WriteLine(u) /\ pc[u] = "write" /\ call[u].op = "discard" /\ call[u].pending = p
<1>1. Turn(u) /\ CallOk(u, pc[u], call[u], got[u])
  BY NextTurns DEF Core, CallAt
<1>2. NoCall.op = "none"
  BY NoCallIs
<1> QED  BY <1>1, <1>2 DEF Claiming, Discarding, Turn, Stays, Returns, Begins, Continues, CallOk

LEMMA OverStep ==
  ASSUME Core, Step, NEW p \in Pending, Over(p)', ~Over(p)
  PROVE  \E u \in Thread : /\ WriteLine(u) /\ pc[u] = "write" /\ call[u].op \in {"claim", "discard"}
                           /\ call[u].pending = p
<1>f. /\ p \in made' => p \in made \/ p \in payload'
      /\ p \in payload /\ p \notin payload' =>
            \E u \in Thread : pc[u] = "remove" /\ call[u].pending = p
      /\ \/ applied'[p] = applied[p]
         \/ \E u \in Thread : Replace(u) /\ call[u].pending = p
  BY NextFiles
<1>1. ASSUME NEW u \in Thread, Replace(u), call[u].pending = p PROVE Over(p)
  <2>1. call[u].op = "claim" /\ pc[u] = "replace"
    BY <1>1 DEF Core, CallAt, CallOk, Replace
  <2> QED  BY <1>1, <2>1 DEF Over, Spent, Claiming
<1>2. ASSUME NEW u \in Thread, pc[u] = "remove", call[u].pending = p PROVE Over(p)
  <2>1. call[u].op \in {"apply", "discard"}
    BY <1>2 DEF Core, CallAt, CallOk
  <2> QED  BY <1>2, <2>1 DEF Over, Spent, Claiming, Discarding
<1>3. CASE applied'[p] # 0
  BY <1>f, <1>1, <1>3 DEF Over, Spent
<1>4. CASE p \in made' \ payload'
  BY <1>f, <1>2, <1>4 DEF Over
<1>5. ASSUME NEW u \in Thread, Claiming(u, p)' \/ Discarding(u, p)'
      PROVE  /\ WriteLine(u) /\ pc[u] = "write" /\ call[u].op \in {"claim", "discard"}
             /\ call[u].pending = p
  BY <1>5, ClaimingStep DEF Over, Spent
<1> QED  BY <1>3, <1>4, <1>5 DEF Over, Spent

LEMMA OverIsGoneStep ==
  ASSUME Core, Core', Step, \A p \in Pending : Fresh(p), OverIsGone
  PROVE  OverIsGone'
<1>1. SUFFICES ASSUME NEW p \in Pending, Over(p)' PROVE Gone(p)'
  BY DEF OverIsGone
<1>2. CASE Over(p)
  <2>1. Gone(p)
    BY <1>2 DEF OverIsGone
  <2> QED  BY <1>2, <2>1, GoneStays
<1>3. CASE ~Over(p)
  <2>1. PICK u \in Thread : /\ WriteLine(u) /\ pc[u] = "write" /\ call[u].op \in {"claim", "discard"}
                            /\ call[u].pending = p
    BY <1>1, <1>3, OverStep
  <2>2. SolidBad' \/ On(Solid, DOMAIN Solid, Ended, p)'
    BY <2>1, WrittenSolid DEF On, Ended
  <2> QED  BY <2>2 DEF Gone
<1> QED  BY <1>2, <1>3

LEMMA IInvInit ==
  ASSUME Init
  PROVE  IInv
<1>1. Core
  BY CoreInit
<1>2. /\ call = [t \in Thread |-> NoCall] /\ applied = [p \in Pending |-> 0]
      /\ made = {} /\ lines = IF legacy THEN <<Older>> ELSE <<>>
  BY DEF Init
<1>3. NoCall.op = "none" /\ NoCall.pending = None
  BY NoCallIs
<1>4. ASSUME NEW p \in Pending
      PROVE  Fresh(p) /\ ~Over(p)
  <2>1. p # None /\ Older.pending = None
    BY ThreadAssumption DEF Older
  <2>2. ~Names(p)
    BY <1>2, <2>1 DEF Names
  <2>3. \A t \in Thread : call[t].pending # p /\ ~Writer(t, p) /\ ~Claiming(t, p) /\ ~Discarding(t, p)
    BY <1>2, <1>3, <2>1 DEF Writer, Claiming, Discarding
  <2>4. applied[p] = 0 /\ p \notin made
    BY <1>2
  <2> QED  BY <2>2, <2>3, <2>4 DEF Fresh, Over, Spent
<1> QED  BY <1>1, <1>4 DEF IInv, Core, OverIsGone

LEMMA IInvStep ==
  ASSUME IInv, [Next]_vars
  PROVE  IInv'
<1>1. Core /\ (\A p \in Pending : Fresh(p)) /\ OverIsGone
  BY DEF IInv, Core
<1>2. Core'
  BY <1>1, CoreStep
<1>3. CASE Step
  BY <1>1, <1>2, <1>3, FreshStep, OverIsGoneStep DEF IInv, Core
<1>4. CASE UNCHANGED vars
  <2>1. UNCHANGED <<lines, tail, made, payload, pc, call, applied>>
    BY <1>4 DEF vars
  <2>2. \A p \in Pending : Fresh(p)'
    BY <1>1, <2>1 DEF Fresh, Names, Writer
  <2>3. OverIsGone'
    BY <1>1, <2>1 DEF OverIsGone, Over, Spent, Claiming, Discarding, Gone, SolidBad, Solid, On, Writer
  <2> QED  BY <1>2, <2>2, <2>3 DEF IInv, Core
<1> QED  BY <1>3, <1>4 DEF Next

LEMMA IInvAlways == Spec => []IInv
BY IInvInit, IInvStep, PTL DEF Spec

\* In a transcript that reads, a preview that is neither claimed nor ended has its
\* payload, whoever failed or was killed on the way, in any number of processes.
THEOREM SessionPreviewHasPayload == Spec => []PreviewHasPayload
<1>1. ASSUME IInv PROVE PreviewHasPayload
  <2>1. SUFFICES ASSUME Readable, NEW p \in Pending, On(lines, DOMAIN lines, {"preview"}, p),
                        ~PendingTerminal(p), p \notin payload
                 PROVE  FALSE
    BY DEF PreviewHasPayload
  <2>2. Core /\ Fresh(p) /\ OverIsGone
    BY <1>1 DEF IInv, Core
  <2>3. /\ DOMAIN Solid \subseteq DOMAIN lines
        /\ \A i \in DOMAIN Solid : Solid[i] = lines[i]
    BY <2>2, SolidLines DEF Core
  <2>4. p \in made
    BY <2>1, <2>2, OnNames DEF Fresh
  <2>5. Gone(p)
    BY <2>1, <2>2, <2>4 DEF Over, OverIsGone
  <2>6. ~SolidBad
    BY <2>1, <2>3 DEF SolidBad, Readable
  <2>7. ~On(Solid, DOMAIN Solid, Ended, p)
    BY <2>1, <2>3 DEF On, Ended, PendingTerminal, Everywhere
  <2> QED  BY <2>1, <2>5, <2>6, <2>7 DEF Gone
<1> QED  BY <1>1, IInvAlways, PTL

-----------------------------------------------------------------------------
(* What holds until two processes decide at once.                               *)

Decision == {"claim", "discard", "rewind"}

\* Two threads that decide are one thread.
LEMMA OneHolder ==
  ASSUME ~Overlap, Core, NEW t \in Thread, NEW u \in Thread,
         pc[t] \in Locked, pc[u] \in Locked, call[t].op \in Decision, call[u].op \in Decision
  PROVE  t = u
<1>1. lock[ProcessOf[t]] = t /\ lock[ProcessOf[u]] = u
  BY DEF Core, LockHeld
<1> QED  BY <1>1 DEF Overlap, Deciding, Decision

\* When one begins to decide there is no other, or the two are together from then on.
LEMMA NoHolder ==
  ASSUME ~Overlap', Core, NEW t \in Thread, NEW c, Begin(t, c), c.op \in Decision,
         NEW u \in Thread, pc[u] \in Locked, call[u].op \in Decision
  PROVE  FALSE
<1>1. lock[ProcessOf[u]] = u /\ lock[ProcessOf[t]] = None
  BY DEF Core, LockHeld, Begin, Lock
<1>2. ProcessOf[t] # ProcessOf[u] /\ t # u
  BY <1>1, ThreadAssumption
<1>3. ProcessOf[t] \in Process /\ ProcessOf[u] \in Process
  BY ThreadAssumption
<1>4. /\ lock' = [lock EXCEPT ![ProcessOf[t]] = t] /\ call' = [call EXCEPT ![t] = c]
      /\ lock \in [Process -> Thread \cup {None}] /\ t \in DOMAIN call
  BY DEF Begin, Lock, Core, Types
<1>5. lock'[ProcessOf[t]] = t /\ lock'[ProcessOf[u]] = u /\ call'[t] = c /\ call'[u] = call[u]
  BY <1>1, <1>2, <1>3, <1>4
<1> QED  BY <1>2, <1>5 DEF Overlap, Deciding, Decision

\* A line of another kind than a plain entry was there, or its writer just wrote it.
LEMMA KindStep ==
  ASSUME Core, Step, NEW p \in Pending, NEW k \in Kind \ {"entry"}, On(lines, DOMAIN lines, {k}, p)'
  PROVE  \/ On(lines, DOMAIN lines, {k}, p)
         \/ \E t \in Thread : /\ pc[t] = "write" /\ pc'[t] \in {"mirror", "idle"}
                              /\ call[t].op = k /\ call[t].pending = p
<1>1. PICK i \in DOMAIN lines' : lines'[i].kind = k /\ lines'[i].pending = p
  BY DEF On
<1>2. LinesStep
  BY NextLines
<1>3. lines'[i] # Malformed /\ lines'[i] # Older
  BY <1>1 DEF Malformed, Older, Kind
<1>4. ASSUME NEW t \in Thread, pc[t] = "write", lines'[i] = Sealed(t, got[t])
      PROVE  call[t].op = k /\ call[t].pending = p
  BY <1>1, <1>4, SealedIsEvent
<1>5. ASSUME NEW j \in DOMAIN lines, lines'[i] = lines[j]
      PROVE  On(lines, DOMAIN lines, {k}, p)
  BY <1>1, <1>5 DEF On
<1> QED  BY <1>2, <1>3, <1>4, <1>5, NewLine

\* What can be claimed or discarded is not over.
LEMMA NotOver ==
  ASSUME Core, OverIsGone, Readable, NEW p \in Pending, ~PendingTerminal(p),
         On(lines, Lineage(lines), {"preview"}, p)
  PROVE  ~Over(p) /\ ~Spent(p) /\ ~On(lines, DOMAIN lines, {"discard"}, p)
<1>1. /\ DOMAIN Solid \subseteq DOMAIN lines
      /\ \A i \in DOMAIN Solid : Solid[i] = lines[i]
      /\ lines \in Seq(Line)
  BY SolidLines DEF Core, Types
<1>2. ~SolidBad
  BY <1>1 DEF SolidBad, Readable
<1>3. ~On(Solid, DOMAIN Solid, Ended, p)
  BY <1>1 DEF On, Ended, PendingTerminal, Everywhere
<1>4. On(lines, DOMAIN lines, {"preview"}, p)
  BY <1>1, LineageInside DEF On
<1>5. ~On(lines, DOMAIN lines, {"discard"}, p)
  BY DEF On, PendingTerminal, Everywhere
<1> QED  BY <1>2, <1>3, <1>4, <1>5 DEF OverIsGone, Gone, Over

\* An action becomes spent when its claim is written.
LEMMA SpentStep ==
  ASSUME Core, Step, NEW p \in Pending, Spent(p)'
  PROVE  \/ Spent(p)
         \/ \E u \in Thread : /\ WriteLine(u) /\ pc[u] = "write" /\ call[u].op = "claim"
                              /\ call[u].pending = p
<1>1. \/ applied'[p] = applied[p]
      \/ \E u \in Thread : Replace(u) /\ call[u].pending = p
  BY NextFiles
<1>2. ASSUME NEW u \in Thread, Replace(u), call[u].pending = p PROVE Spent(p)
  <2>1. call[u].op = "claim" /\ pc[u] = "replace"
    BY <1>2 DEF Core, CallAt, CallOk, Replace
  <2> QED  BY <1>2, <2>1 DEF Spent, Claiming
<1> QED  BY <1>1, <1>2, ClaimingStep DEF Spent

LEMMA NotSpentYetStep ==
  ASSUME ~Overlap, ~Overlap', Core, OverIsGone, NotSpentYet, Step
  PROVE  NotSpentYet'
<1> DEFINE Discarded(p) == On(lines, DOMAIN lines, {"discard"}, p)
<1>d. ASSUME NEW p \in Pending, Discarded(p)'
      PROVE  \/ Discarded(p)
             \/ \E v \in Thread : /\ pc[v] = "write" /\ pc'[v] \in {"mirror", "idle"}
                                  /\ call[v].op = "discard" /\ call[v].pending = p
  BY <1>d, KindStep DEF Kind
<1>w. "write" \in Before /\ Before \subseteq Locked /\ {"mirror", "idle"} \cap Before = {}
  BY DEF Before, Locked
<1>n. ASSUME NEW p \in Pending, NEW t \in Thread, call[t].pending = p,
             call[t].op \in {"claim", "discard"}, pc[t] \in Before
      PROVE  ~Spent(p) /\ (call[t].op = "claim" => ~Discarded(p))
  BY <1>n DEF NotSpentYet
<1>1. ASSUME NEW p \in Pending, NEW t \in Thread, call'[t].pending = p,
             call'[t].op \in {"claim", "discard"}, pc'[t] \in Before
      PROVE  ~Spent(p)' /\ (call'[t].op = "claim" => ~Discarded(p)')
  <2>1. \/ call'[t] = call[t] /\ pc[t] \in Before
        \/ BeginClaim(t, p) \/ BeginDiscard(t, p)
    <3>1. Turn(t) /\ CallOk(t, pc[t], call[t], got[t])
      BY NextTurns DEF Core, CallAt
    <3> QED
      BY <1>1, <3>1, NoCallIs DEF Turn, Stays, Returns, Begins, Continues, CallOk, Before
  <2>2. CASE call'[t] = call[t] /\ pc[t] \in Before
    <3>1. ~Spent(p) /\ (call[t].op = "claim" => ~Discarded(p))
      BY <1>1, <1>n, <2>2
    <3>2. ASSUME NEW u \in Thread, pc[u] = "write", call[u].op \in {"claim", "discard"} PROVE u = t
      BY <1>1, <1>w, <2>2, <3>2, OneHolder DEF Decision
    <3>3. ~Spent(p)'
      <4>1. ASSUME NEW u \in Thread, WriteLine(u), pc[u] = "write", call[u].op = "claim" PROVE FALSE
        <5>1. u = t
          BY <3>2, <4>1
        <5>2. pc'[u] = "mirror"
          BY <4>1 DEF WriteLine, Go, Core, Types
        <5> QED  BY <1>1, <1>w, <5>1, <5>2
      <4> QED  BY <3>1, <4>1, SpentStep
    <3>4. call'[t].op = "claim" => ~Discarded(p)'
      BY <1>1, <1>d, <1>w, <2>2, <3>1, <3>2
    <3> QED  BY <3>3, <3>4
  <2>3. CASE BeginClaim(t, p) \/ BeginDiscard(t, p)
    <3>1. /\ Readable /\ ~PendingTerminal(p) /\ On(lines, Lineage(lines), {"preview"}, p)
          /\ Lock(t) /\ "pending" \in Ops[t]
      BY <2>3 DEF BeginClaim, BeginDiscard, Begin, On
    <3>2. ~Spent(p) /\ ~Discarded(p)
      BY <3>1, NotOver
    <3>t. t \in DOMAIN call
      BY DEF Core, Types
    <3>c. Begin(t, call'[t]) /\ call'[t].op \in {"claim", "discard"}
      <4>1. CASE BeginClaim(t, p)
        <5>1. PICK i \in Lineage(lines) :
                Begin(t, [Call("claim", p) EXCEPT !.expect = lines[i].expect])
          BY <4>1 DEF BeginClaim
        <5>2. call'[t] = [Call("claim", p) EXCEPT !.expect = lines[i].expect]
          BY <3>t, <5>1 DEF Begin
        <5> QED  BY <5>1, <5>2 DEF Call, NoCall
      <4>2. CASE BeginDiscard(t, p)
        <5>1. call'[t] = Call("discard", p)
          BY <3>t, <4>2 DEF Begin, BeginDiscard
        <5> QED  BY <4>2, <5>1 DEF BeginDiscard, Call, NoCall
      <4> QED  BY <2>3, <4>1, <4>2
    <3>3. ASSUME NEW u \in Thread, pc[u] = "write", call[u].op \in {"claim", "discard"} PROVE FALSE
      BY <1>w, <3>c, <3>3, NoHolder DEF Decision
    <3> QED  BY <1>d, <3>2, <3>3, SpentStep
  <2> QED  BY <2>1, <2>2, <2>3
<1>2. ASSUME NEW p \in Pending, Spent(p)', Discarded(p)' PROVE FALSE
  <2>1. CASE Spent(p)
    <3>1. ~Discarded(p)
      BY <2>1 DEF NotSpentYet
    <3> QED  BY <1>2, <1>d, <1>n, <1>w, <2>1, <3>1
  <2>2. ASSUME NEW u \in Thread, pc[u] = "write", call[u].op = "claim", call[u].pending = p
        PROVE  FALSE
    <3>1. ~Discarded(p)
      BY <1>n, <1>w, <2>2
    <3>2. PICK v \in Thread : pc[v] = "write" /\ call[v].op = "discard"
      BY <1>2, <1>d, <3>1
    <3>3. u = v
      BY <1>w, <2>2, <3>2, OneHolder DEF Decision
    <3> QED  BY <2>2, <3>2, <3>3
  <2> QED  BY <1>2, <2>1, <2>2, SpentStep
<1> QED  BY <1>1, <1>2 DEF NotSpentYet

LEMMA OneClaimStep ==
  ASSUME ~Overlap, ~Overlap', Core, NotSpentYet, OneClaim, Step
  PROVE  OneClaim'
<1> SUFFICES ASSUME NEW p \in Pending
             PROVE  /\ applied'[p] <= 1
                    /\ \A t, u \in Thread : Claiming(t, p)' /\ Claiming(u, p)' => t = u
                    /\ \A t \in Thread : Claiming(t, p)' /\ call'[t].op = "claim" /\ pc'[t] # "complete"
                         => applied'[p] = 0
  BY DEF OneClaim
<1>o. /\ applied[p] <= 1
      /\ \A t, u \in Thread : Claiming(t, p) /\ Claiming(u, p) => t = u
      /\ \A t \in Thread : Claiming(t, p) /\ call[t].op = "claim" /\ pc[t] # "complete" => applied[p] = 0
  BY DEF OneClaim
<1>t. applied \in [Pending -> Nat] /\ pc \in [Thread -> Places]
  BY DEF Core, Types
<1>f. \/ applied'[p] = applied[p]
      \/ /\ applied'[p] = applied[p] + 1
         /\ \E u \in Thread : Replace(u) /\ call[u].pending = p
  BY NextFiles
<1>r. ASSUME NEW u \in Thread, Replace(u), call[u].pending = p
      PROVE  /\ Claiming(u, p) /\ call[u].op = "claim" /\ pc[u] = "replace" /\ pc'[u] = "complete"
  <2>1. call[u].op = "claim" /\ pc[u] = "replace"
    BY <1>r DEF Core, CallAt, CallOk, Replace
  <2> QED  BY <1>r, <1>t, <2>1 DEF Claiming, Replace, Go
<1>n. ASSUME NEW t \in Thread, pc[t] = "write", call[t].op = "claim", call[t].pending = p
      PROVE  applied[p] = 0 /\ \A u \in Thread : ~Claiming(u, p)
  BY <1>n DEF NotSpentYet, Before, Spent
<1>1. applied'[p] <= 1
  <2>1. ASSUME NEW u \in Thread, Replace(u), call[u].pending = p PROVE applied[p] = 0
    BY <1>o, <1>r, <2>1
  <2> QED  BY <1>f, <1>o, <1>t, <2>1
<1>2. ASSUME NEW t \in Thread, NEW u \in Thread, Claiming(t, p)', Claiming(u, p)' PROVE t = u
  <2>1. ASSUME NEW v \in Thread, Claiming(v, p)'
        PROVE  Claiming(v, p) \/ (pc[v] = "write" /\ call[v].op = "claim" /\ call[v].pending = p)
    BY <2>1, ClaimingStep
  <2>2. CASE Claiming(t, p) /\ Claiming(u, p)
    BY <1>o, <2>2
  <2>3. CASE pc[t] = "write" /\ call[t].op = "claim" /\ pc[u] = "write" /\ call[u].op = "claim"
    BY <2>3, OneHolder DEF Locked, Before, Decision
  <2> QED  BY <1>2, <1>n, <2>1, <2>2, <2>3
<1>3. ASSUME NEW t \in Thread, Claiming(t, p)', call'[t].op = "claim", pc'[t] # "complete"
      PROVE  applied'[p] = 0
  <2>1. CASE pc[t] = "write" /\ call[t].op = "claim" /\ call[t].pending = p
    BY <1>f, <1>n, <1>r, <2>1
  <2>2. CASE Claiming(t, p)
    <3>1. Turn(t)
      BY NextTurns
    <3>2. call[t].op = "claim" /\ pc[t] # "complete"
      BY <1>3, <2>2, <3>1, NoCallIs DEF Turn, Stays, Returns, Begins, Continues, Claiming
    <3>3. applied[p] = 0
      BY <1>o, <2>2, <3>2
    <3>4. ASSUME NEW u \in Thread, Replace(u), call[u].pending = p PROVE FALSE
      <4>1. u = t
        BY <1>o, <1>r, <2>2, <3>4
      <4> QED  BY <1>3, <1>r, <3>4, <4>1
    <3> QED  BY <1>f, <3>3, <3>4
  <2> QED  BY <1>3, <2>1, <2>2, ClaimingStep
<1> QED  BY <1>1, <1>2, <1>3

-----------------------------------------------------------------------------
(* A claim stays on the lineage.                                                *)

LEMMA AppendOf ==
  ASSUME NEW S, NEW s \in Seq(S), NEW e \in S
  PROVE  /\ Append(s, e) \in Seq(S) /\ Len(Append(s, e)) = Len(s) + 1
         /\ DOMAIN s = 1..Len(s) /\ Len(s) \in Nat /\ DOMAIN Append(s, e) = 1..(Len(s) + 1)
         /\ \A i \in DOMAIN s : Append(s, e)[i] = s[i]
         /\ Append(s, e)[Len(s) + 1] = e
BY AppendProperties

\* What reads with a line more reads without it, and the line follows.
LEMMA ReadsAppend ==
  ASSUME NEW S, NEW s \in Seq(S), NEW e \in S, Reads(Append(s, e))
  PROVE  Reads(s) /\ ValidNext(s, e)
<1> DEFINE z == Append(s, e)
<1>1. /\ z \in Seq(S) /\ Len(z) = Len(s) + 1
      /\ DOMAIN s = 1..Len(s) /\ Len(s) \in Nat /\ DOMAIN z = 1..(Len(s) + 1)
      /\ \A i \in DOMAIN s : z[i] = s[i]
      /\ z[Len(s) + 1] = e
  BY AppendOf
<1>2. /\ \A i \in DOMAIN z : z[i] # Malformed
      /\ \A i \in DOMAIN z : ValidNext(SubSeq(z, 1, i - 1), z[i])
  BY DEF Reads
<1> HIDE DEF z
<1>3. ASSUME NEW i \in 1..(Len(s) + 1) PROVE SubSeq(z, 1, i - 1) = SubSeq(s, 1, i - 1)
  <2>1. i - 1 \in Int /\ 1 \in Int
    OBVIOUS
  <2>2. \A j \in 1..(i - 1) : s[j] \in S /\ z[j] \in S /\ z[j] = s[j]
    BY <1>1
  <2>3. /\ SubSeq(z, 1, i - 1) \in Seq(S) /\ SubSeq(s, 1, i - 1) \in Seq(S)
        /\ Len(SubSeq(z, 1, i - 1)) = Len(SubSeq(s, 1, i - 1))
        /\ Len(SubSeq(z, 1, i - 1)) = i - 1
        /\ \A j \in 1..(i - 1) : SubSeq(z, 1, i - 1)[j] = SubSeq(s, 1, i - 1)[j]
    BY <1>1, <2>2
  <2> QED  BY <2>3, SeqEqual
<1>4. Reads(s)
  <2>1. \A i \in DOMAIN s : s[i] # Malformed
    BY <1>1, <1>2
  <2>2. ASSUME NEW i \in DOMAIN s PROVE ValidNext(SubSeq(s, 1, i - 1), s[i])
    <3>1. i \in DOMAIN z /\ i \in 1..(Len(s) + 1) /\ z[i] = s[i]
      BY <1>1
    <3>2. ValidNext(SubSeq(z, 1, i - 1), z[i])
      BY <1>2, <3>1
    <3>3. SubSeq(z, 1, i - 1) = SubSeq(s, 1, i - 1)
      BY <1>3, <3>1
    <3> QED  BY <3>1, <3>2, <3>3
  <2> QED  BY <2>1, <2>2 DEF Reads
<1>5. ValidNext(s, e)
  <2> DEFINE n == Len(s) + 1
  <2>1. n \in DOMAIN z /\ n \in 1..(Len(s) + 1) /\ z[n] = e /\ n - 1 = Len(s)
    BY <1>1
  <2>2. ValidNext(SubSeq(z, 1, n - 1), z[n])
    BY <1>2, <2>1
  <2>3. SubSeq(z, 1, n - 1) = SubSeq(s, 1, n - 1)
    BY <1>3, <2>1
  <2>4. SubSeq(s, 1, Len(s)) = s
    BY SubSeqFull
  <2> HIDE DEF n
  <2> QED  BY <2>1, <2>2, <2>3, <2>4
<1> QED  BY <1>4, <1>5

\* The last event is on the lineage.
LEMMA LineageLast ==
  ASSUME NEW S, NEW s \in Seq(S), s # <<>>
  PROVE  Len(s) \in Lineage(s)
<1>1. PICK f : Path(s, Len(s), f) /\ Lineage(s) = f[Len(s)]
  BY LineagePath
<1>2. Len(s) \in Nat /\ Len(s) # 0
  BY EmptySeq
<1>3. f[Len(s)] = PathTo(s, f, Len(s))
  BY <1>1, <1>2, PathAt
<1> QED  BY <1>1, <1>2, <1>3 DEF PathTo

\* An open claim is the new line, or was open.
LEMMA OpenAppend ==
  ASSUME NEW S, NEW s \in Seq(S), NEW e \in S, NEW p \in Pending, Open(Append(s, e), p)
  PROVE  (e.kind = "claim" /\ e.pending = p) \/ Open(s, p)
<1> DEFINE z == Append(s, e)
<1>1. /\ Len(s) \in Nat /\ DOMAIN s = 1..Len(s) /\ DOMAIN z = 1..(Len(s) + 1)
      /\ \A i \in DOMAIN s : z[i] = s[i]
      /\ z[Len(s) + 1] = e
  BY AppendOf
<1>2. On(z, DOMAIN z, {"claim"}, p) /\ ~On(z, DOMAIN z, {"apply", "discard"}, p)
  BY DEF Open, PendingResolved
<1> HIDE DEF z
<1>3. ~On(s, DOMAIN s, {"apply", "discard"}, p)
  BY <1>1, <1>2 DEF On
<1>4. (e.kind = "claim" /\ e.pending = p) \/ On(s, DOMAIN s, {"claim"}, p)
  <2>1. PICK i \in DOMAIN z : z[i].kind = "claim" /\ z[i].pending = p
    BY <1>2 DEF On
  <2>2. i \in DOMAIN s \/ i = Len(s) + 1
    BY <1>1
  <2> QED  BY <1>1, <2>1, <2>2 DEF On
<1> QED  BY <1>3, <1>4 DEF Open, PendingResolved

LEMMA OnLineAppend ==
  ASSUME NEW s \in Seq(Line), NEW e \in Line, OnLine(s),
         e.kind = "rewind" /\ Reads(s) => \A p \in Pending : ~Open(s, p)
  PROVE  OnLine(Append(s, e))
<1> DEFINE z == Append(s, e)
<1>1. /\ Len(s) \in Nat /\ DOMAIN s = 1..Len(s) /\ DOMAIN z = 1..(Len(s) + 1)
      /\ \A i \in DOMAIN s : z[i] = s[i]
      /\ z[Len(s) + 1] = e /\ z \in Seq(Line) /\ Len(z) = Len(s) + 1 /\ z # <<>>
  BY AppendOf, AppendProperties
<1>2. SUFFICES ASSUME Reads(z), NEW p \in Pending, Open(z, p) PROVE On(z, Lineage(z), {"claim"}, p)
  BY DEF OnLine
<1>3. Reads(s) /\ ValidNext(s, e)
  BY <1>2, ReadsAppend
<1>4. CASE e.kind = "claim" /\ e.pending = p
  <2>1. Len(s) + 1 \in Lineage(z)
    BY <1>1, LineageLast
  <2> QED  BY <1>1, <1>4, <2>1 DEF On
<1>5. CASE Open(s, p)
  <2>1. e.kind # "rewind"
    BY <1>3, <1>5
  <2>2. On(s, Lineage(s), {"claim"}, p)
    BY <1>3, <1>5 DEF OnLine
  <2>3. s # <<>>
    BY <1>5 DEF Open, On
  <2>4. e.parent = s[Len(s)].id
    BY <1>3, <2>1, <2>3 DEF ValidNext, Leaf, Last
  <2>5. Lineage(s) \subseteq Lineage(z)
    BY <2>3, <2>4, LineageGrows
  <2>6. Lineage(s) \subseteq DOMAIN s
    BY LineageInside
  <2> HIDE DEF z
  <2> QED  BY <1>1, <2>2, <2>5, <2>6 DEF On
<1> QED  BY <1>2, <1>4, <1>5, OpenAppend

\* A transcript with a bad line does not read; the first line of an older one opens
\* nothing.
LEMMA BadReads ==
  ASSUME NEW s \in Seq(Line)
  PROVE  ~Reads(Append(s, Malformed))
<1>1. Malformed \in Line
  BY DEF Line
<1>2. Len(s) + 1 \in DOMAIN Append(s, Malformed) /\ Append(s, Malformed)[Len(s) + 1] = Malformed
  BY <1>1, AppendOf
<1> QED  BY <1>2 DEF Reads

LEMMA OlderOpens == \A p \in Pending : ~Open(<<Older>>, p)
  BY DEF Open, On, Older

LEMMA RewindWaitsStep ==
  ASSUME ~Overlap, ~Overlap', Core, Core', RewindWaits, ClaimsOnLine, Step
  PROVE  RewindWaits'
<1>1. SUFFICES ASSUME NEW t \in Thread, call'[t].op = "rewind", pc'[t] \in Before
               PROVE  tail' = "torn" \/ SolidBad' \/ \A p \in Pending : ~Open(lines', p)
  BY DEF RewindWaits, Open, On, PendingResolved
<1>2. \/ call'[t] = call[t] /\ pc[t] \in Before
      \/ BeginRewind(t)
  <2>1. Turn(t) /\ CallOk(t, pc[t], call[t], got[t])
    BY NextTurns DEF Core, CallAt
  <2> QED
    BY <1>1, <2>1, NoCallIs DEF Turn, Stays, Returns, Begins, Continues, CallOk, Before
<1>3. CASE BeginRewind(t)
  <2>1. Readable /\ ~UnresolvedClaim(lines, Lineage(lines)) /\ UNCHANGED lines
    BY <1>3 DEF BeginRewind, Begin, disk
  <2>2. Reads(lines)
    BY <2>1 DEF Readable, Reads
  <2>3. Lineage(lines) \subseteq DOMAIN lines
    BY LineageInside DEF Core, Types
  <2>4. ASSUME NEW p \in Pending, Open(lines, p) PROVE FALSE
    <3>1. On(lines, Lineage(lines), {"claim"}, p)
      BY <2>2, <2>4 DEF ClaimsOnLine, OnLine
    <3>2. ~PendingResolved(lines, Lineage(lines), p)
      BY <2>3, <2>4 DEF Open, PendingResolved, On
    <3> QED  BY <2>1, <3>1, <3>2 DEF UnresolvedClaim
  <2> QED  BY <2>1, <2>4
<1>4. CASE call'[t] = call[t] /\ pc[t] \in Before
  <2>t. lines \in Seq(Line) /\ (tail # "bare" => Solid = lines)
    BY SolidLines DEF Core, Types
  <2>1. LinesStep
    BY NextLines
  <2>2. tail = "torn" \/ SolidBad \/ \A p \in Pending : ~Open(lines, p)
    BY <1>1, <1>4 DEF RewindWaits
  <2>3. CASE Republished
    BY <2>3, OlderOpens DEF Republished
  <2>4. CASE UNCHANGED <<lines, tail>>
    BY <2>2, <2>4 DEF SolidBad, Solid
  <2>5. CASE SolidBad
    BY <2>1, <2>3, <2>5, SolidStep DEF SolidBad
  <2>6. ASSUME NEW u \in Thread, pc[u] = "write", pc'[u] \in {"mirror", "idle"}, Grows(Sealed(u, got[u])),
               ~SolidBad
        PROVE  tail' = "torn" \/ SolidBad' \/ \A p \in Pending : ~Open(lines', p)
    <3> DEFINE e == Sealed(u, got[u])
    <3>1. e \in Line /\ e.kind = call[u].op
      BY <2>6, SealedIsEvent DEF Line
    <3>2. e.kind # "claim"
      <4>1. SUFFICES ASSUME call[u].op = "claim" PROVE FALSE
        BY <3>1
      <4>2. u = t
        BY <1>1, <1>4, <2>6, <4>1, OneHolder DEF Before, Locked, Decision
      <4> QED  BY <1>1, <1>4, <4>1, <4>2
    <3> HIDE DEF e
    <3>3. CASE tail = "ended" /\ lines' = Append(lines, e)
      <4>1. \A p \in Pending : ~Open(lines, p)
        BY <2>2, <2>6, <3>3
      <4> QED  BY <2>t, <3>1, <3>2, <3>3, <4>1, OpenAppend
    <3>4. CASE lines' = Append(Solid, Malformed) /\ tail' = "ended"
      <4>1. Malformed \in Line /\ Solid \in Seq(Line)
        BY SolidLines DEF Line, Core
      <4>2. Len(Solid) + 1 \in DOMAIN lines' /\ lines'[Len(Solid) + 1] = Malformed
        BY <3>4, <4>1, AppendOf
      <4>3. Solid' = lines'
        BY <3>4 DEF Solid
      <4> QED  BY <4>2, <4>3 DEF SolidBad
    <3>5. CASE tail' = "torn"
      BY <3>5
    <3> QED  BY <2>6, <3>3, <3>4, <3>5 DEF Grows, e
  <2> QED  BY <2>1, <2>3, <2>4, <2>5, <2>6 DEF LinesStep
<1> QED  BY <1>2, <1>3, <1>4

LEMMA ClaimsOnLineStep ==
  ASSUME Core, Core', RewindWaits, ClaimsOnLine, Step
  PROVE  ClaimsOnLine'
<1>t. /\ lines \in Seq(Line) /\ Solid \in Seq(Line) /\ (tail # "bare" => Solid = lines)
  BY SolidLines DEF Core, Types
<1>n. /\ lines' \in Seq(Line) /\ (tail' # "bare" => Solid' = lines')
      /\ tail' = "bare" => Solid' = Front(lines') /\ lines' # <<>>
  BY DEF Core, Types, Solid
<1>o. OnLine(lines) /\ OnLine(Solid)
  BY DEF ClaimsOnLine
<1>s. SUFFICES OnLine(lines') /\ OnLine(Solid')
  BY DEF ClaimsOnLine, OnLine, Reads, Open, On, PendingResolved, ValidNext, Leaf
<1>1. CASE UNCHANGED <<lines, tail>>
  <2>1. Solid' = Solid
    BY <1>1 DEF Solid
  <2> QED  BY <1>1, <1>o, <2>1
<1>2. CASE Republished
  <2>1. lines' = <<Older>> /\ Solid' = lines'
    BY <1>2, <1>n DEF Republished
  <2> QED  BY <2>1, OlderOpens DEF OnLine
<1>3. ASSUME NEW t \in Thread, pc[t] = "write", NEW e, e = Sealed(t, got[t]), Grows(e)
      PROVE  OnLine(lines') /\ OnLine(Solid')
  <2>1. e \in Line /\ e.kind = call[t].op
    BY <1>3, SealedIsEvent DEF Line
  <2>2. CASE tail = "ended" /\ lines' = Append(lines, e) /\ tail' \in {"ended", "bare"}
    <3>1. ASSUME e.kind = "rewind", Reads(lines) PROVE \A p \in Pending : ~Open(lines, p)
      <4>1. ~SolidBad
        BY <1>t, <2>2, <3>1 DEF SolidBad, Reads
      <4> QED  BY <1>3, <2>1, <2>2, <3>1, <4>1 DEF RewindWaits, Before
    <3>2. OnLine(lines')
      BY <1>o, <1>t, <2>1, <2>2, <3>1, OnLineAppend
    <3>3. CASE tail' = "ended"
      BY <1>n, <3>2, <3>3
    <3>4. CASE tail' = "bare"
      <4>1. /\ Solid' \in Seq(Line) /\ Len(Solid') = Len(lines') - 1
            /\ \A i \in 1..(Len(lines') - 1) : Solid'[i] = lines'[i]
        BY <1>n, <3>4, FrontOf
      <4>2. /\ Len(lines') = Len(lines) + 1 /\ DOMAIN lines = 1..Len(lines) /\ Len(lines) \in Nat
            /\ \A i \in DOMAIN lines : lines'[i] = lines[i]
        BY <1>t, <2>1, <2>2, AppendOf
      <4>3. Solid' = lines
        BY <1>t, <4>1, <4>2, SeqEqual
      <4> QED  BY <1>o, <3>2, <4>3
    <3> QED  BY <2>2, <3>3, <3>4
  <2>3. CASE lines' = Append(Solid, Malformed) /\ tail' = "ended"
    <3>1. Solid' = lines'
      BY <1>n, <2>3
    <3> QED  BY <1>t, <2>3, <3>1, BadReads DEF OnLine
  <2>4. CASE lines' = Solid /\ tail' = "torn"
    <3>1. Solid' = lines'
      BY <1>n, <2>4
    <3> QED  BY <1>o, <2>4, <3>1
  <2> QED  BY <1>3, <2>2, <2>3, <2>4 DEF Grows
<1> QED  BY <1>1, <1>2, <1>3, NextLines DEF LinesStep

LEMMA SInvInit ==
  ASSUME Init
  PROVE  SInv
<1>1. /\ pc = [t \in Thread |-> "idle"] /\ call = [t \in Thread |-> NoCall]
      /\ applied = [p \in Pending |-> 0] /\ tail = "ended"
      /\ lines = (IF legacy THEN <<Older>> ELSE <<>>)
  BY DEF Init
<1>2. NoCall.op = "none"
  BY NoCallIs
<1>3. \A t \in Thread : call[t].op = "none"
  BY <1>1, <1>2
<1>4. \A p \in Pending : ~Spent(p) /\ applied[p] = 0 /\ \A t \in Thread : ~Claiming(t, p)
  BY <1>1, <1>3 DEF Spent, Claiming
<1>8. \A t \in Thread : ~Deciding(t)
  BY <1>3 DEF Deciding
<1>5. NotSpentYet /\ OneClaim /\ RewindWaits
  BY <1>3, <1>4 DEF NotSpentYet, OneClaim, RewindWaits
<1>6. \A p \in Pending : ~Open(lines, p)
  <2>1. CASE legacy
    BY <1>1, <2>1, OlderOpens
  <2>2. CASE ~legacy
    BY <1>1, <2>2 DEF Open, On
  <2> QED  BY <2>1, <2>2
<1>7. Solid = lines
  BY <1>1 DEF Solid
<1> QED  BY <1>5, <1>6, <1>7, <1>8 DEF SInv, Overlap, Apart, ClaimsOnLine, OnLine

LEMMA ApartStep ==
  ASSUME IInv, IInv', ~Overlap, ~Overlap', Apart, Step \/ UNCHANGED vars
  PROVE  Apart'
<1>1. Core /\ OverIsGone /\ Core'
  BY DEF IInv, Core
<1>2. CASE Step
  BY <1>1, <1>2, NotSpentYetStep, OneClaimStep, RewindWaitsStep, ClaimsOnLineStep DEF Apart
<1>3. CASE UNCHANGED vars
  <2>1. UNCHANGED <<lines, tail, pc, call, applied>>
    BY <1>3 DEF vars
  <2>2. Solid' = Solid
    BY <2>1 DEF Solid
  <2>3. NotSpentYet'
    BY <2>1 DEF Apart, NotSpentYet, Spent, Claiming, On
  <2>4. OneClaim'
    BY <2>1 DEF Apart, OneClaim, Claiming
  <2>5. RewindWaits'
    BY <2>1, <2>2 DEF Apart, RewindWaits, SolidBad, Open, On, PendingResolved
  <2>6. ClaimsOnLine'
    <3>1. OnLine(lines) /\ OnLine(Solid)
      BY DEF Apart, ClaimsOnLine
    <3>2. OnLine(lines') /\ OnLine(Solid')
      BY <2>1, <2>2, <3>1
    <3> QED  BY <3>2 DEF ClaimsOnLine, OnLine, Reads, Open, On, PendingResolved, ValidNext, Leaf
  <2> QED  BY <2>3, <2>4, <2>5, <2>6 DEF Apart
<1> QED  BY <1>2, <1>3

\* The history remembers: where nothing overlapped yet, nothing overlaps.
LEMMA SInvStep ==
  ASSUME IInv, IInv', SInv, [Next]_vars
  PROVE  SInv'
<1> SUFFICES ASSUME ~overlapped' PROVE ~Overlap' /\ Apart'
  BY DEF SInv
<1>1. CASE Next
  <2>1. ~overlapped /\ ~Overlap' /\ Step
    BY <1>1 DEF Next
  <2> QED  BY <2>1, ApartStep DEF SInv
<1>2. CASE UNCHANGED vars
  <2>1. ~overlapped /\ UNCHANGED <<call, lock>>
    BY <1>2 DEF vars
  <2>2. ~Overlap'
    BY <2>1 DEF SInv, Overlap, Deciding
  <2> QED  BY <1>2, <2>1, <2>2, ApartStep DEF SInv
<1> QED  BY <1>1, <1>2

LEMMA SInvAlways == Spec => []SInv
<1>1. Init => SInv
  BY SInvInit
<1>2. IInv /\ IInv' /\ SInv /\ [Next]_vars => SInv'
  BY SInvStep
<1> QED  BY <1>1, <1>2, IInvAlways, PTL DEF Spec

\* An action replaces its target at most once and never after its discard, whatever
\* failed or was killed and in however many processes, until two of them decide at once.
THEOREM SessionAppliedOnce == Spec => []AppliedOnce
<1>1. IInv /\ SInv => AppliedOnce
  BY DEF SInv, Apart, OneClaim, NotSpentYet, Spent, AppliedOnce
<1> QED  BY <1>1, IInvAlways, SInvAlways, PTL

\* Until then, an open claim of a transcript that reads is on its active lineage: no
\* rewind of any process leaves it behind, and its completion can be recorded.
THEOREM SessionClaimOnLineage == Spec => []ClaimOnLineage
<1>1. SInv => ClaimOnLineage
  BY DEF SInv, Apart, ClaimsOnLine, OnLine, ClaimOnLineage, Readable, Reads, Open
<1> QED  BY <1>1, SInvAlways, PTL
=============================================================================
