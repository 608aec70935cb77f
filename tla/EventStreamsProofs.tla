------------------------- MODULE EventStreamsProofs -------------------------
(***************************************************************************)
(* What the file manager learns through streams of events, for any volumes *)
(* and paths and any events: the volumes and the repair schedule.          *)
(*                                                                         *)
(* A batch of reports is applied by a loop: what the loop computes is      *)
(* shown by induction on the number of its turns, from the fact that a set *)
(* of numbers has a least one (LeastNat).                                  *)
(***************************************************************************)
EXTENDS VolumeEvents, RepairSchedule, FiniteSetTheorems, WellFoundedInduction,
        NaturalsInduction, SequenceTheorems, TLAPS

-----------------------------------------------------------------------------
(* Numbers *)

Smaller == {pair \in Nat \X Nat : pair[1] < pair[2]}

\* A set of numbers has a least one.
LEMMA LeastNat ==
  ASSUME NEW T, T \subseteq Nat, T # {}
  PROVE  \E n \in T : \A m \in T : n <= m
<1>1. IsWellFoundedOn(Smaller, Nat)
  BY NatLessThanWellFounded DEF Smaller, OpToRel
<1>2. PICK n \in T : \A m \in T : ~(<<m, n>> \in Smaller)
  BY <1>1, WFMin
<1>3. \A m \in T : n <= m
  <2> SUFFICES ASSUME NEW m \in T PROVE n <= m
    OBVIOUS
  <2>1. m \in Nat /\ n \in Nat /\ ~(m < n)
    BY <1>2 DEF Smaller
  <2>2. QED
    BY <2>1
<1>4. QED
  BY <1>3

\* A set of numbers up to some number has a greatest one.
LEMMA GreatestNat ==
  ASSUME NEW N \in Nat, NEW T, T \subseteq 0..N, T # {}
  PROVE  \E n \in T : \A m \in T : m <= n
<1> DEFINE U == {N - m : m \in T}
<1>1. \A m \in T : N - m \in Nat
  OBVIOUS
<1>0. U \subseteq Nat /\ U # {}
  BY <1>1
<1> HIDE DEF U
<1>2. PICK u \in U : \A k \in U : u <= k
  BY <1>0, LeastNat
<1>3. PICK n \in T : u = N - n
  BY DEF U
<1>4. \A m \in T : m <= n
  <2> SUFFICES ASSUME NEW m \in T PROVE m <= n
    OBVIOUS
  <2>1. N - m \in U
    BY DEF U
  <2>2. QED
    BY <2>1, <1>2, <1>3
<1>5. QED
  BY <1>4

-----------------------------------------------------------------------------
(* VolumeEventState *)

\* The list and its two indexes agree, whatever the state.
Agree(s) ==
  /\ s = [volumes |-> s.volumes, stable |-> s.stable, path |-> s.path]
  /\ s.volumes \in Seq(Descriptor)
  /\ DOMAIN s.stable = {s.volumes[i].id : i \in DOMAIN s.volumes}
  /\ \A i \in DOMAIN s.volumes : s.stable[s.volumes[i].id] = i
  /\ \A p \in DOMAIN s.path : s.path[p] \in DOMAIN s.volumes /\ s.volumes[s.path[p]].path = p

NoTwins(list) == \A i, j \in DOMAIN list : list[i].id = list[j].id => i = j

\* No volume is listed twice.
LEMMA AgreeFacts ==
  ASSUME NEW s, Agree(s)
  PROVE  /\ NoTwins(s.volumes)
         /\ \A v \in DOMAIN s.stable : s.stable[v] \in DOMAIN s.volumes /\ s.volumes[s.stable[v]].id = v
         /\ DOMAIN s.volumes = 1..Len(s.volumes) /\ Len(s.volumes) \in Nat
         /\ \A i \in DOMAIN s.volumes : s.volumes[i] \in Descriptor
BY DEF Agree, NoTwins

\* rebuild_indexes finds every volume.
LEMMA IndexedAgrees ==
  ASSUME NEW list \in Seq(Descriptor), NoTwins(list)
  PROVE  Agree(Indexed(list))
<1> DEFINE s == Indexed(list)
           LastOf(v, i) == list[i].id = v /\ \A j \in DOMAIN list : list[j].id = v => j <= i
           LastAt(p, i) == list[i].path = p /\ \A j \in DOMAIN list : list[j].path = p => j <= i
<1>1. DOMAIN list = 1..Len(list) /\ Len(list) \in Nat
  OBVIOUS
<1>2. /\ s.volumes = list
      /\ DOMAIN s.stable = {d.id : d \in Range(list)}
      /\ DOMAIN s.path = {d.path : d \in Range(list)}
      /\ \A v \in DOMAIN s.stable : s.stable[v] = CHOOSE i \in DOMAIN list : LastOf(v, i)
      /\ \A p \in DOMAIN s.path : s.path[p] = CHOOSE i \in DOMAIN list : LastAt(p, i)
      /\ s = [volumes |-> s.volumes, stable |-> s.stable, path |-> s.path]
  BY DEF Indexed
<1>3. {d.id : d \in Range(list)} = {list[i].id : i \in DOMAIN list}
      /\ {d.path : d \in Range(list)} = {list[i].path : i \in DOMAIN list}
  BY DEF Range
<1>4. \A i \in DOMAIN list : s.stable[list[i].id] = i
  <2> SUFFICES ASSUME NEW i \in DOMAIN list PROVE s.stable[list[i].id] = i
    OBVIOUS
  <2>1. LastOf(list[i].id, i)
    BY <1>1 DEF NoTwins
  <2>2. \A j \in DOMAIN list : LastOf(list[i].id, j) => j = i
    BY DEF NoTwins
  <2>3. list[i].id \in DOMAIN s.stable
    BY <1>2, <1>3
  <2> HIDE DEF LastOf
  <2>4. (CHOOSE j \in DOMAIN list : LastOf(list[i].id, j)) = i
    BY <2>1, <2>2
  <2>5. QED
    BY <2>3, <2>4, <1>2
<1>5. \A p \in DOMAIN s.path : s.path[p] \in DOMAIN list /\ list[s.path[p]].path = p
  <2> SUFFICES ASSUME NEW p \in DOMAIN s.path
               PROVE  s.path[p] \in DOMAIN list /\ list[s.path[p]].path = p
    OBVIOUS
  <2> DEFINE T == {i \in DOMAIN list : list[i].path = p}
  <2>0. PICK i \in DOMAIN list : list[i].path = p
    <3>1. DOMAIN s.path = {list[i].path : i \in DOMAIN list}
      BY <1>2, <1>3
    <3> HIDE DEF s
    <3>2. QED
      BY <3>1
  <2>1. T # {} /\ T \subseteq 0..Len(list)
    BY <2>0, <1>1
  <2>2. PICK n \in T : \A m \in T : m <= n
    BY <2>1, <1>1, GreatestNat
  <2>3. n \in DOMAIN list /\ LastAt(p, n)
    BY <2>2
  <2> HIDE DEF LastAt
  <2>4. s.path[p] \in DOMAIN list /\ LastAt(p, s.path[p])
    BY <2>3, <1>2
  <2>5. QED
    BY <2>4 DEF LastAt
<1> HIDE DEF s
<1>6. DOMAIN s.stable = {s.volumes[i].id : i \in DOMAIN s.volumes}
  BY <1>2, <1>3
<1>7. QED
  BY <1>2, <1>4, <1>5, <1>6 DEF Agree, s

\* What is left of a list when one place is taken out.
LEMMA RemoveAtPlace ==
  ASSUME NEW list \in Seq(Descriptor), NEW k \in 1..Len(list)
  PROVE  /\ RemoveAt(list, k) \in Seq(Descriptor)
         /\ DOMAIN RemoveAt(list, k) = 1..(Len(list) - 1)
         /\ \A i \in DOMAIN RemoveAt(list, k) :
                RemoveAt(list, k)[i] = list[IF i < k THEN i ELSE i + 1]
<1> DEFINE left == SubSeq(list, 1, k - 1)
           right == SubSeq(list, k + 1, Len(list))
           rest == RemoveAt(list, k)
<1>1. list \in Seq(Descriptor) /\ k \in 1..Len(list) /\ Len(list) \in Nat
  OBVIOUS
<1>2. /\ left \in Seq(Descriptor) /\ Len(left) = k - 1
      /\ \A i \in 1..k - 1 : left[i] = list[i]
  BY <1>1
<1>3. /\ right \in Seq(Descriptor) /\ Len(right) = Len(list) - k
      /\ \A i \in 1..(Len(list) - k) : right[i] = list[i + k]
  BY <1>1
<1>4. rest = left \o right
  BY DEF RemoveAt
<1> HIDE DEF left, right, rest
<1>5. rest \in Seq(Descriptor) /\ DOMAIN rest = 1..(Len(list) - 1)
  BY <1>1, <1>2, <1>3, <1>4
<1>6. \A i \in DOMAIN rest : rest[i] = list[IF i < k THEN i ELSE i + 1]
  <2> SUFFICES ASSUME NEW i \in DOMAIN rest PROVE rest[i] = list[IF i < k THEN i ELSE i + 1]
    OBVIOUS
  <2>1. CASE i < k
    BY <2>1, <1>1, <1>2, <1>3, <1>4, <1>5
  <2>2. CASE ~(i < k)
    <3>1. rest[i] = right[i - (k - 1)]
      BY <2>2, <1>1, <1>2, <1>3, <1>4, <1>5
    <3>2. i - (k - 1) \in 1..(Len(list) - k) /\ i - (k - 1) + k = i + 1
      BY <2>2, <1>1, <1>5
    <3>3. QED
      BY <2>2, <3>1, <3>2, <1>3
  <2>3. QED
    BY <2>1, <2>2
<1>7. QED
  BY <1>5, <1>6 DEF rest

\* A volume is taken out of the list.
LEMMA RemovedAgrees ==
  ASSUME NEW s, Agree(s), NEW v \in DOMAIN s.stable
  PROVE  Agree(remove_by_stable_identity(s, v))
<1> DEFINE list == s.volumes
           k == s.stable[v]
           rest == RemoveAt(list, k)
<1>1. list \in Seq(Descriptor) /\ k \in 1..Len(list) /\ NoTwins(list) /\ Len(list) \in Nat
  BY AgreeFacts DEF Agree
<1> HIDE DEF list, k
<1>5. rest \in Seq(Descriptor) /\ DOMAIN rest = 1..(Len(list) - 1)
  BY <1>1, RemoveAtPlace
<1>6. \A i \in DOMAIN rest : rest[i] = list[IF i < k THEN i ELSE i + 1]
  BY <1>1, RemoveAtPlace
<1> HIDE DEF rest
<1>7. NoTwins(rest)
  <2> SUFFICES ASSUME NEW i \in DOMAIN rest, NEW j \in DOMAIN rest, rest[i].id = rest[j].id
               PROVE  i = j
    BY DEF NoTwins
  <2> DEFINE a == IF i < k THEN i ELSE i + 1
             b == IF j < k THEN j ELSE j + 1
  <2>1. a \in DOMAIN list /\ b \in DOMAIN list
    BY <1>1, <1>5
  <2>2. rest[i] = list[a] /\ rest[j] = list[b]
    BY <1>6
  <2>3. a = b
    BY <2>1, <2>2, <1>1 DEF NoTwins
  <2>4. QED
    BY <2>3, <1>1, <1>5
<1>8. remove_by_stable_identity(s, v) = Indexed(rest)
  BY DEF remove_by_stable_identity, rest, list, k
<1>9. QED
  BY <1>5, <1>7, <1>8, IndexedAgrees

\* A volume is inserted, moved, or put in the place of another one.
LEMMA UpsertAgrees ==
  ASSUME NEW s, Agree(s), NEW d \in Descriptor
  PROVE  Agree(upsert(s, d))
<1> DEFINE list == s.volumes
           n == Len(list)
           u == upsert(s, d)
<1>1. /\ list \in Seq(Descriptor) /\ n \in Nat /\ DOMAIN list = 1..n
      /\ DOMAIN s.stable = {list[i].id : i \in DOMAIN list}
      /\ \A i \in DOMAIN list : s.stable[list[i].id] = i
      /\ \A p \in DOMAIN s.path : s.path[p] \in DOMAIN list /\ list[s.path[p]].path = p
      /\ s = [volumes |-> s.volumes, stable |-> s.stable, path |-> s.path]
  BY DEF Agree
<1>2. NoTwins(list) /\ \A v \in DOMAIN s.stable : s.stable[v] \in DOMAIN list /\ list[s.stable[v]].id = v
  BY AgreeFacts
<1>3. ASSUME NEW i \in DOMAIN list, NEW stable, NEW path,
             u = [volumes |-> [list EXCEPT ![i] = d], stable |-> stable, path |-> path],
             DOMAIN stable = (DOMAIN s.stable \ {list[i].id}) \cup {d.id},
             d.id = list[i].id \/ d.id \notin DOMAIN s.stable,
             stable[d.id] = i,
             \A v \in DOMAIN s.stable : v # d.id /\ v # list[i].id => stable[v] = s.stable[v],
             \A p \in DOMAIN path : \/ p = d.path /\ path[p] = i
                                    \/ p \in DOMAIN s.path /\ path[p] = s.path[p] /\ path[p] # i
      PROVE  Agree(u)
  <2> DEFINE l == [list EXCEPT ![i] = d]
  <2>1. /\ l \in Seq(Descriptor) /\ DOMAIN l = DOMAIN list
        /\ l[i] = d /\ \A j \in DOMAIN list : j # i => l[j] = list[j]
    BY <1>1, <1>3
  <2>2. u.volumes = l /\ u.stable = stable /\ u.path = path
        /\ u = [volumes |-> u.volumes, stable |-> u.stable, path |-> u.path]
    BY <1>3
  <2> HIDE DEF l, u
  <2>3. DOMAIN stable = {l[j].id : j \in DOMAIN l}
    <3>1. ASSUME NEW v \in DOMAIN stable PROVE \E j \in DOMAIN l : l[j].id = v
      <4>1. CASE v = d.id
        BY <4>1, <2>1
      <4>2. CASE v # d.id
        <5>1. v \in DOMAIN s.stable /\ v # list[i].id
          BY <4>2, <1>3, <3>1
        <5>2. s.stable[v] \in DOMAIN list /\ list[s.stable[v]].id = v
          BY <5>1, <1>2
        <5>3. QED
          BY <5>1, <5>2, <2>1
      <4>3. QED
        BY <4>1, <4>2
    <3>2. ASSUME NEW j \in DOMAIN l PROVE l[j].id \in DOMAIN stable
      <4>1. CASE j = i
        BY <4>1, <2>1, <1>3
      <4>2. CASE j # i
        <5>1. l[j] = list[j] /\ j \in DOMAIN list
          BY <4>2, <2>1, <3>2
        <5>2. list[j].id \in DOMAIN s.stable /\ list[j].id # list[i].id
          BY <4>2, <5>1, <1>1, <1>2 DEF NoTwins
        <5>3. QED
          BY <5>1, <5>2, <1>3
      <4>3. QED
        BY <4>1, <4>2
    <3>3. QED
      BY <3>1, <3>2
  <2>4. ASSUME NEW j \in DOMAIN l PROVE stable[l[j].id] = j
    <3>1. CASE j = i
      BY <3>1, <2>1, <1>3
    <3>2. CASE j # i
      <4>1. l[j] = list[j] /\ j \in DOMAIN list
        BY <3>2, <2>1, <2>4
      <4>2. list[j].id \in DOMAIN s.stable /\ list[j].id # list[i].id
        BY <3>2, <4>1, <1>1, <1>2 DEF NoTwins
      <4>3. QED
        BY <4>1, <4>2, <1>1, <1>3
    <3>3. QED
      BY <3>1, <3>2
  <2>5. ASSUME NEW p \in DOMAIN path PROVE path[p] \in DOMAIN l /\ l[path[p]].path = p
    <3>1. CASE p = d.path /\ path[p] = i
      BY <3>1, <2>1
    <3>2. CASE p \in DOMAIN s.path /\ path[p] = s.path[p] /\ path[p] # i
      BY <3>2, <1>1, <2>1
    <3>3. QED
      BY <3>1, <3>2, <1>3, <2>5
  <2>6. QED
    BY <2>1, <2>2, <2>3, <2>4, <2>5 DEF Agree
<1>4. CASE d.id \in DOMAIN s.stable
  <2> DEFINE i == s.stable[d.id]
             old == list[i].path
             path == IF old = d.path THEN s.path ELSE With(Without(s.path, old), d.path, i)
  <2>1. i \in DOMAIN list /\ list[i].id = d.id
    BY <1>2, <1>4
  <2>2. u = [s EXCEPT !.volumes = [list EXCEPT ![i] = d], !.path = path]
    BY <1>4 DEF upsert
  <2>3. \A p \in DOMAIN path : \/ p = d.path /\ path[p] = i
                               \/ p \in DOMAIN s.path /\ path[p] = s.path[p] /\ path[p] # i
    <3>1. \A p \in DOMAIN s.path : s.path[p] = i => p = old
      BY <1>1
    <3>2. CASE old = d.path
      BY <3>1, <3>2
    <3>3. CASE old # d.path
      BY <3>1, <3>3 DEF With, Without, Restrict
    <3>4. QED
      BY <3>2, <3>3
  <2> HIDE DEF path
  <2>4. u = [volumes |-> [list EXCEPT ![i] = d], stable |-> s.stable, path |-> path]
    BY <2>2, <1>1
  <2>5. DOMAIN s.stable = (DOMAIN s.stable \ {list[i].id}) \cup {d.id}
    BY <2>1, <1>4
  <2> HIDE DEF i, u
  <2>6. s.stable[d.id] = i
    BY DEF i
  <2>7. QED
    BY <2>1, <2>3, <2>4, <2>5, <2>6, <1>3 DEF u
<1>5. CASE d.id \notin DOMAIN s.stable /\ d.path \in DOMAIN s.path
  <2> DEFINE i == s.path[d.path]
             stable == With(Without(s.stable, list[i].id), d.id, i)
  <2>1. i \in DOMAIN list /\ list[i].path = d.path
    BY <1>1, <1>5
  <2>2. u = [s EXCEPT !.volumes = [list EXCEPT ![i] = d], !.stable = stable]
    BY <1>5 DEF upsert
  <2>3. /\ DOMAIN stable = (DOMAIN s.stable \ {list[i].id}) \cup {d.id}
        /\ stable[d.id] = i
        /\ \A v \in DOMAIN s.stable : v # d.id /\ v # list[i].id => stable[v] = s.stable[v]
    BY DEF With, Without, Restrict
  <2>4. \A p \in DOMAIN s.path : \/ p = d.path /\ s.path[p] = i
                                 \/ p \in DOMAIN s.path /\ s.path[p] = s.path[p] /\ s.path[p] # i
    BY <2>1, <1>1
  <2> HIDE DEF stable
  <2>5. u = [volumes |-> [list EXCEPT ![i] = d], stable |-> stable, path |-> s.path]
    BY <2>2, <1>1
  <2> HIDE DEF i, u
  <2>6. QED
    BY <2>1, <2>3, <2>4, <2>5, <1>3, <1>5 DEF u
<1>6. CASE d.id \notin DOMAIN s.stable /\ d.path \notin DOMAIN s.path
  <2> DEFINE l == Append(list, d)
             stable == With(s.stable, d.id, n + 1)
             path == With(s.path, d.path, n + 1)
  <2>1. u = [volumes |-> l, stable |-> stable, path |-> path]
    BY <1>6 DEF upsert
  <2>2. /\ l \in Seq(Descriptor) /\ DOMAIN l = 1..(n + 1)
        /\ l[n + 1] = d /\ \A j \in 1..n : l[j] = list[j]
    BY <1>1
  <2>3. /\ DOMAIN stable = DOMAIN s.stable \cup {d.id}
        /\ stable[d.id] = n + 1
        /\ \A v \in DOMAIN s.stable : stable[v] = s.stable[v]
        /\ DOMAIN path = DOMAIN s.path \cup {d.path}
        /\ path[d.path] = n + 1
        /\ \A p \in DOMAIN s.path : path[p] = s.path[p]
    BY <1>6 DEF With
  <2>4. u.volumes = l /\ u.stable = stable /\ u.path = path
        /\ u = [volumes |-> u.volumes, stable |-> u.stable, path |-> u.path]
    BY <2>1
  <2> HIDE DEF l, stable, path, u
  <2>5. DOMAIN stable = {l[j].id : j \in DOMAIN l}
    <3>1. ASSUME NEW v \in DOMAIN stable PROVE \E j \in DOMAIN l : l[j].id = v
      <4>1. CASE v = d.id
        BY <4>1, <2>2, <1>1
      <4>2. CASE v # d.id
        <5>1. s.stable[v] \in 1..n /\ list[s.stable[v]].id = v
          BY <4>2, <3>1, <2>3, <1>1, <1>2
        <5>2. QED
          BY <5>1, <2>2, <1>1
      <4>3. QED
        BY <4>1, <4>2
    <3>2. ASSUME NEW j \in DOMAIN l PROVE l[j].id \in DOMAIN stable
      <4>1. CASE j = n + 1
        BY <4>1, <2>2, <2>3
      <4>2. CASE j # n + 1
        <5>1. j \in 1..n /\ l[j] = list[j]
          BY <4>2, <3>2, <2>2, <1>1
        <5>2. QED
          BY <5>1, <2>3, <1>1
      <4>3. QED
        BY <4>1, <4>2
    <3>3. QED
      BY <3>1, <3>2
  <2>6. \A j \in DOMAIN l : stable[l[j].id] = j
    <3> SUFFICES ASSUME NEW j \in DOMAIN l PROVE stable[l[j].id] = j
      OBVIOUS
    <3>1. CASE j = n + 1
      BY <3>1, <2>2, <2>3
    <3>2. CASE j # n + 1
      <4>1. j \in 1..n /\ l[j] = list[j]
        BY <3>2, <2>2, <1>1
      <4>2. list[j].id \in DOMAIN s.stable /\ s.stable[list[j].id] = j
        BY <4>1, <1>1
      <4>3. QED
        BY <4>1, <4>2, <2>3
    <3>3. QED
      BY <3>1, <3>2
  <2>7. \A p \in DOMAIN path : path[p] \in DOMAIN l /\ l[path[p]].path = p
    BY <2>2, <2>3, <1>1
  <2>8. QED
    BY <2>2, <2>4, <2>5, <2>6, <2>7 DEF Agree, u
<1>7. QED
  BY <1>4, <1>5, <1>6

\* One event is applied.
LEMMA ApplyAgrees ==
  ASSUME mounted \in [Volumes -> MountPaths \cup {NoPath}], NEW s, Agree(s), NEW e
  PROVE  Agree(apply_parts_transition(s, e))
<1> DEFINE current == Resolved(e)
           previous == matching_previous(s, e, current)
<1>1. current = NoVolume \/ current \in Descriptor
  <2>1. Mounted \subseteq Descriptor
    BY DEF Mounted, Descriptor
  <2>2. QED
    BY <2>1 DEF Resolved
<1>2. previous = NoVolume \/ previous.id \in DOMAIN s.stable
  <2>1. \A i \in DOMAIN s.volumes : s.volumes[i].id \in DOMAIN s.stable
    BY DEF Agree
  <2>2. \A v \in DOMAIN s.stable : s.stable[v] \in DOMAIN s.volumes
    BY AgreeFacts
  <2>3. \A p \in DOMAIN s.path : s.path[p] \in DOMAIN s.volumes
    BY DEF Agree
  <2>4. QED
    BY <2>1, <2>2, <2>3 DEF matching_previous
<1>3. \/ apply_parts_transition(s, e) = s
      \/ /\ previous # NoVolume
         /\ apply_parts_transition(s, e) = remove_by_stable_identity(s, previous.id)
      \/ /\ current # NoVolume
         /\ apply_parts_transition(s, e) = upsert(s, current)
  BY DEF apply_parts_transition
<1> HIDE DEF current, previous
<1>4. QED
  BY <1>1, <1>2, <1>3, RemovedAgrees, UpsertAgrees

-----------------------------------------------------------------------------
(* The loops *)

\* The turns of the loop that coalesces, the first n of them.
JoinedUpTo(f, events, n) ==
  f = [i \in 0..n |-> IF i = 0 THEN [kept |-> <<>>, key |-> <<>>, gone |-> <<>>]
                      ELSE CoalesceOne(f[i - 1], events[i])]

\* However many turns it takes, the loop takes them.
LEMMA JoinedExists ==
  ASSUME NEW events, NEW N \in Nat
  PROVE  \E f : JoinedUpTo(f, events, N)
<1> DEFINE T == {m \in Nat : ~\E f : JoinedUpTo(f, events, m)}
<1> SUFFICES ASSUME T # {} PROVE FALSE
  OBVIOUS
<1>1. PICK m \in T : \A k \in T : m <= k
  <2>1. T \subseteq Nat
    OBVIOUS
  <2> HIDE DEF T
  <2>2. QED
    BY <2>1, LeastNat
<1>2. CASE m = 0
  <2>1. JoinedUpTo([i \in 0..0 |-> [kept |-> <<>>, key |-> <<>>, gone |-> <<>>]], events, 0)
    BY DEF JoinedUpTo
  <2>2. QED
    BY <2>1, <1>1, <1>2
<1>3. CASE m # 0
  <2>1. m - 1 \in Nat /\ m - 1 \notin T
    BY <1>1, <1>3
  <2>2. PICK f : JoinedUpTo(f, events, m - 1)
    BY <2>1
  <2> DEFINE g == [i \in 0..m |-> IF i < m THEN f[i] ELSE CoalesceOne(f[m - 1], events[m])]
  <2>3. \A i \in 0..m : g[i] = IF i = 0 THEN [kept |-> <<>>, key |-> <<>>, gone |-> <<>>]
                               ELSE CoalesceOne(g[i - 1], events[i])
    BY <2>1, <2>2, <1>3 DEF JoinedUpTo
  <2>4. JoinedUpTo(g, events, m)
    BY <2>3 DEF JoinedUpTo
  <2>5. QED
    BY <2>4, <1>1
<1>4. QED
  BY <1>2, <1>3

\* The recursive definition is that loop.
LEMMA JoinedTurns ==
  ASSUME NEW events, Len(events) \in Nat
  PROVE  JoinedUpTo(Joined(events), events, Len(events))
<1> DEFINE f == Joined(events)
           N == Len(events)
           Turns(h) == h = [i \in 0..N |-> IF i = 0 THEN [kept |-> <<>>, key |-> <<>>, gone |-> <<>>]
                                           ELSE CoalesceOne(h[i - 1], events[i])]
<1>1. f = CHOOSE h : Turns(h)
  BY DEF Joined
<1>2. PICK h : JoinedUpTo(h, events, N)
  BY JoinedExists
<1>3. Turns(h)
  BY <1>2 DEF JoinedUpTo
<1> HIDE DEF Turns, f
<1>4. Turns(f)
  BY <1>1, <1>3
<1>5. QED
  BY <1>4 DEF Turns, JoinedUpTo, f

\* A batch of reports, with the place of each volume's last one.
BatchOK(c) ==
  /\ c = [kept |-> c.kept, key |-> c.key, gone |-> c.gone]
  /\ c.kept \in Seq(Report \cup {Unavailable})
  /\ \A k \in DOMAIN c.key : c.key[k] \in DOMAIN c.kept
  /\ \A k \in DOMAIN c.gone : c.gone[k] \in DOMAIN c.kept

\* A report joins a batch.
LEMMA CoalesceOneOK ==
  ASSUME NEW c, BatchOK(c), NEW e \in Report \cup {Unavailable}
  PROVE  BatchOK(CoalesceOne(c, e))
<1> DEFINE k == CoalescingKey(e)
           AnyReport == Report \cup {Unavailable}
           n == Len(c.kept)
           more == Append(c.kept, e)
<1>1. c.kept \in Seq(AnyReport) /\ n \in Nat /\ DOMAIN c.kept = 1..n
  BY DEF BatchOK
<1>2. ASSUME NEW i \in DOMAIN c.kept
      PROVE  [c.kept EXCEPT ![i] = e] \in Seq(AnyReport) /\ DOMAIN [c.kept EXCEPT ![i] = e] = DOMAIN c.kept
  BY <1>1
<1>3. more \in Seq(AnyReport) /\ DOMAIN more = 1..(n + 1)
  BY <1>1
<1>4. /\ c = [kept |-> c.kept, key |-> c.key, gone |-> c.gone]
      /\ \A x \in DOMAIN c.key : c.key[x] \in 1..n
      /\ \A x \in DOMAIN c.gone : c.gone[x] \in 1..n
  BY <1>1 DEF BatchOK
<1>5. ASSUME NEW kept, NEW key, NEW gone, NEW m \in Nat,
             CoalesceOne(c, e) = [kept |-> kept, key |-> key, gone |-> gone],
             kept \in Seq(AnyReport), DOMAIN kept = 1..m,
             \A x \in DOMAIN key : key[x] \in 1..m, \A x \in DOMAIN gone : gone[x] \in 1..m
      PROVE  BatchOK(CoalesceOne(c, e))
  BY <1>5 DEF BatchOK
<1> HIDE DEF more, AnyReport, n
<1>6. CASE e.kind = "Disappeared" /\ k \in DOMAIN c.key
  <2>1. CoalesceOne(c, e) = [kept |-> [c.kept EXCEPT ![c.key[k]] = e],
                             key |-> Without(c.key, k), gone |-> With(c.gone, k, c.key[k])]
    BY <1>6 DEF CoalesceOne
  <2>2. /\ \A x \in DOMAIN Without(c.key, k) : Without(c.key, k)[x] \in 1..n
        /\ \A x \in DOMAIN With(c.gone, k, c.key[k]) : With(c.gone, k, c.key[k])[x] \in 1..n
    BY <1>4, <1>6 DEF With, Without, Restrict
  <2>3. QED
    BY <2>1, <2>2, <1>1, <1>2, <1>4, <1>5, <1>6
<1>7. CASE e.kind = "Disappeared" /\ k \notin DOMAIN c.key /\ k \in DOMAIN c.gone
  <2>1. CoalesceOne(c, e) = [c EXCEPT !.kept = [c.kept EXCEPT ![c.gone[k]] = e]]
    BY <1>7 DEF CoalesceOne
  <2>2. CoalesceOne(c, e) = [kept |-> [c.kept EXCEPT ![c.gone[k]] = e], key |-> c.key, gone |-> c.gone]
    BY <2>1, <1>4
  <2>3. QED
    BY <2>2, <1>1, <1>2, <1>4, <1>5, <1>7
<1>8. CASE e.kind = "Disappeared" /\ k \notin DOMAIN c.key \cup DOMAIN c.gone
  <2>1. CoalesceOne(c, e) = [kept |-> more, key |-> c.key, gone |-> With(c.gone, k, n + 1)]
    BY <1>8 DEF CoalesceOne, more, n
  <2>2. /\ \A x \in DOMAIN c.key : c.key[x] \in 1..(n + 1)
        /\ \A x \in DOMAIN With(c.gone, k, n + 1) : With(c.gone, k, n + 1)[x] \in 1..(n + 1)
    BY <1>1, <1>4 DEF With
  <2>3. QED
    BY <2>1, <2>2, <1>1, <1>3, <1>5
<1>9. CASE e.kind # "Disappeared" /\ k \in DOMAIN c.key
  <2>1. CoalesceOne(c, e) = [c EXCEPT !.kept = [c.kept EXCEPT ![c.key[k]] = e]]
    BY <1>9 DEF CoalesceOne
  <2>2. CoalesceOne(c, e) = [kept |-> [c.kept EXCEPT ![c.key[k]] = e], key |-> c.key, gone |-> c.gone]
    BY <2>1, <1>4
  <2>3. QED
    BY <2>2, <1>1, <1>2, <1>4, <1>5, <1>9
<1>10. CASE e.kind # "Disappeared" /\ k \notin DOMAIN c.key
  <2>1. CoalesceOne(c, e) = [kept |-> more, key |-> With(c.key, k, n + 1), gone |-> Without(c.gone, k)]
    BY <1>10 DEF CoalesceOne, more, n
  <2>2. /\ \A x \in DOMAIN With(c.key, k, n + 1) : With(c.key, k, n + 1)[x] \in 1..(n + 1)
        /\ \A x \in DOMAIN Without(c.gone, k) : Without(c.gone, k)[x] \in 1..(n + 1)
    BY <1>1, <1>4 DEF With, Without, Restrict
  <2>3. QED
    BY <2>1, <2>2, <1>1, <1>3, <1>5
<1>11. QED
  BY <1>6, <1>7, <1>8, <1>9, <1>10

\* What is left of a batch of reports is a batch of reports.
LEMMA CoalescedTypes ==
  ASSUME NEW events \in Seq(Report \cup {Unavailable})
  PROVE  Coalesced(events) \in Seq(Report \cup {Unavailable})
<1> DEFINE f == Joined(events)
           N == Len(events)
<1>1. N \in Nat
  OBVIOUS
<1>2. JoinedUpTo(f, events, N)
  BY <1>1, JoinedTurns
<1> HIDE DEF f
<1>3. \A n \in 0..N : BatchOK(f[n])
  <2> DEFINE T == {m \in 0..N : ~BatchOK(f[m])}
  <2> SUFFICES ASSUME T # {} PROVE FALSE
    OBVIOUS
  <2>1. PICK m \in T : \A k \in T : m <= k
    <3>1. T \subseteq Nat
      BY <1>1
    <3> HIDE DEF T
    <3>2. QED
      BY <3>1, LeastNat
  <2>2. m \in 0..N /\ ~BatchOK(f[m])
    OBVIOUS
  <2>3. CASE m = 0
    <3>1. f[0] = [kept |-> <<>>, key |-> <<>>, gone |-> <<>>]
      BY <1>1, <1>2 DEF JoinedUpTo
    <3>2. DOMAIN <<>> = {}
      OBVIOUS
    <3>3. BatchOK(f[0])
      BY <3>1, <3>2 DEF BatchOK
    <3>4. QED
      BY <2>2, <2>3, <3>3
  <2>4. CASE m # 0
    <3>1. m - 1 \in 0..N /\ m - 1 \notin T /\ m \in 1..N
      BY <2>1, <2>2, <2>4, <1>1
    <3>2. BatchOK(f[m - 1])
      BY <3>1
    <3>3. f[m] = CoalesceOne(f[m - 1], events[m])
      BY <3>1, <2>4, <1>1, <1>2 DEF JoinedUpTo
    <3>4. events[m] \in Report \cup {Unavailable}
      BY <3>1
    <3>5. BatchOK(f[m])
      BY <3>2, <3>3, <3>4, CoalesceOneOK
    <3>6. QED
      BY <2>2, <3>5
  <2>5. QED
    BY <2>3, <2>4
<1>4. BatchOK(f[N])
  BY <1>1, <1>3
<1>5. Coalesced(events) = f[N].kept
  BY DEF Coalesced, f
<1>6. QED
  BY <1>4, <1>5 DEF BatchOK

\* The turns of the loop that applies the events to a copy of the state.
StagedUpTo(f, events, n) ==
  f = [i \in 0..n |-> IF i = 0 THEN state ELSE apply_parts_transition(f[i - 1], events[i])]

\* However many turns it takes, the loop takes them.
LEMMA StagedExists ==
  ASSUME NEW events, NEW N \in Nat
  PROVE  \E f : StagedUpTo(f, events, N)
<1> DEFINE T == {m \in Nat : ~\E f : StagedUpTo(f, events, m)}
<1> SUFFICES ASSUME T # {} PROVE FALSE
  OBVIOUS
<1>1. PICK m \in T : \A k \in T : m <= k
  <2>1. T \subseteq Nat
    OBVIOUS
  <2> HIDE DEF T
  <2>2. QED
    BY <2>1, LeastNat
<1>2. CASE m = 0
  <2>1. StagedUpTo([i \in 0..0 |-> state], events, 0)
    BY DEF StagedUpTo
  <2>2. QED
    BY <2>1, <1>1, <1>2
<1>3. CASE m # 0
  <2>1. m - 1 \in Nat /\ m - 1 \notin T
    BY <1>1, <1>3
  <2>2. PICK f : StagedUpTo(f, events, m - 1)
    BY <2>1
  <2> DEFINE g == [i \in 0..m |-> IF i < m THEN f[i] ELSE apply_parts_transition(f[m - 1], events[m])]
  <2>3. \A i \in 0..m : g[i] = IF i = 0 THEN state ELSE apply_parts_transition(g[i - 1], events[i])
    BY <2>1, <2>2, <1>3 DEF StagedUpTo
  <2>4. StagedUpTo(g, events, m)
    BY <2>3 DEF StagedUpTo
  <2>5. QED
    BY <2>4, <1>1
<1>4. QED
  BY <1>2, <1>3

\* The recursive definition is that loop.
LEMMA StagedTurns ==
  ASSUME NEW events, Len(events) \in Nat
  PROVE  StagedUpTo(Staged(events), events, Len(events))
<1> DEFINE f == Staged(events)
           N == Len(events)
           Turns(h) == h = [i \in 0..N |-> IF i = 0 THEN state
                                           ELSE apply_parts_transition(h[i - 1], events[i])]
<1>1. f = CHOOSE h : Turns(h)
  BY DEF Staged
<1>2. PICK h : StagedUpTo(h, events, N)
  BY StagedExists
<1>3. Turns(h)
  BY <1>2 DEF StagedUpTo
<1> HIDE DEF Turns, f
<1>4. Turns(f)
  BY <1>1, <1>3
<1>5. QED
  BY <1>4 DEF Turns, StagedUpTo, f

\* Every turn leaves the list and its indexes in agreement.
LEMMA StagedAgrees ==
  ASSUME mounted \in [Volumes -> MountPaths \cup {NoPath}], Agree(state),
         NEW events, Len(events) \in Nat
  PROVE  Agree(Staged(events)[Len(events)])
<1> DEFINE f == Staged(events)
           N == Len(events)
<1>1. StagedUpTo(f, events, N)
  BY StagedTurns
<1> HIDE DEF f
<1>2. \A n \in 0..N : Agree(f[n])
  <2> DEFINE T == {m \in 0..N : ~Agree(f[m])}
  <2> SUFFICES ASSUME T # {} PROVE FALSE
    OBVIOUS
  <2>1. PICK m \in T : \A k \in T : m <= k
    <3>1. T \subseteq Nat
      OBVIOUS
    <3> HIDE DEF T
    <3>2. QED
      BY <3>1, LeastNat
  <2>2. m \in 0..N /\ ~Agree(f[m])
    OBVIOUS
  <2>3. CASE m = 0
    <3>1. f[0] = state
      BY <1>1 DEF StagedUpTo
    <3>2. QED
      BY <2>2, <2>3, <3>1
  <2>4. CASE m # 0
    <3>1. m - 1 \in 0..N /\ m - 1 \notin T
      BY <2>1, <2>2, <2>4
    <3>2. Agree(f[m - 1])
      BY <3>1
    <3>3. f[m] = apply_parts_transition(f[m - 1], events[m])
      BY <2>2, <2>4, <1>1 DEF StagedUpTo
    <3>4. Agree(f[m])
      BY <3>2, <3>3, ApplyAgrees
    <3>5. QED
      BY <2>2, <3>4
  <2>5. QED
    BY <2>3, <2>4
<1>3. QED
  BY <1>2 DEF f

-----------------------------------------------------------------------------
(* The volumes *)

\* No two volumes are mounted at one path.
MountedApart == \A v, w \in Volumes : mounted[v] = mounted[w] /\ v # w => mounted[v] = NoPath

VolumesInv ==
  /\ mounted \in [Volumes -> MountPaths \cup {NoPath}] /\ MountedApart
  /\ reports \in Seq(Report \cup {Unavailable})
  /\ Agree(state)
  /\ changes \in 0..MaxChanges /\ calm \in BOOLEAN

\* The volumes that are discovered are listed once.
LEMMA DiscoveredOnce ==
  ASSUME VolumesInit
  PROVE  LET list == SetToSeq(Mounted)
         IN  /\ list \in Seq(Descriptor) /\ NoTwins(list) /\ Range(list) = Mounted
             /\ mounted \in [Volumes -> MountPaths \cup {NoPath}] /\ MountedApart
             /\ changes \in 0..MaxChanges /\ calm \in BOOLEAN
             /\ state = Indexed(list)
             /\ reports = [i \in DOMAIN list |->
                             [kind |-> "Appeared", id |-> list[i].id, path |-> list[i].path]]
<1> DEFINE list == SetToSeq(Mounted)
           M == {w \in Volumes : mounted[w] # NoPath}
<1>1. /\ mounted \in [Volumes -> MountPaths \cup {NoPath}] /\ MountedApart
      /\ changes \in 0..MaxChanges /\ calm \in BOOLEAN
  BY VolumesAssumption DEF VolumesInit, MountedApart
<1>2. Mounted \subseteq Descriptor
  BY <1>1 DEF Mounted, Descriptor
<1>3. IsFiniteSet(Mounted)
  <2>1. IsFiniteSet(M)
    BY VolumesAssumption, FS_Subset
  <2> DEFINE f == [v \in M |-> [id |-> v, path |-> mounted[v]]]
  <2>2. f \in [M -> Mounted]
    BY DEF Mounted
  <2>3. \A d \in Mounted : \E v \in M : f[v] = d
    BY DEF Mounted
  <2> HIDE DEF f, M
  <2>4. f \in Surjection(M, Mounted)
    BY <2>2, <2>3 DEF Surjection
  <2>5. QED
    BY <2>1, <2>4, FS_Surjection
<1>4. list \in [1..Cardinality(Mounted) -> Mounted] /\ IsInjective(list)
  <2>1. \E f \in [1..Cardinality(Mounted) -> Mounted] : IsInjective(f)
    BY <1>3, FS_NatBijection, FS_CardinalityType DEF ExistsBijection, Bijection, Injection, IsInjective
  <2>2. QED
    BY <2>1 DEF SetToSeq
<1>5. Cardinality(Mounted) \in Nat
  BY <1>3, FS_CardinalityType
<1> HIDE DEF list
<1>6. list \in Seq(Descriptor)
  BY <1>2, <1>4, <1>5
<1>7. NoTwins(list)
  <2> SUFFICES ASSUME NEW i \in DOMAIN list, NEW j \in DOMAIN list, list[i].id = list[j].id
               PROVE  i = j
    BY DEF NoTwins
  <2>1. list[i] \in Mounted /\ list[j] \in Mounted
    BY <1>4
  <2>2. list[i] = list[j]
    BY <2>1 DEF Mounted
  <2>3. QED
    BY <2>2, <1>4 DEF IsInjective
<1>8. Range(list) = Mounted
  <2>1. list \in Injection(1..Cardinality(Mounted), Mounted)
    BY <1>4 DEF Injection
  <2>2. Cardinality(1..Cardinality(Mounted)) = Cardinality(Mounted)
    BY <1>5, FS_Interval
  <2>3. list \in Surjection(1..Cardinality(Mounted), Mounted)
    BY <2>1, <2>2, <1>3, FS_Injection
  <2>4. QED
    BY <2>3 DEF Surjection, Range
<1>9. state = Indexed(list)
      /\ reports = [i \in DOMAIN list |->
                      [kind |-> "Appeared", id |-> list[i].id, path |-> list[i].path]]
  BY DEF VolumesInit, list
<1>10. QED
  BY <1>1, <1>6, <1>7, <1>8, <1>9 DEF list

\* The state it starts from.
LEMMA VolumesInitInv == VolumesInit => VolumesInv
<1> SUFFICES ASSUME VolumesInit PROVE VolumesInv
  OBVIOUS
<1> DEFINE list == SetToSeq(Mounted)
<1>1. /\ list \in Seq(Descriptor) /\ NoTwins(list)
      /\ mounted \in [Volumes -> MountPaths \cup {NoPath}] /\ MountedApart
      /\ changes \in 0..MaxChanges /\ calm \in BOOLEAN
      /\ state = Indexed(list)
      /\ reports = [i \in DOMAIN list |->
                      [kind |-> "Appeared", id |-> list[i].id, path |-> list[i].path]]
  BY DiscoveredOnce
<1> HIDE DEF list
<1>2. Agree(state)
  BY <1>1, IndexedAgrees
<1>3. reports \in Seq(Report \cup {Unavailable})
  <2>1. \A i \in DOMAIN list : [kind |-> "Appeared", id |-> list[i].id, path |-> list[i].path] \in Report
    <3> TAKE i \in DOMAIN list
    <3>1. list[i] \in Descriptor
      BY <1>1
    <3>2. list[i].id \in Volumes /\ list[i].path \in MountPaths
      BY <3>1 DEF Descriptor
    <3>3. QED
      BY <3>2 DEF Report
  <2>2. QED
    BY <2>1, <1>1
<1>4. QED
  BY <1>1, <1>2, <1>3 DEF VolumesInv

\* Every step keeps the list and its indexes in agreement.
LEMMA VolumesStep == VolumesInv /\ [VolumesNext]_mountVars => VolumesInv'
<1> SUFFICES ASSUME VolumesInv, [VolumesNext]_mountVars PROVE VolumesInv'
  OBVIOUS
<1>1. /\ mounted \in [Volumes -> MountPaths \cup {NoPath}] /\ MountedApart
      /\ reports \in Seq(Report \cup {Unavailable})
      /\ Agree(state) /\ changes \in 0..MaxChanges /\ calm \in BOOLEAN
  BY DEF VolumesInv
<1>2. ASSUME NEW v \in Volumes, NEW p \in MountPaths \cup {NoPath}, NEW report \in Report,
             ChangeMounts(v, p, report), calm' \in BOOLEAN
      PROVE  VolumesInv'
  <2>1. mounted' \in [Volumes -> MountPaths \cup {NoPath}] /\ MountedApart'
    BY <1>1, <1>2 DEF ChangeMounts, MountedApart
  <2>2. QED
    BY <1>1, <1>2, <2>1, VolumesAssumption DEF ChangeMounts, VolumesInv
<1>3. ASSUME NEW report \in Report \cup {Unavailable}, Notice(report)
      PROVE  VolumesInv'
  BY <1>1, <1>3, VolumesAssumption DEF Notice, VolumesInv, MountedApart
<1>4. ASSUME NEW v \in Volumes, NEW p \in MountPaths, Mount(v, p) \/ Rename(v, p)
      PROVE  VolumesInv'
  <2>1. [kind |-> "Appeared", id |-> v, path |-> p] \in Report
        /\ [kind |-> "DescriptionChanged", id |-> v, path |-> p] \in Report
    BY DEF Report
  <2>2. calm' \in BOOLEAN
    BY <1>1, <1>4 DEF Mount, Rename, LeftTo
  <2>3. QED
    BY <1>2, <1>4, <2>1, <2>2 DEF Mount, Rename
<1>5. ASSUME NEW v \in Volumes, Unmount(v) \/ NoticeChange(v)
      PROVE  VolumesInv'
  <2>1. mounted[v] \in MountPaths
    BY <1>1, <1>5 DEF Unmount, NoticeChange
  <2>2. [kind |-> "Disappeared", id |-> v, path |-> mounted[v]] \in Report
        /\ [kind |-> "DescriptionChanged", id |-> v, path |-> mounted[v]] \in Report
    BY <2>1 DEF Report
  <2>3. CASE Unmount(v)
    BY <1>1, <1>2, <2>2, <2>3 DEF Unmount
  <2>4. CASE NoticeChange(v)
    BY <1>3, <2>2, <2>4 DEF NoticeChange
  <2>5. QED
    BY <1>5, <2>3, <2>4
<1>6. CASE NoticeFailure
  BY <1>3, <1>6 DEF NoticeFailure
<1>7. ASSUME NEW n \in 1..MaxBatch, n <= Len(reports)
      PROVE  /\ SubSeq(reports, 1, n) \in Seq(Report \cup {Unavailable})
             /\ SubSeq(reports, n + 1, Len(reports)) \in Seq(Report \cup {Unavailable})
  BY <1>1, <1>7, VolumesAssumption
<1>8. ASSUME NEW n \in 1..MaxBatch, drain_into_state(n)
      PROVE  VolumesInv'
  <2> DEFINE events == Coalesced(SubSeq(reports, 1, n))
  <2>1. n <= Len(reports) /\ state' = Staged(events)[Len(events)]
        /\ reports' = SubSeq(reports, n + 1, Len(reports)) /\ UNCHANGED <<mounted, changes, calm>>
    BY <1>8 DEF drain_into_state
  <2>2. events \in Seq(Report \cup {Unavailable})
    BY <2>1, <1>7, CoalescedTypes
  <2> HIDE DEF events
  <2>3. Len(events) \in Nat
    BY <2>2
  <2>4. Agree(state')
    BY <2>1, <2>3, <1>1, StagedAgrees
  <2>5. Agree(state)'
    BY <2>4 DEF Agree
  <2>6. QED
    BY <2>1, <2>5, <1>1, <1>7 DEF VolumesInv, MountedApart
<1>9. ASSUME NEW n \in 1..MaxBatch, drain_stopped(n)
      PROVE  VolumesInv'
  <2>1. Agree(state)'
    BY <1>1, <1>9 DEF Agree, drain_stopped
  <2>2. QED
    BY <2>1, <1>1, <1>7, <1>9 DEF drain_stopped, VolumesInv, MountedApart
<1>10. CASE UNCHANGED mountVars
  BY <1>1, <1>10 DEF mountVars, VolumesInv, MountedApart, Agree
<1>11. QED
  BY <1>4, <1>5, <1>6, <1>8, <1>9, <1>10 DEF VolumesNext, World

\* Types of the volumes' state (VolumeEventStream, VolumeEventState).
THEOREM VolumesTypes == VolumesSpec => []VolumesTypeOK
<1>1. VolumesInv => VolumesTypeOK
  <2> SUFFICES ASSUME VolumesInv PROVE VolumesTypeOK
    OBVIOUS
  <2>1. Agree(state)
    BY DEF VolumesInv
  <2>2. /\ \A v \in DOMAIN state.stable : state.stable[v] \in DOMAIN state.volumes
                                        /\ state.volumes[state.stable[v]].id = v
        /\ \A i \in DOMAIN state.volumes : state.volumes[i] \in Descriptor
        /\ \A p \in DOMAIN state.path : state.path[p] \in DOMAIN state.volumes
                                     /\ state.volumes[state.path[p]].path = p
        /\ state.volumes \in Seq(Descriptor)
    BY <2>1, AgreeFacts DEF Agree
  <2>3. DOMAIN state.stable \subseteq Volumes /\ DOMAIN state.path \subseteq MountPaths
    <3>1. \A d \in Descriptor : d.id \in Volumes /\ d.path \in MountPaths
      BY DEF Descriptor
    <3>2. QED
      BY <2>2, <3>1
  <2>4. Range(state.stable) \union Range(state.path) \subseteq DOMAIN state.volumes
    BY <2>2 DEF Range
  <2>5. QED
    BY <2>2, <2>3, <2>4 DEF VolumesInv, VolumesTypeOK
<1>2. QED
  BY <1>1, VolumesInitInv, VolumesStep, PTL DEF VolumesSpec

\* No volume is listed twice, and the two indexes that upsert and remove keep by hand
\* lead to the volumes they name, whatever is reported, coalesced and stopped
\* (VolumeEventState::upsert, remove_by_stable_identity).
THEOREM IndexesStayInAgreement == VolumesSpec => []IndexesAgree
<1>1. VolumesInv => IndexesAgree
  <2> SUFFICES ASSUME Agree(state) PROVE IndexesAgree
    BY DEF VolumesInv
  <2>1. {d.id : d \in Range(state.volumes)} = {state.volumes[i].id : i \in DOMAIN state.volumes}
    BY DEF Range
  <2>2. QED
    BY <2>1 DEF Agree, IndexesAgree
<1>2. QED
  BY <1>1, VolumesInitInv, VolumesStep, PTL DEF VolumesSpec

-----------------------------------------------------------------------------
(* The volumes that are listed *)

Listed(s) == Range(s.volumes)

\* The index by path knows every path of the list, and no path is listed twice.
PathsListed(s) == \A i \in DOMAIN s.volumes : s.volumes[i].path \in DOMAIN s.path
OnePerPath(s) == \A c, d \in Listed(s) : c.path = d.path => c = d

\* rebuild_indexes knows every path.
LEMMA IndexedPaths ==
  ASSUME NEW list
  PROVE  PathsListed(Indexed(list))
<1>1. Indexed(list).volumes = list /\ DOMAIN Indexed(list).path = {d.path : d \in Range(list)}
  BY DEF Indexed
<1>2. QED
  BY <1>1 DEF PathsListed, Range

\* The volume is taken out, and no other one.
LEMMA RemoveEffect ==
  ASSUME NEW s, Agree(s), NEW v \in DOMAIN s.stable
  PROVE  /\ Listed(remove_by_stable_identity(s, v)) = {d \in Listed(s) : d.id # v}
         /\ PathsListed(remove_by_stable_identity(s, v))
<1> DEFINE list == s.volumes
           k == s.stable[v]
           rest == RemoveAt(list, k)
<1>1. /\ list \in Seq(Descriptor) /\ k \in 1..Len(list) /\ NoTwins(list) /\ Len(list) \in Nat
      /\ list[k].id = v /\ DOMAIN list = 1..Len(list)
  BY AgreeFacts DEF Agree
<1>2. remove_by_stable_identity(s, v) = Indexed(rest)
  BY DEF remove_by_stable_identity
<1> HIDE DEF k
<1>3. /\ DOMAIN rest = 1..(Len(list) - 1)
      /\ \A i \in DOMAIN rest : rest[i] = list[IF i < k THEN i ELSE i + 1]
  BY <1>1, RemoveAtPlace
<1> HIDE DEF list, rest
<1>4. Range(rest) = {d \in Range(list) : d.id # v}
  <2>1. ASSUME NEW i \in DOMAIN rest
        PROVE  rest[i] \in Range(list) /\ rest[i].id # v
    <3> DEFINE a == IF i < k THEN i ELSE i + 1
    <3>1. a \in DOMAIN list /\ a # k /\ rest[i] = list[a]
      BY <1>1, <1>3
    <3> HIDE DEF a
    <3>2. QED
      BY <3>1, <1>1 DEF NoTwins, Range
  <2>2. ASSUME NEW j \in DOMAIN list, list[j].id # v
        PROVE  list[j] \in Range(rest)
    <3> DEFINE b == IF j < k THEN j ELSE j - 1
    <3>1. j # k
      BY <2>2, <1>1
    <3>2. b \in DOMAIN rest /\ (IF b < k THEN b ELSE b + 1) = j
      BY <3>1, <1>1, <1>3
    <3> HIDE DEF b
    <3>3. rest[b] = list[j]
      BY <3>2, <1>3
    <3>4. QED
      BY <3>2, <3>3 DEF Range
  <2>3. QED
    BY <2>1, <2>2 DEF Range
<1>5. Indexed(rest).volumes = rest
  BY DEF Indexed
<1>6. QED
  BY <1>2, <1>4, <1>5, IndexedPaths DEF Listed, list

\* The volume is listed with its new path, and the others as before, unless one of
\* them is listed at that path.
LEMMA UpsertEffect ==
  ASSUME NEW s, Agree(s), PathsListed(s), OnePerPath(s), NEW d \in Descriptor,
         \A c \in Listed(s) : c.path = d.path => c.id = d.id
  PROVE  /\ Listed(upsert(s, d)) = {c \in Listed(s) : c.id # d.id} \cup {d}
         /\ PathsListed(upsert(s, d))
<1> DEFINE list == s.volumes
           n == Len(list)
           u == upsert(s, d)
<1>1. /\ list \in Seq(Descriptor) /\ n \in Nat /\ DOMAIN list = 1..n
      /\ DOMAIN s.stable = {list[i].id : i \in DOMAIN list}
      /\ \A i \in DOMAIN list : s.stable[list[i].id] = i
      /\ \A p \in DOMAIN s.path : s.path[p] \in DOMAIN list /\ list[s.path[p]].path = p
      /\ s = [volumes |-> s.volumes, stable |-> s.stable, path |-> s.path]
  BY DEF Agree
<1>2. NoTwins(list) /\ \A v \in DOMAIN s.stable : s.stable[v] \in DOMAIN list /\ list[s.stable[v]].id = v
  BY AgreeFacts
<1>3. CASE d.id \in DOMAIN s.stable
  <2> DEFINE i == s.stable[d.id]
             l == [list EXCEPT ![i] = d]
             old == list[i].path
             path == IF old = d.path THEN s.path ELSE With(Without(s.path, old), d.path, i)
  <2>1. i \in DOMAIN list /\ list[i].id = d.id
    BY <1>2, <1>3
  <2>2. u = [s EXCEPT !.volumes = l, !.path = path]
    BY <1>3 DEF upsert
  <2>3. DOMAIN l = DOMAIN list /\ l[i] = d /\ \A j \in DOMAIN list : j # i => l[j] = list[j]
    BY <2>1, <1>1
  <2>4. \A j \in DOMAIN list : j # i => list[j].id # d.id /\ list[j].path \in DOMAIN s.path
    BY <2>1, <1>2 DEF NoTwins, PathsListed
  <2>5. \A j \in DOMAIN list : j # i => list[j].path # old
    <3> SUFFICES ASSUME NEW j \in DOMAIN list, j # i, list[j].path = old PROVE FALSE
      OBVIOUS
    <3>1. list[j] \in Listed(s) /\ list[i] \in Listed(s)
      BY <2>1 DEF Listed, Range
    <3>2. list[j] = list[i]
      BY <3>1 DEF OnePerPath
    <3>3. QED
      BY <3>2, <2>1, <2>4
  <2>6. \A j \in DOMAIN list : l[j].path \in DOMAIN path
    <3>1. CASE old = d.path
      <4>1. old \in DOMAIN s.path
        BY <2>1 DEF PathsListed
      <4>2. QED
        BY <3>1, <4>1, <2>3, <2>4
    <3>2. CASE old # d.path
      <4>1. DOMAIN path = (DOMAIN s.path \ {old}) \cup {d.path}
        BY <3>2 DEF With, Without, Restrict
      <4> HIDE DEF path, l, old, i
      <4>2. QED
        BY <4>1, <2>3, <2>4, <2>5
    <3>3. QED
      BY <3>1, <3>2
  <2> HIDE DEF path, l, u
  <2>7. u.volumes = l /\ u.path = path
    BY <2>2, <1>1
  <2>8. Range(l) = {c \in Range(list) : c.id # d.id} \cup {d}
    <3> HIDE DEF i
    <3>1. QED
      BY <2>1, <2>3, <2>4 DEF Range
  <2>9. QED
    BY <2>3, <2>6, <2>7, <2>8 DEF Listed, PathsListed, u
<1>4. CASE d.id \notin DOMAIN s.stable
  <2>1. d.path \notin DOMAIN s.path
    <3> SUFFICES ASSUME d.path \in DOMAIN s.path PROVE FALSE
      OBVIOUS
    <3>1. s.path[d.path] \in DOMAIN list /\ list[s.path[d.path]].path = d.path
      BY <1>1
    <3>2. list[s.path[d.path]].id = d.id
      BY <3>1 DEF Listed, Range
    <3>3. QED
      BY <3>1, <3>2, <1>1, <1>4
  <2> DEFINE l == Append(list, d)
             path == With(s.path, d.path, n + 1)
  <2>2. u.volumes = l /\ u.path = path
    BY <1>4, <2>1 DEF upsert
  <2>3. DOMAIN l = 1..(n + 1) /\ l[n + 1] = d /\ \A j \in 1..n : l[j] = list[j]
    BY <1>1
  <2>4. DOMAIN path = DOMAIN s.path \cup {d.path}
    BY DEF With
  <2> HIDE DEF path, l, u
  <2>5. \A j \in 1..n : list[j].id # d.id /\ list[j].path \in DOMAIN s.path
    BY <1>1, <1>4 DEF PathsListed
  <2>6. \A j \in DOMAIN l : j \in 1..n \/ j = n + 1
    BY <2>3, <1>1
  <2>7. Range(l) = {c \in Range(list) : c.id # d.id} \cup {d}
    <3>1. n + 1 \in DOMAIN l /\ \A j \in 1..n : j \in DOMAIN l
      BY <2>3, <1>1
    <3>2. QED
      BY <3>1, <2>3, <2>5, <2>6, <1>1 DEF Range
  <2>8. \A j \in DOMAIN l : l[j].path \in DOMAIN path
    BY <2>3, <2>4, <2>5, <2>6
  <2>9. QED
    BY <2>2, <2>7, <2>8 DEF Listed, PathsListed, u
<1>5. QED
  BY <1>3, <1>4

-----------------------------------------------------------------------------
(* The reports that wait explain how the list differs from what is mounted *)

AnyReport == Report \cup {Unavailable}

\* The report e says that v went from p, or that it is there.
Goes(e, v, p) == e.kind = "Disappeared" /\ e.id = v /\ e.path = p
Is(e, v, p) == e.kind \in {"Appeared", "DescriptionChanged"} /\ e.id = v /\ e.path = p

After(Q, i) == {j \in DOMAIN Q : j > i}

\* The last that Q says of v at p after place i is that it is there.
EndsThere(Q, i, v, p) ==
  \E j \in After(Q, i) : Is(Q[j], v, p) /\ \A k \in After(Q, j) : ~Goes(Q[k], v, p)

\* A volume that is listed is mounted there, or Q says that it went.
Sound(s, Q, i) ==
  \A d \in Listed(s) : mounted[d.id] = d.path \/ \E j \in After(Q, i) : Goes(Q[j], d.id, d.path)

\* A volume that is mounted is listed there and not said to go, or said to be there.
Complete(s, Q, i) ==
  \A v \in Volumes : mounted[v] # NoPath =>
    \/ EndsThere(Q, i, v, mounted[v])
    \/ /\ [id |-> v, path |-> mounted[v]] \in Listed(s)
       /\ \A j \in After(Q, i) : ~Goes(Q[j], v, mounted[v])

\* A path is named by reports of one volume, and no other one is mounted there.
OwnPaths(Q, i) ==
  /\ \A j, k \in After(Q, i) :
       Q[j] \in Report /\ Q[k] \in Report /\ Q[j].path = Q[k].path => Q[j].id = Q[k].id
  /\ \A j \in After(Q, i), v \in Volumes :
       Q[j] \in Report /\ mounted[v] = Q[j].path => v = Q[j].id

Follows(s, Q, i) == Sound(s, Q, i) /\ Complete(s, Q, i) /\ OwnPaths(Q, i)

\* The kinds of reports.
LEMMA ReportKinds ==
  ASSUME NEW e \in AnyReport
  PROVE  /\ e.kind # "Unavailable" => /\ e \in Report /\ e.id \in Volumes /\ e.path \in MountPaths
                                      /\ CoalescingKey(e) = e.id /\ CoalescingKey(e) # NoPath
                                      /\ e.kind \in {"Appeared", "DescriptionChanged", "Disappeared"}
         /\ e.kind = "Unavailable" => e \notin Report /\ CoalescingKey(e) = NoPath
BY VolumesAssumption DEF AnyReport, Report, Unavailable, CoalescingKey

\* Then no path is listed twice.
LEMMA FollowsApart ==
  ASSUME MountedApart, NEW s, Agree(s), NEW Q \in Seq(AnyReport), NEW i, Sound(s, Q, i), OwnPaths(Q, i),
         mounted \in [Volumes -> MountPaths \cup {NoPath}]
  PROVE  /\ OnePerPath(s)
         /\ \A v \in Volumes : \A d \in Listed(s) : mounted[v] = d.path => d.id = v
<1>1. \A d \in Listed(s) : d \in Descriptor /\ d.id \in Volumes /\ d.path \in MountPaths /\ d.path # NoPath
  <2>1. \A d \in Descriptor : d.id \in Volumes /\ d.path \in MountPaths /\ d.path # NoPath
    BY VolumesAssumption DEF Descriptor
  <2>2. \A d \in Listed(s) : d \in Descriptor
    BY AgreeFacts DEF Listed, Range
  <2>3. QED
    BY <2>1, <2>2
<1>2. \A j \in After(Q, i) : \A v, p : Goes(Q[j], v, p) => Q[j] \in Report /\ Q[j].id = v /\ Q[j].path = p
  <2> SUFFICES ASSUME NEW j \in After(Q, i), Q[j].kind = "Disappeared" PROVE Q[j] \in Report
    BY DEF Goes
  <2>1. Q[j] \in AnyReport
    BY DEF After
  <2>2. QED
    BY <2>1, ReportKinds
<1>3. ASSUME NEW v \in Volumes, NEW d \in Listed(s), mounted[v] = d.path
      PROVE  d.id = v
  <2>1. CASE mounted[d.id] = d.path
    BY <2>1, <1>1, <1>3 DEF MountedApart
  <2>2. CASE mounted[d.id] # d.path
    <3>1. PICK j \in After(Q, i) : Goes(Q[j], d.id, d.path)
      BY <2>2 DEF Sound
    <3>2. Q[j] \in Report /\ Q[j].id = d.id /\ Q[j].path = d.path
      BY <3>1, <1>2
    <3>3. QED
      BY <3>2, <1>3 DEF OwnPaths
  <2>3. QED
    BY <2>1, <2>2
<1>4. ASSUME NEW c \in Listed(s), NEW d \in Listed(s), c.path = d.path
      PROVE  c.id = d.id
  <2>1. CASE mounted[c.id] = c.path
    BY <2>1, <1>1, <1>3, <1>4
  <2>2. CASE mounted[d.id] = d.path
    BY <2>2, <1>1, <1>3, <1>4
  <2>3. CASE mounted[c.id] # c.path /\ mounted[d.id] # d.path
    <3>1. PICK j \in After(Q, i) : Goes(Q[j], c.id, c.path)
      BY <2>3 DEF Sound
    <3>2. PICK k \in After(Q, i) : Goes(Q[k], d.id, d.path)
      BY <2>3 DEF Sound
    <3>3. /\ Q[j] \in Report /\ Q[j].id = c.id /\ Q[j].path = c.path
          /\ Q[k] \in Report /\ Q[k].id = d.id /\ Q[k].path = d.path
      BY <3>1, <3>2, <1>2
    <3>4. QED
      BY <3>3, <1>4 DEF OwnPaths
  <2>4. QED
    BY <2>1, <2>2, <2>3
<1>5. ASSUME NEW c \in Listed(s), NEW d \in Listed(s), c.path = d.path
      PROVE  c = d
  <2>1. c.id = d.id
    BY <1>4, <1>5
  <2>2. c \in Descriptor /\ d \in Descriptor
    BY <1>1
  <2>3. QED
    BY <2>1, <2>2, <1>5 DEF Descriptor
<1>6. QED
  BY <1>3, <1>5 DEF OnePerPath

\* A report is resolved to its own volume or to none.
LEMMA ResolvesToItself ==
  ASSUME MountedApart, mounted \in [Volumes -> MountPaths \cup {NoPath}],
         NEW e \in Report, \A v \in Volumes : mounted[v] = e.path => v = e.id
  PROVE  Resolved(e) = IF e.kind # "Disappeared" /\ mounted[e.id] = e.path
                       THEN [id |-> e.id, path |-> e.path] ELSE NoVolume
<1> DEFINE there == {d \in Mounted : d.path = e.path}
<1>1. e.id \in Volumes /\ e.path \in MountPaths /\ e.path # NoPath
  BY VolumesAssumption DEF Report
<1>2. CASE mounted[e.id] = e.path
  <2>1. there = {[id |-> e.id, path |-> e.path]}
    BY <1>1, <1>2 DEF Mounted
  <2> HIDE DEF there
  <2>2. (CHOOSE d \in there : TRUE) = [id |-> e.id, path |-> e.path] /\ there # {}
    BY <2>1
  <2>3. QED
    BY <1>2, <2>2 DEF Resolved, there
<1>3. CASE mounted[e.id] # e.path
  <2>1. there = {}
    BY <1>1, <1>3 DEF Mounted
  <2>2. QED
    BY <1>3, <2>1 DEF Resolved
<1>4. QED
  BY <1>2, <1>3

\* One report is applied: those that wait after it explain the difference.
LEMMA TurnFollows ==
  ASSUME MountedApart, mounted \in [Volumes -> MountPaths \cup {NoPath}],
         NEW Q \in Seq(AnyReport), NEW i \in Nat, i + 1 \in DOMAIN Q,
         NEW s, Agree(s), PathsListed(s), Follows(s, Q, i)
  PROVE  /\ PathsListed(apply_parts_transition(s, Q[i + 1]))
         /\ Follows(apply_parts_transition(s, Q[i + 1]), Q, i + 1)
<1> DEFINE e == Q[i + 1]
           t == apply_parts_transition(s, e)
<1>1. /\ After(Q, i) = After(Q, i + 1) \cup {i + 1}
      /\ i + 1 \in After(Q, i)
      /\ e \in AnyReport
  BY DEF After
<1>2. Sound(s, Q, i) /\ Complete(s, Q, i) /\ OwnPaths(Q, i)
  BY DEF Follows
<1>3. OwnPaths(Q, i + 1)
  BY <1>1, <1>2 DEF OwnPaths
<1>4. /\ OnePerPath(s)
      /\ \A v \in Volumes : \A d \in Listed(s) : mounted[v] = d.path => d.id = v
  BY <1>2, FollowsApart
<1>5. \A d \in Listed(s) : /\ d \in Descriptor /\ d.id \in Volumes /\ d.path \in MountPaths
                           /\ d.id \in DOMAIN s.stable /\ d.path \in DOMAIN s.path
                           /\ s.volumes[s.stable[d.id]] = d /\ s.volumes[s.path[d.path]] = d
  <2> SUFFICES ASSUME NEW d \in Listed(s)
               PROVE  /\ d \in Descriptor /\ d.id \in Volumes /\ d.path \in MountPaths
                      /\ d.id \in DOMAIN s.stable /\ d.path \in DOMAIN s.path
                      /\ s.volumes[s.stable[d.id]] = d /\ s.volumes[s.path[d.path]] = d
    OBVIOUS
  <2>1. PICK n \in DOMAIN s.volumes : d = s.volumes[n]
    BY DEF Listed, Range
  <2>2. d \in Descriptor
    BY <2>1, AgreeFacts
  <2>3. d.id \in DOMAIN s.stable /\ s.stable[d.id] = n /\ d.path \in DOMAIN s.path
    BY <2>1 DEF Agree, PathsListed
  <2>4. s.path[d.path] \in DOMAIN s.volumes /\ s.volumes[s.path[d.path]].path = d.path
    BY <2>3 DEF Agree
  <2>5. s.volumes[s.path[d.path]] = d
    BY <2>4, <1>4 DEF OnePerPath, Listed, Range
  <2>6. QED
    BY <2>1, <2>2, <2>3, <2>5 DEF Descriptor
<1>6. \A p \in DOMAIN s.path : s.volumes[s.path[p]] \in Listed(s) /\ s.volumes[s.path[p]].path = p
  BY DEF Agree, Listed, Range
<1>7. \A v \in DOMAIN s.stable : s.volumes[s.stable[v]] \in Listed(s) /\ s.volumes[s.stable[v]].id = v
  BY AgreeFacts DEF Listed, Range
<1> HIDE DEF e
<1>8. CASE e.kind = "Unavailable"
  <2>1. t = s
    BY <1>8 DEF apply_parts_transition
  <2>2. \A v, p : ~Goes(e, v, p) /\ ~Is(e, v, p)
    BY <1>8 DEF Goes, Is
  <2>3. Sound(s, Q, i + 1)
    BY <1>1, <1>2, <2>2 DEF Sound, e
  <2>4. Complete(s, Q, i + 1)
    BY <1>1, <1>2, <2>2 DEF Complete, EndsThere, e
  <2>5. QED
    BY <1>3, <2>1, <2>3, <2>4 DEF Follows, e
<1>9. CASE e.kind # "Unavailable"
  <2> DEFINE v == e.id
             p == e.path
  <2>1. e \in Report /\ v \in Volumes /\ p \in MountPaths
        /\ e.kind \in {"Appeared", "DescriptionChanged", "Disappeared"}
    BY <1>1, <1>9, ReportKinds
  <2>2. \A w \in Volumes : mounted[w] = p => w = v
    BY <1>1, <1>2, <2>1 DEF OwnPaths, e
  <2>3. Resolved(e) = IF e.kind # "Disappeared" /\ mounted[v] = p THEN [id |-> v, path |-> p] ELSE NoVolume
    BY <2>1, <2>2, ResolvesToItself
  <2>4. \A d \in Descriptor : d # NoVolume
    BY DEF Descriptor, NoVolume
  <2> HIDE DEF v, p
  <2>5. CASE e.kind = "Disappeared"
    <3>1. Resolved(e) = NoVolume
      BY <2>3, <2>5
    <3>2. \A w, q : ~Is(e, w, q) /\ (Goes(e, w, q) <=> w = v /\ q = p)
      BY <2>5 DEF Goes, Is, v, p
    <3>3. Listed(t) = {d \in Listed(s) : d.path # p} /\ PathsListed(t)
      <4>1. CASE p \in DOMAIN s.path
        <5> DEFINE d == s.volumes[s.path[p]]
        <5>1. d \in Listed(s) /\ d.path = p
          BY <4>1, <1>6
        <5>2. d.id \in DOMAIN s.stable /\ d \in Descriptor
          BY <5>1, <1>5
        <5>3. matching_previous(s, e, NoVolume) = d
          BY <4>1 DEF matching_previous, p
        <5>4. t = remove_by_stable_identity(s, d.id)
          BY <2>4, <2>5, <3>1, <5>2, <5>3, <1>9 DEF apply_parts_transition
        <5> HIDE DEF d
        <5>5. Listed(t) = {c \in Listed(s) : c.id # d.id} /\ PathsListed(t)
          BY <5>2, <5>4, RemoveEffect
        <5>6. \A c \in Listed(s) : c.id = d.id <=> c.path = p
          BY <5>1, <1>4, <1>5 DEF OnePerPath
        <5>7. QED
          BY <5>5, <5>6
      <4>2. CASE p \notin DOMAIN s.path
        <5>1. matching_previous(s, e, NoVolume) = NoVolume
          BY <4>2 DEF matching_previous, p
        <5>2. t = s
          BY <2>5, <3>1, <5>1, <1>9 DEF apply_parts_transition
        <5>3. \A d \in Listed(s) : d.path # p
          BY <4>2, <1>5
        <5>4. QED
          BY <5>2, <5>3
      <4>3. QED
        BY <4>1, <4>2
    <3> HIDE DEF t
    <3>4. Sound(t, Q, i + 1)
      <4> SUFFICES ASSUME NEW d \in Listed(t), mounted[d.id] # d.path
                   PROVE  \E j \in After(Q, i + 1) : Goes(Q[j], d.id, d.path)
        BY DEF Sound
      <4>1. d \in Listed(s) /\ d.path # p
        BY <3>3
      <4>2. PICK j \in After(Q, i) : Goes(Q[j], d.id, d.path)
        BY <4>1, <1>2 DEF Sound
      <4>3. j # i + 1
        BY <4>1, <4>2, <3>2 DEF e
      <4>4. QED
        BY <4>2, <4>3, <1>1
    <3>5. Complete(t, Q, i + 1)
      <4> SUFFICES ASSUME NEW w \in Volumes, mounted[w] # NoPath, ~EndsThere(Q, i + 1, w, mounted[w])
                   PROVE  /\ [id |-> w, path |-> mounted[w]] \in Listed(t)
                          /\ \A j \in After(Q, i + 1) : ~Goes(Q[j], w, mounted[w])
        BY DEF Complete
      <4>1. ~EndsThere(Q, i, w, mounted[w])
        BY <3>2, <1>1 DEF EndsThere, e
      <4>2. /\ [id |-> w, path |-> mounted[w]] \in Listed(s)
            /\ \A j \in After(Q, i) : ~Goes(Q[j], w, mounted[w])
        BY <4>1, <1>2 DEF Complete
      <4>3. mounted[w] # p
        <5> SUFFICES ASSUME mounted[w] = p PROVE FALSE
          OBVIOUS
        <5>1. w = v
          BY <2>2
        <5>2. Goes(Q[i + 1], w, mounted[w])
          BY <5>1, <3>2 DEF e
        <5>3. QED
          BY <5>2, <4>2, <1>1
      <4>4. QED
        BY <4>2, <4>3, <3>3, <1>1
    <3>6. QED
      BY <1>3, <3>3, <3>4, <3>5 DEF Follows, e, t
  <2>6. CASE e.kind # "Disappeared" /\ mounted[v] # p
    <3>1. Resolved(e) = NoVolume
      BY <2>3, <2>6
    <3>2. t = s
      BY <1>9, <2>6, <3>1 DEF apply_parts_transition
    <3>3. \A w, q : ~Goes(e, w, q) /\ (Is(e, w, q) => w = v /\ q = p)
      BY <2>6 DEF Goes, Is, v, p
    <3>4. Sound(s, Q, i + 1)
      BY <1>1, <1>2, <3>3 DEF Sound, e
    <3>5. Complete(s, Q, i + 1)
      <4> SUFFICES ASSUME NEW w \in Volumes, mounted[w] # NoPath, ~EndsThere(Q, i + 1, w, mounted[w])
                   PROVE  /\ [id |-> w, path |-> mounted[w]] \in Listed(s)
                          /\ \A j \in After(Q, i + 1) : ~Goes(Q[j], w, mounted[w])
        BY DEF Complete
      <4>1. ~Is(Q[i + 1], w, mounted[w])
        BY <3>3, <2>6 DEF e
      <4>2. ~EndsThere(Q, i, w, mounted[w])
        BY <4>1, <1>1 DEF EndsThere
      <4>3. QED
        BY <4>2, <1>1, <1>2 DEF Complete
    <3>6. QED
      BY <1>3, <3>2, <3>4, <3>5 DEF Follows, e
  <2>7. CASE e.kind # "Disappeared" /\ mounted[v] = p
    <3> DEFINE d == [id |-> v, path |-> p]
    <3>1. Resolved(e) = d /\ d \in Descriptor /\ d # NoVolume /\ d.id = v /\ d.path = p
      BY <2>1, <2>3, <2>4, <2>7 DEF Descriptor
    <3>2. \A w, q : ~Goes(e, w, q)
      BY <2>7 DEF Goes
    <3>3. \A c \in Listed(s) : c.path = p => c.id = v
      BY <1>4, <2>1, <2>7
    <3>4. Listed(t) = {c \in Listed(s) : c.id # v} \cup {d} /\ PathsListed(t)
      <4>1. t = s \/ t = upsert(s, d)
        BY <1>9, <2>7, <3>1 DEF apply_parts_transition
      <4>2. t = s => matching_previous(s, e, d) = d \/ t = upsert(s, d)
        BY <1>9, <2>7, <3>1 DEF apply_parts_transition
      <4>3. CASE t = upsert(s, d)
        <5> HIDE DEF d, t
        <5>1. \A c \in Listed(s) : c.path = d.path => c.id = d.id
          BY <3>1, <3>3
        <5>2. QED
          BY <3>1, <4>3, <5>1, <1>4, UpsertEffect
      <4>4. CASE t = s /\ matching_previous(s, e, d) = d
        <5>1. d \in Listed(s)
          <6>1. CASE v \in DOMAIN s.stable
            BY <6>1, <4>4, <3>1, <1>7 DEF matching_previous
          <6>2. CASE v \notin DOMAIN s.stable
            <7>1. e.path \in DOMAIN s.path /\ s.volumes[s.path[e.path]] = d
              BY <6>2, <4>4, <3>1 DEF matching_previous
            <7>2. QED
              BY <7>1, <1>6
          <6>3. QED
            BY <6>1, <6>2
        <5>2. \A c \in Listed(s) : c.id = v => c = d
          BY <5>1, <1>5, <3>1
        <5> HIDE DEF d, t
        <5>3. QED
          BY <5>1, <5>2, <4>4, <3>1
      <4>5. QED
        BY <4>1, <4>2, <4>3, <4>4
    <3> HIDE DEF t
    <3>5. Sound(t, Q, i + 1)
      <4> SUFFICES ASSUME NEW c \in Listed(t), mounted[c.id] # c.path
                   PROVE  \E j \in After(Q, i + 1) : Goes(Q[j], c.id, c.path)
        BY DEF Sound
      <4>1. c \in Listed(s)
        BY <3>1, <3>4, <2>7
      <4>2. PICK j \in After(Q, i) : Goes(Q[j], c.id, c.path)
        BY <4>1, <1>2 DEF Sound
      <4>3. j # i + 1
        BY <4>2, <3>2 DEF e
      <4>4. QED
        BY <4>2, <4>3, <1>1
    <3>6. Complete(t, Q, i + 1)
      <4> SUFFICES ASSUME NEW w \in Volumes, mounted[w] # NoPath, ~EndsThere(Q, i + 1, w, mounted[w])
                   PROVE  /\ [id |-> w, path |-> mounted[w]] \in Listed(t)
                          /\ \A j \in After(Q, i + 1) : ~Goes(Q[j], w, mounted[w])
        BY DEF Complete
      <4>1. CASE EndsThere(Q, i, w, mounted[w])
        <5>1. PICK j \in After(Q, i) : /\ Is(Q[j], w, mounted[w])
                                       /\ \A k \in After(Q, j) : ~Goes(Q[k], w, mounted[w])
          BY <4>1 DEF EndsThere
        <5>2. j = i + 1
          BY <5>1, <1>1 DEF EndsThere
        <5>3. w = v /\ mounted[w] = p
          BY <5>1, <5>2 DEF Is, e, v, p
        <5>4. QED
          BY <5>1, <5>2, <5>3, <3>4
      <4>2. CASE ~EndsThere(Q, i, w, mounted[w])
        <5>1. /\ [id |-> w, path |-> mounted[w]] \in Listed(s)
              /\ \A j \in After(Q, i) : ~Goes(Q[j], w, mounted[w])
          BY <4>2, <1>2 DEF Complete
        <5>2. [id |-> w, path |-> mounted[w]] \in Listed(t)
          BY <5>1, <3>4, <2>7
        <5>3. QED
          BY <5>1, <5>2, <1>1
      <4>3. QED
        BY <4>1, <4>2
    <3>7. QED
      BY <1>3, <3>4, <3>5, <3>6 DEF Follows, e, t
  <2>8. QED
    BY <2>5, <2>6, <2>7
<1>10. QED
  BY <1>8, <1>9

-----------------------------------------------------------------------------
(* What coalescing leaves of a batch *)

\* Of one volume, a report that it is there is followed by one of the same path, and
\* one that it went by one that it is there.
Orderly(Q) ==
  \A j, k \in DOMAIN Q :
    /\ j < k /\ CoalescingKey(Q[j]) = CoalescingKey(Q[k])
    /\ \A m \in DOMAIN Q : j < m /\ m < k => CoalescingKey(Q[m]) # CoalescingKey(Q[j])
    => /\ Q[j].kind = "Disappeared" => Q[k].kind # "Disappeared"
       /\ Q[j].kind \in {"Appeared", "DescriptionChanged"} => Q[k].path = Q[j].path

\* The reports B up to place n, coalesced to K: K holds reports of B, all that say
\* that a volume went, and ends with a volume being there where B does.
Same(K, B, n) ==
  /\ \A j \in DOMAIN K : \E m \in 1..n : K[j] = B[m]
  /\ \A m \in 1..n : B[m].kind = "Disappeared" => \E j \in DOMAIN K : K[j] = B[m]
  /\ \A v \in Volumes, p \in MountPaths :
       (\E m \in 1..n : Is(B[m], v, p) /\ \A k \in (m + 1)..n : ~Goes(B[k], v, p))
         => EndsThere(K, 0, v, p)

\* The last report of a volume that is there is at the place recorded for it, and
\* none of the volume comes after it.
Joins(c, B, n) ==
  /\ BatchOK(c) /\ Same(c.kept, B, n)
  /\ \A x \in DOMAIN c.key :
       /\ \E m \in 1..n : /\ CoalescingKey(B[m]) = x /\ B[m].kind # "Disappeared"
                          /\ c.kept[c.key[x]] = B[m]
                          /\ \A k \in (m + 1)..n : CoalescingKey(B[k]) # x
       /\ \A j \in DOMAIN c.kept : j > c.key[x] => CoalescingKey(c.kept[j]) # x
  /\ \A x \in DOMAIN c.gone :
       \E m \in 1..n : /\ CoalescingKey(B[m]) = x /\ B[m].kind = "Disappeared"
                       /\ \A k \in (m + 1)..n : CoalescingKey(B[k]) # x

\* A report that takes the place i of an earlier one of the same volume and path, or
\* of an earlier failure.
LEMMA SameReplaced ==
  ASSUME NEW B \in Seq(AnyReport), NEW n \in Nat, n + 1 \in DOMAIN B,
         NEW K \in Seq(AnyReport), Same(K, B, n), NEW i \in DOMAIN K,
         K[i].kind # "Disappeared",
         CoalescingKey(K[i]) = CoalescingKey(B[n + 1]),
         K[i].kind # "Unavailable" => B[n + 1].path = K[i].path,
         \A j \in DOMAIN K : j > i => CoalescingKey(K[j]) # CoalescingKey(K[i])
  PROVE  Same([K EXCEPT ![i] = B[n + 1]], B, n + 1)
<1> DEFINE e == B[n + 1]
           L == [K EXCEPT ![i] = e]
<1>1. /\ DOMAIN L = DOMAIN K /\ L[i] = e /\ \A j \in DOMAIN K : j # i => L[j] = K[j]
      /\ e \in AnyReport /\ K[i] \in AnyReport
      /\ DOMAIN K \subseteq Nat \ {0}
  OBVIOUS
<1>2. /\ \A j \in DOMAIN K : \E m \in 1..n : K[j] = B[m]
      /\ \A m \in 1..n : B[m].kind = "Disappeared" => \E j \in DOMAIN K : K[j] = B[m]
      /\ \A v \in Volumes, p \in MountPaths :
           (\E m \in 1..n : Is(B[m], v, p) /\ \A k \in (m + 1)..n : ~Goes(B[k], v, p))
             => EndsThere(K, 0, v, p)
  BY DEF Same
<1>3. \A m \in 1..(n + 1) : m \in 1..n \/ m = n + 1
  OBVIOUS
<1>4. n + 1 \in 1..(n + 1) /\ \A m \in 1..n : m \in 1..(n + 1)
  OBVIOUS
<1> HIDE DEF e, L
<1>5. \A j \in DOMAIN L : \E m \in 1..(n + 1) : L[j] = B[m]
  BY <1>1, <1>2, <1>4 DEF e
<1>6. \A m \in 1..(n + 1) : B[m].kind = "Disappeared" => \E j \in DOMAIN L : L[j] = B[m]
  BY <1>1, <1>2, <1>3 DEF e
<1>7. ASSUME NEW v \in Volumes, NEW p \in MountPaths, NEW m \in 1..(n + 1), Is(B[m], v, p),
             \A k \in (m + 1)..(n + 1) : ~Goes(B[k], v, p)
      PROVE  EndsThere(L, 0, v, p)
  <2>1. ~Goes(e, v, p)
    <3>1. CASE m = n + 1
      BY <3>1, <1>7 DEF Is, Goes, e
    <3>2. CASE m # n + 1
      <4>1. n + 1 \in (m + 1)..(n + 1)
        BY <3>2
      <4>2. QED
        BY <4>1, <1>7 DEF e
    <3>3. QED
      BY <3>1, <3>2
  <2>2. CASE CoalescingKey(e) = v /\ e.path = p
    <3>1. e.kind # "Unavailable" /\ e.id = v
      BY <2>2, <1>1, ReportKinds, VolumesAssumption
    <3>2. Is(e, v, p)
      BY <2>1, <2>2, <3>1, <1>1, ReportKinds DEF Goes, Is
    <3>3. \A k \in After(L, i) : ~Goes(L[k], v, p)
      <4> SUFFICES ASSUME NEW k \in After(L, i), Goes(L[k], v, p) PROVE FALSE
        OBVIOUS
      <4>1. k \in DOMAIN K /\ k > i /\ L[k] = K[k] /\ K[k] \in AnyReport
        BY <1>1 DEF After
      <4>2. CoalescingKey(K[k]) = v
        BY <4>1, ReportKinds DEF Goes
      <4>3. QED
        BY <4>1, <4>2, <2>2 DEF e
    <3>4. i \in After(L, 0)
      BY <1>1 DEF After
    <3>5. QED
      BY <3>2, <3>3, <3>4, <1>1 DEF EndsThere
  <2>3. CASE ~(CoalescingKey(e) = v /\ e.path = p)
    <3>1. m # n + 1
      <4> SUFFICES ASSUME m = n + 1 PROVE FALSE
        OBVIOUS
      <4>1. Is(e, v, p)
        BY <1>7 DEF e
      <4>2. QED
        BY <4>1, <2>3, <1>1, ReportKinds DEF Is
    <3>2. m \in 1..n /\ \A k \in (m + 1)..n : k \in (m + 1)..(n + 1)
      BY <3>1
    <3>3. EndsThere(K, 0, v, p)
      BY <3>2, <1>2, <1>7
    <3>4. PICK j \in After(K, 0) : Is(K[j], v, p) /\ \A k \in After(K, j) : ~Goes(K[k], v, p)
      BY <3>3 DEF EndsThere
    <3>5. j # i
      <4> SUFFICES ASSUME j = i PROVE FALSE
        OBVIOUS
      <4>1. K[i].kind # "Unavailable" /\ K[i].id = v /\ K[i].path = p
        BY <3>4 DEF Is
      <4>2. CoalescingKey(K[i]) = v
        BY <4>1, <1>1, ReportKinds
      <4>3. QED
        BY <4>1, <4>2, <2>3 DEF e
    <3>6. Is(L[j], v, p) /\ j \in After(L, 0)
      BY <3>4, <3>5, <1>1 DEF After
    <3>7. \A k \in After(L, j) : ~Goes(L[k], v, p)
      BY <3>4, <2>1, <1>1 DEF After
    <3>8. QED
      BY <3>6, <3>7 DEF EndsThere
  <2>4. QED
    BY <2>2, <2>3
<1>8. QED
  BY <1>5, <1>6, <1>7 DEF Same, L, e

\* A report that gets a place of its own.
LEMMA SameAppended ==
  ASSUME NEW B \in Seq(AnyReport), NEW n \in Nat, n + 1 \in DOMAIN B,
         NEW K \in Seq(AnyReport), Same(K, B, n)
  PROVE  Same(Append(K, B[n + 1]), B, n + 1)
<1> DEFINE e == B[n + 1]
           L == Append(K, e)
           l == Len(K) + 1
<1>1. /\ DOMAIN L = DOMAIN K \cup {l} /\ L[l] = e /\ \A j \in DOMAIN K : L[j] = K[j] /\ j < l
      /\ l \in Nat \ {0} /\ DOMAIN K \subseteq Nat \ {0}
  OBVIOUS
<1>2. /\ \A j \in DOMAIN K : \E m \in 1..n : K[j] = B[m]
      /\ \A m \in 1..n : B[m].kind = "Disappeared" => \E j \in DOMAIN K : K[j] = B[m]
      /\ \A v \in Volumes, p \in MountPaths :
           (\E m \in 1..n : Is(B[m], v, p) /\ \A k \in (m + 1)..n : ~Goes(B[k], v, p))
             => EndsThere(K, 0, v, p)
  BY DEF Same
<1>3. \A m \in 1..(n + 1) : m \in 1..n \/ m = n + 1
  OBVIOUS
<1>4. n + 1 \in 1..(n + 1) /\ \A m \in 1..n : m \in 1..(n + 1)
  OBVIOUS
<1> HIDE DEF e, L, l
<1>5. \A j \in DOMAIN L : \E m \in 1..(n + 1) : L[j] = B[m]
  BY <1>1, <1>2, <1>4 DEF e
<1>6. \A m \in 1..(n + 1) : B[m].kind = "Disappeared" => \E j \in DOMAIN L : L[j] = B[m]
  BY <1>1, <1>2, <1>3 DEF e
<1>7. ASSUME NEW v \in Volumes, NEW p \in MountPaths, NEW m \in 1..(n + 1), Is(B[m], v, p),
             \A k \in (m + 1)..(n + 1) : ~Goes(B[k], v, p)
      PROVE  EndsThere(L, 0, v, p)
  <2>1. CASE m = n + 1
    <3>1. Is(L[l], v, p)
      BY <2>1, <1>1, <1>7 DEF e
    <3>2. l \in After(L, 0) /\ After(L, l) = {}
      BY <1>1 DEF After
    <3>3. QED
      BY <3>1, <3>2 DEF EndsThere
  <2>2. CASE m # n + 1
    <3>1. /\ m \in 1..n /\ n + 1 \in (m + 1)..(n + 1)
          /\ \A k \in (m + 1)..n : k \in (m + 1)..(n + 1)
      BY <2>2
    <3>2. EndsThere(K, 0, v, p) /\ ~Goes(e, v, p)
      BY <3>1, <1>2, <1>7 DEF e
    <3>3. PICK j \in After(K, 0) : Is(K[j], v, p) /\ \A k \in After(K, j) : ~Goes(K[k], v, p)
      BY <3>2 DEF EndsThere
    <3>4. Is(L[j], v, p) /\ j \in After(L, 0)
      BY <3>3, <1>1 DEF After
    <3>5. \A k \in After(L, j) : ~Goes(L[k], v, p)
      BY <3>2, <3>3, <1>1 DEF After
    <3>6. QED
      BY <3>4, <3>5 DEF EndsThere
  <2>3. QED
    BY <2>1, <2>2
<1>8. QED
  BY <1>5, <1>6, <1>7 DEF Same, L, e

\* A report joins the batch.
LEMMA JoinsOne ==
  ASSUME NEW B \in Seq(AnyReport), Orderly(B), NEW n \in Nat, n + 1 \in DOMAIN B,
         NEW c, Joins(c, B, n)
  PROVE  Joins(CoalesceOne(c, B[n + 1]), B, n + 1)
<1> DEFINE e == B[n + 1]
           x == CoalescingKey(e)
           K == c.kept
           N == Len(K)
           g == CoalesceOne(c, e)
           LastOf(y, m, k) == CoalescingKey(B[m]) = y /\ \A l \in (m + 1)..k : CoalescingKey(B[l]) # y
<1>1. /\ BatchOK(c) /\ Same(K, B, n) /\ K \in Seq(AnyReport) /\ N \in Nat /\ DOMAIN K = 1..N
      /\ c = [kept |-> K, key |-> c.key, gone |-> c.gone]
      /\ \A y \in DOMAIN c.key : c.key[y] \in DOMAIN K
  BY DEF Joins, BatchOK, AnyReport
<1>2. e \in AnyReport /\ n + 1 \in 1..(n + 1) /\ DOMAIN B = 1..Len(B) /\ Len(B) \in Nat
  OBVIOUS
<1>3. BatchOK(g)
  BY <1>1, <1>2, CoalesceOneOK DEF AnyReport
<1>4. \A y \in DOMAIN c.key :
        /\ \E m \in 1..n : LastOf(y, m, n) /\ B[m].kind # "Disappeared" /\ K[c.key[y]] = B[m]
        /\ \A j \in DOMAIN K : j > c.key[y] => CoalescingKey(K[j]) # y
  BY DEF Joins
<1>5. \A y \in DOMAIN c.gone : \E m \in 1..n : LastOf(y, m, n) /\ B[m].kind = "Disappeared"
  BY DEF Joins
<1>6. ASSUME NEW m \in 1..n, LastOf(x, m, n)
      PROVE  /\ B[m].kind = "Disappeared" => e.kind # "Disappeared"
             /\ B[m].kind \in {"Appeared", "DescriptionChanged"} => e.path = B[m].path
  <2>1. m \in DOMAIN B /\ m < n + 1
    BY <1>2
  <2>2. \A k \in DOMAIN B : m < k /\ k < n + 1 => k \in (m + 1)..n
    BY <1>2
  <2>3. QED
    BY <2>1, <2>2, <1>6 DEF Orderly
<1>7. \A y : \A m \in 1..n : LastOf(y, m, n) /\ y # x => LastOf(y, m, n + 1)
  <2>1. \A m \in 1..n : \A l \in (m + 1)..(n + 1) : l \in (m + 1)..n \/ l = n + 1
    OBVIOUS
  <2>2. QED
    BY <2>1
<1>8. LastOf(x, n + 1, n + 1)
  <2>1. ((n + 1) + 1)..(n + 1) = {}
    OBVIOUS
  <2>2. QED
    BY <2>1
<1>9. \A m \in 1..n : m \in 1..(n + 1)
  OBVIOUS
<1> DEFINE KeyOK(h, y) ==
             /\ \E m \in 1..(n + 1) : LastOf(y, m, n + 1) /\ B[m].kind # "Disappeared" /\ h.kept[h.key[y]] = B[m]
             /\ \A j \in DOMAIN h.kept : j > h.key[y] => CoalescingKey(h.kept[j]) # y
           GoneOK(y) == \E m \in 1..(n + 1) : LastOf(y, m, n + 1) /\ B[m].kind = "Disappeared"
<1>10. ASSUME Same(g.kept, B, n + 1), \A y \in DOMAIN g.key : KeyOK(g, y), \A y \in DOMAIN g.gone : GoneOK(y)
       PROVE  Joins(g, B, n + 1)
  BY <1>3, <1>10 DEF Joins
<1>11. ASSUME NEW y \in DOMAIN c.gone, y # x PROVE GoneOK(y)
  BY <1>5, <1>7, <1>9, <1>11
<1> HIDE DEF LastOf, e, x, g, K, N
<1>12. CASE x \in DOMAIN c.key
  <2> DEFINE i == c.key[x]
             L == [K EXCEPT ![i] = e]
  <2>1. PICK m \in 1..n : LastOf(x, m, n) /\ B[m].kind # "Disappeared" /\ K[i] = B[m]
    BY <1>4, <1>12
  <2>2. i \in DOMAIN K /\ K[i] \in AnyReport /\ CoalescingKey(K[i]) = x
    BY <1>1, <1>12, <2>1 DEF LastOf
  <2> HIDE DEF i
  <2>3. K[i].kind # "Unavailable" => e.path = K[i].path
    BY <1>6, <2>1, <2>2, ReportKinds
  <2>4. \A j \in DOMAIN K : j > i => CoalescingKey(K[j]) # x
    BY <1>4, <1>12 DEF i
  <2>5. Same(L, B, n + 1)
    BY <1>1, <2>1, <2>2, <2>3, <2>4, SameReplaced DEF e, x
  <2>6. DOMAIN L = DOMAIN K /\ L[i] = e /\ \A j \in DOMAIN K : j # i => L[j] = K[j]
    BY <1>1, <2>2
  <2> HIDE DEF L
  <2>7. ASSUME NEW y \in DOMAIN c.key, y # x
        PROVE  /\ \E k \in 1..(n + 1) : LastOf(y, k, n + 1) /\ B[k].kind # "Disappeared" /\ L[c.key[y]] = B[k]
               /\ \A j \in DOMAIN L : j > c.key[y] => CoalescingKey(L[j]) # y
    <3>1. PICK k \in 1..n : LastOf(y, k, n) /\ B[k].kind # "Disappeared" /\ K[c.key[y]] = B[k]
      BY <1>4
    <3>2. c.key[y] # i
      BY <3>1, <2>2, <2>7 DEF LastOf
    <3>3. L[c.key[y]] = B[k]
      BY <3>1, <3>2, <2>6, <1>1
    <3>4. LastOf(y, k, n + 1)
      BY <3>1, <1>7, <2>7
    <3>5. \A j \in DOMAIN L : j > c.key[y] => CoalescingKey(L[j]) # y
      BY <2>6, <2>7, <1>4 DEF x
    <3>6. QED
      BY <3>1, <3>3, <3>4, <3>5, <1>9
  <2>8. CASE e.kind = "Disappeared"
    <3>1. g = [kept |-> L, key |-> Without(c.key, x), gone |-> With(c.gone, x, i)]
      BY <2>8, <1>12 DEF g, CoalesceOne, x, K, L, i
    <3>2. /\ g.kept = L /\ DOMAIN g.key = DOMAIN c.key \ {x} /\ DOMAIN g.gone = DOMAIN c.gone \cup {x}
          /\ \A y \in DOMAIN c.key : y # x => g.key[y] = c.key[y]
      BY <3>1 DEF With, Without, Restrict
    <3>3. \A y \in DOMAIN g.key : KeyOK(g, y)
      BY <2>7, <3>2
    <3>4. GoneOK(x)
      BY <1>2, <1>8, <2>8 DEF e
    <3>5. \A y \in DOMAIN g.gone : GoneOK(y)
      <4> HIDE DEF GoneOK
      <4>1. QED
        BY <3>2, <3>4, <1>11
    <3>6. QED
      BY <2>5, <3>2, <3>3, <3>5, <1>10 DEF g, e
  <2>9. CASE e.kind # "Disappeared"
    <3>1. g = [c EXCEPT !.kept = L]
      BY <2>9, <1>12 DEF g, CoalesceOne, x, K, L, i
    <3>2. g.kept = L /\ g.key = c.key /\ g.gone = c.gone
      BY <3>1, <1>1
    <3>3. KeyOK(g, x)
      <4>1. g.kept[g.key[x]] = B[n + 1]
        BY <3>2, <2>6 DEF i, e
      <4>2. \A j \in DOMAIN L : j > i => CoalescingKey(L[j]) # x
        BY <2>4, <2>6, <2>2, <1>1
      <4>3. QED
        BY <4>1, <4>2, <3>2, <2>9, <1>2, <1>8 DEF i, e
    <3>4. \A y \in DOMAIN g.key : KeyOK(g, y)
      BY <2>7, <3>2, <3>3
    <3>5. x \notin DOMAIN c.gone
      <4> SUFFICES ASSUME x \in DOMAIN c.gone PROVE FALSE
        OBVIOUS
      <4>1. PICK k \in 1..n : LastOf(x, k, n) /\ B[k].kind = "Disappeared"
        BY <1>5
      <4>2. ~(k < m) /\ ~(m < k)
        <5>1. k < m => m \in (k + 1)..n
          OBVIOUS
        <5>2. m < k => k \in (m + 1)..n
          OBVIOUS
        <5>3. QED
          BY <5>1, <5>2, <4>1, <2>1 DEF LastOf
      <4>3. k = m
        BY <4>2
      <4>4. QED
        BY <4>1, <4>3, <2>1
    <3>6. \A y \in DOMAIN g.gone : GoneOK(y)
      <4> HIDE DEF GoneOK
      <4>1. QED
        BY <3>2, <3>5, <1>11
    <3>7. QED
      BY <2>5, <3>2, <3>4, <3>6, <1>10 DEF g, e
  <2>10. QED
    BY <2>8, <2>9
<1>13. CASE x \notin DOMAIN c.key
  <2> DEFINE L == Append(K, e)
  <2>1. /\ DOMAIN L = DOMAIN K \cup {N + 1} /\ L[N + 1] = e
        /\ \A j \in DOMAIN K : L[j] = K[j] /\ j < N + 1
    BY <1>1 DEF N
  <2>2. Same(L, B, n + 1)
    BY <1>1, SameAppended DEF e
  <2> HIDE DEF L
  <2>3. ASSUME NEW y \in DOMAIN c.key
        PROVE  /\ \E k \in 1..(n + 1) : LastOf(y, k, n + 1) /\ B[k].kind # "Disappeared" /\ L[c.key[y]] = B[k]
               /\ \A j \in DOMAIN L : j > c.key[y] => CoalescingKey(L[j]) # y
    <3>1. PICK k \in 1..n : LastOf(y, k, n) /\ B[k].kind # "Disappeared" /\ K[c.key[y]] = B[k]
      BY <1>4
    <3>2. L[c.key[y]] = B[k] /\ y # x
      BY <3>1, <2>1, <1>1, <1>13
    <3>3. LastOf(y, k, n + 1)
      BY <3>1, <3>2, <1>7
    <3>4. \A j \in DOMAIN L : j > c.key[y] => CoalescingKey(L[j]) # y
      BY <2>1, <3>2, <1>4 DEF x
    <3>5. QED
      BY <3>1, <3>2, <3>3, <3>4, <1>9
  <2>4. CASE e.kind = "Disappeared" /\ x \in DOMAIN c.gone
    <3>1. PICK k \in 1..n : LastOf(x, k, n) /\ B[k].kind = "Disappeared"
      BY <1>5, <2>4
    <3>2. QED
      BY <3>1, <2>4, <1>6
  <2>5. CASE e.kind = "Disappeared" /\ x \notin DOMAIN c.gone
    <3>1. g = [kept |-> L, key |-> c.key, gone |-> With(c.gone, x, N + 1)]
      BY <2>5, <1>13 DEF g, CoalesceOne, x, K, L, N
    <3>2. g.kept = L /\ g.key = c.key /\ DOMAIN g.gone = DOMAIN c.gone \cup {x}
      BY <3>1 DEF With
    <3>3. \A y \in DOMAIN g.key : KeyOK(g, y)
      BY <2>3, <3>2
    <3>4. GoneOK(x)
      BY <1>2, <1>8, <2>5 DEF e
    <3>5. \A y \in DOMAIN g.gone : GoneOK(y)
      <4> HIDE DEF GoneOK
      <4>1. QED
        BY <3>2, <3>4, <1>11
    <3>6. QED
      BY <2>2, <3>2, <3>3, <3>5, <1>10 DEF g, e
  <2>6. CASE e.kind # "Disappeared"
    <3>1. g = [kept |-> L, key |-> With(c.key, x, N + 1), gone |-> Without(c.gone, x)]
      BY <2>6, <1>13 DEF g, CoalesceOne, x, K, L, N
    <3>2. /\ g.kept = L /\ DOMAIN g.key = DOMAIN c.key \cup {x} /\ DOMAIN g.gone = DOMAIN c.gone \ {x}
          /\ g.key[x] = N + 1 /\ \A y \in DOMAIN c.key : g.key[y] = c.key[y]
      BY <3>1, <1>13 DEF With, Without, Restrict
    <3>3. KeyOK(g, x)
      <4>1. g.kept[g.key[x]] = B[n + 1]
        BY <3>2, <2>1 DEF e
      <4>2. \A j \in DOMAIN L : ~(j > N + 1)
        BY <2>1, <1>1
      <4>3. QED
        BY <4>1, <4>2, <3>2, <2>6, <1>2, <1>8 DEF e
    <3>4. \A y \in DOMAIN g.key : KeyOK(g, y)
      BY <2>3, <3>2, <3>3
    <3>5. \A y \in DOMAIN g.gone : GoneOK(y)
      <4> HIDE DEF GoneOK
      <4>1. QED
        BY <3>2, <1>11
    <3>6. QED
      BY <2>2, <3>2, <3>4, <3>5, <1>10 DEF g, e
  <2>7. QED
    BY <2>4, <2>5, <2>6
<1>14. QED
  BY <1>12, <1>13

\* What coalescing leaves of an orderly batch says the same in the end.
LEMMA CoalescedSame ==
  ASSUME NEW B \in Seq(AnyReport), Orderly(B)
  PROVE  Same(Coalesced(B), B, Len(B))
<1> DEFINE f == Joined(B)
           N == Len(B)
<1>1. N \in Nat /\ DOMAIN B = 1..N
  OBVIOUS
<1>2. JoinedUpTo(f, B, N)
  BY <1>1, JoinedTurns
<1> HIDE DEF f, N
<1>3. \A n \in 0..N : Joins(f[n], B, n)
  <2> DEFINE T == {m \in 0..N : ~Joins(f[m], B, m)}
  <2> SUFFICES ASSUME T # {} PROVE FALSE
    OBVIOUS
  <2>1. PICK m \in T : \A k \in T : m <= k
    <3>1. T \subseteq Nat
      BY <1>1
    <3> HIDE DEF T
    <3>2. QED
      BY <3>1, LeastNat
  <2>2. m \in 0..N /\ ~Joins(f[m], B, m)
    OBVIOUS
  <2>3. CASE m = 0
    <3>1. f[0] = [kept |-> <<>>, key |-> <<>>, gone |-> <<>>]
      BY <1>1, <1>2 DEF JoinedUpTo
    <3>2. DOMAIN <<>> = {} /\ 1..0 = {}
      OBVIOUS
    <3>3. BatchOK(f[0])
      BY <3>1, <3>2 DEF BatchOK
    <3>4. Same(<<>>, B, 0)
      BY <3>2 DEF Same
    <3>5. Joins(f[0], B, 0)
      BY <3>1, <3>2, <3>3, <3>4 DEF Joins
    <3>6. QED
      BY <2>2, <2>3, <3>5
  <2>4. CASE m # 0
    <3>1. m - 1 \in 0..N /\ m - 1 \in Nat /\ m - 1 \notin T /\ (m - 1) + 1 = m /\ m \in DOMAIN B
      BY <2>1, <2>2, <2>4, <1>1
    <3>2. Joins(f[m - 1], B, m - 1)
      BY <3>1
    <3>3. f[m] = CoalesceOne(f[m - 1], B[m])
      BY <2>2, <2>4, <1>1, <1>2 DEF JoinedUpTo
    <3>4. Joins(CoalesceOne(f[m - 1], B[(m - 1) + 1]), B, (m - 1) + 1)
      <4> HIDE DEF T
      <4>1. (m - 1) + 1 \in DOMAIN B
        BY <3>1
      <4>2. QED
        BY <4>1, <3>1, <3>2, JoinsOne
    <3>5. Joins(f[m], B, m)
      BY <3>1, <3>3, <3>4
    <3>6. QED
      BY <2>2, <3>5
  <2>5. QED
    BY <2>3, <2>4
<1>4. Joins(f[N], B, N)
  BY <1>1, <1>3
<1>5. Coalesced(B) = f[N].kept
  BY DEF Coalesced, f, N
<1>6. QED
  BY <1>4, <1>5 DEF Joins, N

-----------------------------------------------------------------------------
(* Draining the reports *)

\* The last report of a volume says where it is.
Latest(Q) ==
  \A j \in DOMAIN Q :
    Q[j] \in Report /\ (\A k \in After(Q, j) : CoalescingKey(Q[k]) # Q[j].id)
      => mounted[Q[j].id] = IF Q[j].kind = "Disappeared" THEN NoPath ELSE Q[j].path

\* While it is calm, what waits explains the difference.
CalmInv == PathsListed(state) /\ Follows(state, reports, 0) /\ Orderly(reports) /\ Latest(reports)

\* The reports that wait may be coalesced: what is left explains the difference.
LEMMA CoalescedFollows ==
  ASSUME mounted \in [Volumes -> MountPaths \cup {NoPath}],
         NEW B \in Seq(AnyReport), NEW R \in Seq(AnyReport), NEW E \in Seq(AnyReport),
         Same(E, B, Len(B)), NEW s, Agree(s), Follows(s, B \o R, 0)
  PROVE  Follows(s, E \o R, 0)
<1> DEFINE P == B \o R
           Q == E \o R
           b == Len(B)
           l == Len(E)
           r == Len(R)
<1>1. /\ b \in Nat /\ l \in Nat /\ r \in Nat
      /\ DOMAIN B = 1..b /\ DOMAIN E = 1..l /\ DOMAIN R = 1..r
      /\ DOMAIN P = 1..(b + r) /\ DOMAIN Q = 1..(l + r)
      /\ \A j \in 1..b : P[j] = B[j]
      /\ \A j \in 1..r : P[b + j] = R[j]
      /\ \A j \in 1..l : Q[j] = E[j]
      /\ \A j \in 1..r : Q[l + j] = R[j]
  <2>1. b \in Nat /\ l \in Nat /\ r \in Nat
    OBVIOUS
  <2>2. /\ DOMAIN P = 1..(b + r) /\ \A j \in 1..b : P[j] = B[j]
        /\ \A j \in 1..r : P[b + j] = R[j]
    OBVIOUS
  <2>3. /\ DOMAIN Q = 1..(l + r) /\ \A j \in 1..l : Q[j] = E[j]
        /\ \A j \in 1..r : Q[l + j] = R[j]
    OBVIOUS
  <2>4. QED
    BY <2>1, <2>2, <2>3
<1>2. Sound(s, P, 0) /\ Complete(s, P, 0) /\ OwnPaths(P, 0)
  BY DEF Follows
<1>3. /\ \A j \in 1..l : \E m \in 1..b : E[j] = B[m]
      /\ \A m \in 1..b : B[m].kind = "Disappeared" => \E j \in 1..l : E[j] = B[m]
      /\ \A v \in Volumes, p \in MountPaths :
           (\E m \in 1..b : Is(B[m], v, p) /\ \A k \in (m + 1)..b : ~Goes(B[k], v, p))
             => EndsThere(E, 0, v, p)
  BY <1>1 DEF Same
<1> HIDE DEF P, Q, b, l, r
<1>4. /\ After(P, 0) = 1..(b + r) /\ After(Q, 0) = 1..(l + r)
      /\ \A j \in 1..(b + r) : j \in 1..b \/ (j - b \in 1..r /\ P[j] = R[j - b])
      /\ \A j \in 1..(l + r) : j \in 1..l \/ (j - l \in 1..r /\ Q[j] = R[j - l])
      /\ \A j \in 1..r : b + j \in 1..(b + r) /\ l + j \in 1..(l + r)
      /\ \A j \in 1..b : j \in 1..(b + r)
      /\ \A j \in 1..l : j \in 1..(l + r)
  <2>1. ASSUME NEW j \in 1..(b + r), j \notin 1..b PROVE j - b \in 1..r /\ P[j] = R[j - b]
    <3>1. j - b \in 1..r /\ b + (j - b) = j
      BY <1>1, <2>1
    <3>2. P[b + (j - b)] = R[j - b]
      BY <3>1, <1>1
    <3>3. QED
      BY <3>1, <3>2
  <2>2. ASSUME NEW j \in 1..(l + r), j \notin 1..l PROVE j - l \in 1..r /\ Q[j] = R[j - l]
    <3>1. j - l \in 1..r /\ l + (j - l) = j
      BY <1>1, <2>2
    <3>2. Q[l + (j - l)] = R[j - l]
      BY <3>1, <1>1
    <3>3. QED
      BY <3>1, <3>2
  <2>3. After(P, 0) = 1..(b + r) /\ After(Q, 0) = 1..(l + r)
    BY <1>1 DEF After
  <2>4. QED
    <3>1. /\ \A j \in 1..r : b + j \in 1..(b + r) /\ l + j \in 1..(l + r)
          /\ \A j \in 1..b : j \in 1..(b + r)
          /\ \A j \in 1..l : j \in 1..(l + r)
      BY <1>1
    <3>2. QED
      BY <2>1, <2>2, <2>3, <3>1
\* Every report of Q is one of P.
<1>5. \A j \in After(Q, 0) : \E m \in After(P, 0) : Q[j] = P[m]
  <2> SUFFICES ASSUME NEW j \in 1..(l + r) PROVE \E m \in 1..(b + r) : Q[j] = P[m]
    BY <1>4
  <2>1. CASE j \in 1..l
    BY <2>1, <1>1, <1>3, <1>4
  <2>2. CASE j \notin 1..l
    <3>1. j - l \in 1..r /\ Q[j] = R[j - l]
      BY <2>2, <1>4
    <3>2. P[b + (j - l)] = R[j - l] /\ b + (j - l) \in 1..(b + r)
      BY <3>1, <1>1, <1>4
    <3>3. QED
      BY <3>1, <3>2
  <2>3. QED
    BY <2>1, <2>2
\* Every report that a volume went is kept.
<1>6. \A m \in After(P, 0) : P[m].kind = "Disappeared" => \E j \in After(Q, 0) : Q[j] = P[m]
  <2> SUFFICES ASSUME NEW m \in 1..(b + r), P[m].kind = "Disappeared"
               PROVE  \E j \in 1..(l + r) : Q[j] = P[m]
    BY <1>4
  <2>1. CASE m \in 1..b
    <3>1. P[m] = B[m]
      BY <2>1, <1>1
    <3>2. PICK j \in 1..l : E[j] = B[m]
      BY <2>1, <3>1, <1>3
    <3>3. QED
      BY <3>1, <3>2, <1>1, <1>4
  <2>2. CASE m \notin 1..b
    <3>1. m - b \in 1..r /\ P[m] = R[m - b]
      BY <2>2, <1>4
    <3>2. Q[l + (m - b)] = R[m - b] /\ l + (m - b) \in 1..(l + r)
      BY <3>1, <1>1, <1>4
    <3>3. QED
      BY <3>1, <3>2
  <2>3. QED
    BY <2>1, <2>2
<1>7. OwnPaths(Q, 0)
  BY <1>2, <1>5 DEF OwnPaths
<1>8. Sound(s, Q, 0)
  <2> SUFFICES ASSUME NEW d \in Listed(s), mounted[d.id] # d.path
               PROVE  \E j \in After(Q, 0) : Goes(Q[j], d.id, d.path)
    BY DEF Sound
  <2>1. PICK m \in After(P, 0) : Goes(P[m], d.id, d.path)
    BY <1>2 DEF Sound
  <2>2. PICK j \in After(Q, 0) : Q[j] = P[m]
    BY <2>1, <1>6 DEF Goes
  <2>3. QED
    BY <2>1, <2>2
<1>9. Complete(s, Q, 0)
  <2> SUFFICES ASSUME NEW v \in Volumes, mounted[v] # NoPath, ~EndsThere(Q, 0, v, mounted[v])
               PROVE  /\ [id |-> v, path |-> mounted[v]] \in Listed(s)
                      /\ \A j \in After(Q, 0) : ~Goes(Q[j], v, mounted[v])
    BY DEF Complete
  <2> DEFINE p == mounted[v]
  <2>1. p \in MountPaths
    OBVIOUS
  <2> HIDE DEF p
  <2>2. ~EndsThere(P, 0, v, p)
    <3> SUFFICES ASSUME NEW m \in After(P, 0), Is(P[m], v, p), \A k \in After(P, m) : ~Goes(P[k], v, p)
                 PROVE  EndsThere(Q, 0, v, p)
      BY DEF EndsThere, p
    <3>0. m \in 1..(b + r) /\ \A k \in 1..(b + r) : k > m => ~Goes(P[k], v, p)
      BY <1>1, <1>4 DEF After
    <3>1. CASE m \in 1..b
      <4>1. Is(B[m], v, p)
        BY <3>1, <1>1
      <4>2. \A k \in (m + 1)..b : ~Goes(B[k], v, p)
        <5> TAKE k \in (m + 1)..b
        <5>1. k \in 1..b /\ k \in 1..(b + r) /\ k > m
          BY <3>1, <1>1
        <5>2. QED
          BY <5>1, <3>0, <1>1
      <4>3. EndsThere(E, 0, v, p)
        BY <4>1, <4>2, <3>1, <2>1, <1>3
      <4>4. PICK j \in After(E, 0) : Is(E[j], v, p) /\ \A k \in After(E, j) : ~Goes(E[k], v, p)
        BY <4>3 DEF EndsThere
      <4>5. j \in 1..l /\ \A k \in 1..l : k > j => ~Goes(E[k], v, p)
        BY <4>4, <1>1 DEF After
      <4>6. Is(Q[j], v, p) /\ j \in After(Q, 0)
        BY <4>4, <4>5, <1>1, <1>4
      <4>7. \A k \in After(Q, j) : ~Goes(Q[k], v, p)
        <5> SUFFICES ASSUME NEW k \in 1..(l + r), k > j PROVE ~Goes(Q[k], v, p)
          BY <1>1 DEF After
        <5>1. CASE k \in 1..l
          BY <5>1, <4>5, <1>1
        <5>2. CASE k \notin 1..l
          <6>1. k - l \in 1..r /\ Q[k] = R[k - l]
            BY <5>2, <1>4
          <6>2. P[b + (k - l)] = R[k - l] /\ b + (k - l) \in 1..(b + r) /\ b + (k - l) > m
            BY <6>1, <1>1, <1>4, <3>1
          <6>3. QED
            BY <6>1, <6>2, <3>0
        <5>3. QED
          BY <5>1, <5>2
      <4>8. QED
        BY <4>6, <4>7 DEF EndsThere
    <3>2. CASE m \notin 1..b
      <4> DEFINE j == l + (m - b)
      <4>1. m - b \in 1..r /\ P[m] = R[m - b]
        BY <3>0, <3>2, <1>4
      <4>2. Q[j] = R[m - b] /\ j \in 1..(l + r) /\ j > l
        BY <4>1, <1>1, <1>4
      <4>3. \A k \in After(Q, j) : ~Goes(Q[k], v, p)
        <5> SUFFICES ASSUME NEW k \in 1..(l + r), k > j PROVE ~Goes(Q[k], v, p)
          BY <1>1 DEF After
        <5>1. k \notin 1..l
          BY <4>2, <1>1
        <5>2. k - l \in 1..r /\ Q[k] = R[k - l]
          BY <5>1, <1>4
        <5>3. P[b + (k - l)] = R[k - l] /\ b + (k - l) \in 1..(b + r) /\ b + (k - l) > m
          BY <5>2, <1>1, <1>4, <3>0
        <5>4. QED
          BY <5>2, <5>3, <3>0
      <4>4. Is(Q[j], v, p) /\ j \in After(Q, 0)
        BY <4>1, <4>2, <1>4
      <4> HIDE DEF j
      <4>5. QED
        BY <4>3, <4>4 DEF EndsThere
    <3>3. QED
      BY <3>1, <3>2
  <2>3. /\ [id |-> v, path |-> mounted[v]] \in Listed(s)
        /\ \A j \in After(P, 0) : ~Goes(P[j], v, p)
    BY <2>2, <1>2 DEF Complete, p
  <2>4. QED
    BY <2>3, <1>5 DEF p
<1>10. QED
  BY <1>7, <1>8, <1>9 DEF Follows, Q

\* The loop over the coalesced reports.
LEMMA StagedFollows ==
  ASSUME MountedApart, mounted \in [Volumes -> MountPaths \cup {NoPath}], Agree(state), PathsListed(state),
         NEW E \in Seq(AnyReport), NEW R \in Seq(AnyReport), Follows(state, E \o R, 0)
  PROVE  /\ PathsListed(Staged(E)[Len(E)])
         /\ Follows(Staged(E)[Len(E)], E \o R, Len(E))
<1> DEFINE f == Staged(E)
           N == Len(E)
           Q == E \o R
           Good(n) == Agree(f[n]) /\ PathsListed(f[n]) /\ Follows(f[n], Q, n)
<1>1. /\ N \in Nat /\ Q \in Seq(AnyReport)
      /\ \A m \in 1..N : m \in DOMAIN Q /\ Q[m] = E[m]
  OBVIOUS
<1>2. StagedUpTo(f, E, N)
  BY <1>1, StagedTurns
<1> HIDE DEF f, N, Q
<1>3. \A n \in 0..N : Good(n)
  <2> DEFINE T == {m \in 0..N : ~Good(m)}
  <2> SUFFICES ASSUME T # {} PROVE FALSE
    OBVIOUS
  <2>1. PICK m \in T : \A k \in T : m <= k
    <3>1. T \subseteq Nat
      BY <1>1
    <3> HIDE DEF T
    <3>2. QED
      BY <3>1, LeastNat
  <2>2. m \in 0..N /\ ~Good(m)
    OBVIOUS
  <2>3. CASE m = 0
    <3>1. f[0] = state
      BY <1>1, <1>2 DEF StagedUpTo
    <3>2. Good(0)
      BY <3>1 DEF Q
    <3>3. QED
      BY <2>2, <2>3, <3>2
  <2>4. CASE m # 0
    <3>1. m - 1 \in 0..N /\ m - 1 \in Nat /\ m - 1 \notin T /\ (m - 1) + 1 = m /\ m \in 1..N
      BY <1>1, <2>1, <2>2, <2>4
    <3>2. Agree(f[m - 1]) /\ PathsListed(f[m - 1]) /\ Follows(f[m - 1], Q, m - 1)
      BY <3>1
    <3>3. f[m] = apply_parts_transition(f[m - 1], Q[m])
      BY <2>2, <2>4, <3>1, <1>1, <1>2 DEF StagedUpTo
    <3> HIDE DEF T
    <3>4. (m - 1) + 1 \in DOMAIN Q /\ Q[(m - 1) + 1] = Q[m]
      BY <3>1, <1>1
    <3>5. Agree(f[m])
      BY <3>2, <3>3, ApplyAgrees
    <3>6. PathsListed(f[m]) /\ Follows(f[m], Q, (m - 1) + 1)
      BY <3>1, <3>2, <3>3, <3>4, <1>1, TurnFollows
    <3>7. Good(m)
      BY <3>1, <3>5, <3>6
    <3>8. QED
      BY <2>2, <3>7
  <2>5. QED
    BY <2>3, <2>4
<1>4. Good(N)
  BY <1>1, <1>3
<1>5. QED
  BY <1>4 DEF f, N, Q

\* When the coalesced reports are applied, those that were not taken are left.
LEMMA RestFollows ==
  ASSUME NEW E \in Seq(AnyReport), NEW R \in Seq(AnyReport), NEW s, Follows(s, E \o R, Len(E))
  PROVE  Follows(s, R, 0)
<1> DEFINE Q == E \o R
           l == Len(E)
           r == Len(R)
<1>1. /\ l \in Nat /\ r \in Nat /\ DOMAIN R = 1..r /\ DOMAIN Q = 1..(l + r)
      /\ \A j \in 1..r : Q[l + j] = R[j]
  OBVIOUS
<1>2. Sound(s, Q, l) /\ Complete(s, Q, l) /\ OwnPaths(Q, l)
  BY DEF Follows
<1> HIDE DEF Q, l, r
<1>3. \A j \in After(R, 0) : l + j \in After(Q, l) /\ Q[l + j] = R[j]
  BY <1>1 DEF After
<1>4. \A k \in After(Q, l) : k - l \in After(R, 0) /\ Q[k] = R[k - l]
  <2> TAKE k \in After(Q, l)
  <2>1. k \in 1..(l + r) /\ k > l
    BY <1>1 DEF After
  <2>2. k - l \in 1..r /\ l + (k - l) = k
    BY <2>1, <1>1
  <2>3. QED
    BY <2>2, <1>1 DEF After
<1>5. ASSUME NEW v, NEW p, EndsThere(Q, l, v, p)
      PROVE  EndsThere(R, 0, v, p)
  <2>1. PICK j \in After(Q, l) : Is(Q[j], v, p) /\ \A k \in After(Q, j) : ~Goes(Q[k], v, p)
    BY <1>5 DEF EndsThere
  <2>2. j - l \in After(R, 0) /\ Is(R[j - l], v, p)
    BY <2>1, <1>4
  <2>3. \A k \in After(R, j - l) : ~Goes(R[k], v, p)
    <3> TAKE k \in After(R, j - l)
    <3>1. j \in 1..(l + r) /\ j > l /\ k \in 1..r /\ k > j - l
      BY <1>1 DEF After
    <3>2. l + k \in After(Q, j) /\ Q[l + k] = R[k]
      BY <3>1, <1>1 DEF After
    <3>3. QED
      BY <3>2, <2>1
  <2>4. QED
    BY <2>2, <2>3 DEF EndsThere
<1>6. Sound(s, R, 0)
  BY <1>2, <1>4 DEF Sound
<1>7. Complete(s, R, 0)
  BY <1>2, <1>3, <1>5 DEF Complete
<1>8. OwnPaths(R, 0)
  BY <1>2, <1>3 DEF OwnPaths
<1>9. QED
  BY <1>6, <1>7, <1>8 DEF Follows

\* Both parts of an orderly sequence of reports are orderly.
LEMMA OrderlyParts ==
  ASSUME NEW B \in Seq(AnyReport), NEW R \in Seq(AnyReport), Orderly(B \o R)
  PROVE  Orderly(B) /\ Orderly(R) /\ (Latest(B \o R) => Latest(R))
<1> DEFINE Q == B \o R
           b == Len(B)
           r == Len(R)
<1>1. /\ b \in Nat /\ r \in Nat /\ DOMAIN B = 1..b /\ DOMAIN R = 1..r /\ DOMAIN Q = 1..(b + r)
      /\ \A j \in 1..b : Q[j] = B[j]
      /\ \A j \in 1..r : Q[b + j] = R[j]
  OBVIOUS
<1> HIDE DEF Q, b, r
<1>2. \A k \in 1..(b + r) : k > b => k - b \in 1..r /\ Q[k] = R[k - b]
  <2> TAKE k \in 1..(b + r)
  <2> HAVE k > b
  <2>1. k - b \in 1..r /\ b + (k - b) = k
    BY <1>1
  <2>2. QED
    BY <2>1, <1>1
<1>3. Orderly(B)
  <2> SUFFICES ASSUME NEW j \in 1..b, NEW k \in 1..b, j < k, CoalescingKey(B[j]) = CoalescingKey(B[k]),
                      \A m \in 1..b : j < m /\ m < k => CoalescingKey(B[m]) # CoalescingKey(B[j])
               PROVE  /\ B[j].kind = "Disappeared" => B[k].kind # "Disappeared"
                      /\ B[j].kind \in {"Appeared", "DescriptionChanged"} => B[k].path = B[j].path
    BY <1>1 DEF Orderly
  <2>1. j \in DOMAIN Q /\ k \in DOMAIN Q /\ Q[j] = B[j] /\ Q[k] = B[k]
    BY <1>1
  <2>2. \A m \in DOMAIN Q : j < m /\ m < k => m \in 1..b /\ Q[m] = B[m]
    BY <1>1
  <2>3. QED
    BY <2>1, <2>2 DEF Orderly, Q
<1>4. Orderly(R)
  <2> SUFFICES ASSUME NEW j \in 1..r, NEW k \in 1..r, j < k, CoalescingKey(R[j]) = CoalescingKey(R[k]),
                      \A m \in 1..r : j < m /\ m < k => CoalescingKey(R[m]) # CoalescingKey(R[j])
               PROVE  /\ R[j].kind = "Disappeared" => R[k].kind # "Disappeared"
                      /\ R[j].kind \in {"Appeared", "DescriptionChanged"} => R[k].path = R[j].path
    BY <1>1 DEF Orderly
  <2>1. /\ b + j \in DOMAIN Q /\ b + k \in DOMAIN Q /\ Q[b + j] = R[j] /\ Q[b + k] = R[k]
        /\ b + j < b + k
    BY <1>1
  <2>2. \A m \in DOMAIN Q : b + j < m /\ m < b + k =>
          m - b \in 1..r /\ j < m - b /\ m - b < k /\ Q[m] = R[m - b]
    <3> TAKE m \in DOMAIN Q
    <3> HAVE b + j < m /\ m < b + k
    <3>1. m \in 1..(b + r) /\ m > b /\ j < m - b /\ m - b < k
      BY <1>1
    <3>2. QED
      BY <3>1, <1>2
  <2>3. \A m \in DOMAIN Q : b + j < m /\ m < b + k => CoalescingKey(Q[m]) # CoalescingKey(Q[b + j])
    <3> TAKE m \in DOMAIN Q
    <3> HAVE b + j < m /\ m < b + k
    <3>1. m - b \in 1..r /\ j < m - b /\ m - b < k /\ Q[m] = R[m - b]
      BY <2>2
    <3>2. CoalescingKey(R[m - b]) # CoalescingKey(R[j])
      BY <3>1
    <3>3. QED
      BY <2>1, <3>1, <3>2
  <2>4. CoalescingKey(Q[b + j]) = CoalescingKey(Q[b + k])
    BY <2>1
  <2>5. Orderly(Q)
    BY DEF Q
  <2>6. QED
    BY <2>1, <2>3, <2>4, <2>5 DEF Orderly
<1>5. ASSUME Latest(Q) PROVE Latest(R)
  <2> SUFFICES ASSUME NEW j \in 1..r, R[j] \in Report,
                      \A k \in After(R, j) : CoalescingKey(R[k]) # R[j].id
               PROVE  mounted[R[j].id] = IF R[j].kind = "Disappeared" THEN NoPath ELSE R[j].path
    BY <1>1 DEF Latest
  <2>1. b + j \in DOMAIN Q /\ Q[b + j] = R[j]
    BY <1>1
  <2>2. \A k \in After(Q, b + j) : k - b \in After(R, j) /\ Q[k] = R[k - b]
    <3> TAKE k \in After(Q, b + j)
    <3>1. k \in 1..(b + r) /\ k > b + j
      BY <1>1 DEF After
    <3>2. k > b /\ k - b > j
      BY <3>1, <1>1
    <3>3. QED
      BY <3>1, <3>2, <1>1, <1>2 DEF After
  <2>3. QED
    BY <2>1, <2>2, <1>5 DEF Latest
<1>6. QED
  BY <1>3, <1>4, <1>5 DEF Q

\* A report that is added explains what changed with it.
LEMMA AddedReport ==
  ASSUME mounted \in [Volumes -> MountPaths \cup {NoPath}],
         mounted' \in [Volumes -> MountPaths \cup {NoPath}],
         reports \in Seq(AnyReport), Agree(state), CalmInv,
         NEW e \in AnyReport, reports' = Append(reports, e), state' = state,
         \A w \in Volumes : mounted'[w] = mounted[w] \/ (e \in Report /\ w = e.id),
         e \in Report => mounted'[e.id] = IF e.kind = "Disappeared" THEN NoPath ELSE e.path,
         e \in Report /\ e.kind = "Disappeared" => mounted[e.id] = e.path,
         e \in Report /\ e.kind # "Disappeared" => mounted[e.id] \in {NoPath, e.path},
         e \in Report => /\ \A i \in DOMAIN reports :
                              reports[i] \in Report /\ reports[i].path = e.path => reports[i].id = e.id
                         /\ \A w \in Volumes : mounted'[w] = e.path => w = e.id
  PROVE  CalmInv'
<1> DEFINE Q == reports
           P == Append(Q, e)
           n == Len(Q) + 1
           m == mounted'
<1>1. /\ n \in Nat /\ DOMAIN Q = 1..(n - 1) /\ DOMAIN P = 1..n /\ P[n] = e
      /\ \A j \in 1..(n - 1) : P[j] = Q[j] /\ Q[j] \in AnyReport
  OBVIOUS
<1>2. Sound(state, Q, 0) /\ Complete(state, Q, 0) /\ OwnPaths(Q, 0) /\ Orderly(Q) /\ Latest(Q)
      /\ PathsListed(state)
  BY DEF CalmInv, Follows
<1>3. /\ \A x \in AnyReport : x \in Report => x.id \in Volumes /\ x.path \in MountPaths /\ x.path # NoPath
      /\ \A x \in AnyReport : x \in Report => CoalescingKey(x) = x.id /\ x.id # NoPath
      /\ \A x \in AnyReport : x \notin Report => CoalescingKey(x) = NoPath /\ x.kind = "Unavailable"
      /\ \A x \in AnyReport : x.kind \in {"Appeared", "DescriptionChanged", "Disappeared"} => x \in Report
      /\ \A x \in AnyReport : x.kind = "Disappeared" => x \in Report
      /\ \A x \in AnyReport : x \in Report => x.kind \in {"Appeared", "DescriptionChanged", "Disappeared"}
  BY VolumesAssumption DEF AnyReport, Report, Unavailable, CoalescingKey
<1>4. \A d \in Listed(state) : d \in Descriptor /\ d.id \in Volumes /\ d.path \in MountPaths /\ d.path # NoPath
  <2>1. \A d \in Descriptor : d.id \in Volumes /\ d.path \in MountPaths /\ d.path # NoPath
    BY VolumesAssumption DEF Descriptor
  <2>2. state.volumes \in Seq(Descriptor)
    BY DEF Agree
  <2>3. QED
    BY <2>1, <2>2 DEF Listed, Range
<1>5. /\ After(P, 0) = 1..n /\ After(Q, 0) = 1..(n - 1)
      /\ \A j \in 1..(n - 1) : After(P, j) = After(Q, j) \cup {n}
      /\ After(P, n) = {} /\ n \in After(P, 0)
  BY <1>1 DEF After
<1> HIDE DEF P, n
<1>6. Orderly(P)
  <2> SUFFICES ASSUME NEW j \in DOMAIN P, NEW k \in DOMAIN P, j < k,
                      CoalescingKey(P[j]) = CoalescingKey(P[k]),
                      \A i \in DOMAIN P : j < i /\ i < k => CoalescingKey(P[i]) # CoalescingKey(P[j])
               PROVE  /\ P[j].kind = "Disappeared" => P[k].kind # "Disappeared"
                      /\ P[j].kind \in {"Appeared", "DescriptionChanged"} => P[k].path = P[j].path
    BY DEF Orderly
  <2>1. j \in 1..(n - 1) /\ P[j] = Q[j] /\ Q[j] \in AnyReport
    BY <1>1
  <2>2. CASE k \in 1..(n - 1)
    <3>1. P[k] = Q[k]
      BY <1>1, <2>2
    <3>2. \A i \in 1..(n - 1) : j < i /\ i < k => CoalescingKey(Q[i]) # CoalescingKey(Q[j])
      BY <1>1, <2>1
    <3>3. QED
      BY <2>1, <2>2, <3>1, <3>2, <1>1, <1>2 DEF Orderly
  <2>3. CASE k = n
    <3>1. P[k] = e /\ CoalescingKey(Q[j]) = CoalescingKey(e)
      BY <1>1, <2>1, <2>3
    <3>2. CASE e \notin Report
      <4>1. Q[j] \notin Report
        BY <3>1, <3>2, <2>1, <1>3
      <4>2. QED
        BY <4>1, <2>1, <1>3
    <3>3. CASE e \in Report
      <4>1. Q[j] \in Report /\ Q[j].id = e.id
        BY <3>1, <3>3, <2>1, <1>3
      <4>2. \A i \in After(Q, j) : CoalescingKey(Q[i]) # Q[j].id
        <5> TAKE i \in After(Q, j)
        <5>1. i \in 1..(n - 1) /\ j < i /\ i < k /\ i \in 1..n
          BY <1>1, <2>3 DEF After
        <5>2. CoalescingKey(P[i]) # CoalescingKey(P[j])
          BY <5>1, <1>1
        <5>3. QED
          BY <5>1, <5>2, <1>1, <2>1, <4>1, <1>3
      <4>3. mounted[e.id] = IF Q[j].kind = "Disappeared" THEN NoPath ELSE Q[j].path
        BY <4>1, <4>2, <1>1, <1>2, <2>1 DEF Latest
      <4>4. Q[j].path # NoPath /\ e.path # NoPath
        BY <1>3, <2>1, <3>3, <4>1
      <4>5. QED
        BY <4>3, <4>4, <3>1, <3>3, <2>1
    <3>4. QED
      BY <3>2, <3>3
  <2>4. QED
    BY <2>2, <2>3, <1>1
<1>7. ASSUME NEW j \in 1..n, P[j] \in Report, \A k \in After(P, j) : CoalescingKey(P[k]) # P[j].id
      PROVE  m[P[j].id] = IF P[j].kind = "Disappeared" THEN NoPath ELSE P[j].path
  <2>1. CASE j = n
    BY <2>1, <1>1, <1>7
  <2>2. CASE j \in 1..(n - 1)
    <3>1. P[j] = Q[j] /\ Q[j] \in AnyReport /\ n \in After(P, j)
      BY <1>1, <1>5, <2>2
    <3>2. CoalescingKey(e) # Q[j].id
      BY <3>1, <1>7, <1>1
    <3>3. m[Q[j].id] = mounted[Q[j].id]
      BY <3>1, <3>2, <1>3, <1>7
    <3>4. \A k \in After(Q, j) : CoalescingKey(Q[k]) # Q[j].id
      <4> TAKE k \in After(Q, j)
      <4>1. k \in After(P, j) /\ P[k] = Q[k]
        BY <1>1, <1>5, <2>2 DEF After
      <4>2. QED
        BY <4>1, <3>1, <1>7
    <3>5. QED
      BY <3>1, <3>3, <3>4, <1>1, <1>2, <1>7, <2>2 DEF Latest
  <2>3. QED
    BY <2>1, <2>2, <1>1
<1>8. ASSUME NEW d \in Listed(state)
      PROVE  m[d.id] = d.path \/ \E j \in After(P, 0) : Goes(P[j], d.id, d.path)
  <2>1. CASE mounted[d.id] = d.path
    <3>1. CASE m[d.id] = mounted[d.id]
      BY <2>1, <3>1
    <3>2. CASE e \in Report /\ d.id = e.id
      <4>1. CASE e.kind = "Disappeared"
        <5>1. Goes(e, d.id, d.path)
          BY <3>2, <4>1, <2>1 DEF Goes
        <5>2. QED
          BY <5>1, <1>1, <1>5
      <4>2. CASE e.kind # "Disappeared"
        BY <4>2, <3>2, <2>1, <1>4
      <4>3. QED
        BY <4>1, <4>2
    <3>3. QED
      BY <3>1, <3>2, <1>4
  <2>2. CASE \E j \in After(Q, 0) : Goes(Q[j], d.id, d.path)
    BY <2>2, <1>1, <1>5
  <2>3. QED
    BY <2>1, <2>2, <1>2 DEF Sound
<1>9. ASSUME NEW v \in Volumes, m[v] # NoPath
      PROVE  \/ EndsThere(P, 0, v, m[v])
             \/ /\ [id |-> v, path |-> m[v]] \in Listed(state)
                /\ \A j \in After(P, 0) : ~Goes(P[j], v, m[v])
  <2>1. CASE e \in Report /\ e.id = v
    <3>1. e.kind # "Disappeared" /\ m[v] = e.path
      BY <2>1, <1>9
    <3>2. Is(P[n], v, m[v])
      BY <2>1, <3>1, <1>1, <1>3 DEF Is
    <3>3. QED
      BY <3>2, <1>5 DEF EndsThere
  <2>2. CASE ~(e \in Report /\ e.id = v)
    <3>1. m[v] = mounted[v]
      BY <2>2
    <3>2. ~Goes(e, v, m[v])
      BY <2>2, <1>3 DEF Goes
    <3>3. ASSUME EndsThere(Q, 0, v, mounted[v])
          PROVE  EndsThere(P, 0, v, m[v])
      <4>1. PICK j \in After(Q, 0) : /\ Is(Q[j], v, mounted[v])
                                     /\ \A k \in After(Q, j) : ~Goes(Q[k], v, mounted[v])
        BY <3>3 DEF EndsThere
      <4>2. j \in 1..(n - 1) /\ j \in After(P, 0) /\ P[j] = Q[j]
        BY <1>1, <1>5
      <4>3. \A k \in After(P, j) : ~Goes(P[k], v, m[v])
        <5> TAKE k \in After(P, j)
        <5>1. CASE k = n
          BY <5>1, <1>1, <3>2
        <5>2. CASE k \in After(Q, j)
          <6>1. P[k] = Q[k]
            BY <5>2, <1>1 DEF After
          <6>2. QED
            BY <5>2, <6>1, <4>1, <3>1
        <5>3. QED
          BY <5>1, <5>2, <4>2, <1>5
      <4>4. QED
        BY <4>1, <4>2, <4>3, <3>1 DEF EndsThere
    <3>4. ASSUME [id |-> v, path |-> mounted[v]] \in Listed(state),
                 \A j \in After(Q, 0) : ~Goes(Q[j], v, mounted[v])
          PROVE  /\ [id |-> v, path |-> m[v]] \in Listed(state)
                 /\ \A j \in After(P, 0) : ~Goes(P[j], v, m[v])
      <4>1. \A j \in After(P, 0) : j = n \/ (j \in After(Q, 0) /\ P[j] = Q[j])
        BY <1>1, <1>5
      <4>2. QED
        BY <4>1, <3>1, <3>2, <3>4, <1>1
    <3>5. QED
      BY <3>1, <3>3, <3>4, <1>2, <1>9 DEF Complete
  <2>3. QED
    BY <2>1, <2>2
<1>10. ASSUME NEW j \in 1..n, P[j] \in Report
       PROVE  /\ \A k \in 1..n : P[k] \in Report /\ P[j].path = P[k].path => P[j].id = P[k].id
              /\ \A v \in Volumes : m[v] = P[j].path => v = P[j].id
  <2>1. CASE j = n
    <3>1. P[j] = e /\ e \in Report
      BY <2>1, <1>1, <1>10
    <3>2. \A k \in 1..n : k = n \/ (k \in DOMAIN Q /\ P[k] = Q[k])
      BY <1>1
    <3>3. QED
      BY <3>1, <3>2, <1>1
  <2>2. CASE j \in 1..(n - 1)
    <3>1. P[j] = Q[j] /\ j \in DOMAIN Q /\ j \in After(Q, 0) /\ Q[j] \in AnyReport
      BY <2>2, <1>1, <1>5
    <3>2. ASSUME NEW k \in 1..n, P[k] \in Report, P[j].path = P[k].path
          PROVE  P[j].id = P[k].id
      <4>1. CASE k = n
        BY <4>1, <3>1, <3>2, <1>1, <1>10
      <4>2. CASE k \in 1..(n - 1)
        <5>1. k \in After(Q, 0) /\ P[k] = Q[k]
          BY <4>2, <1>1, <1>5
        <5>2. QED
          BY <5>1, <3>1, <3>2, <1>2, <1>10 DEF OwnPaths
      <4>3. QED
        BY <4>1, <4>2, <1>1
    <3>3. ASSUME NEW v \in Volumes, m[v] = P[j].path
          PROVE  v = P[j].id
      <4>1. CASE m[v] = mounted[v]
        BY <4>1, <3>1, <3>3, <1>2, <1>10 DEF OwnPaths
      <4>2. CASE e \in Report /\ v = e.id
        <5>1. m[v] = e.path
          BY <4>2, <3>1, <3>3, <1>3, <1>10
        <5>2. QED
          BY <5>1, <4>2, <3>1, <3>3, <1>10
      <4>3. QED
        BY <4>1, <4>2
    <3>4. QED
      BY <3>2, <3>3
  <2>3. QED
    BY <2>1, <2>2, <1>1
<1>11. reports' = P /\ DOMAIN P = 1..n /\ After(P, 0) = 1..n
  BY <1>1, <1>5 DEF P
<1>12. Orderly(reports)' /\ Latest(reports)'
  BY <1>6, <1>7, <1>11 DEF Orderly, Latest, After
<1>13. Sound(state, reports, 0)'
  BY <1>8, <1>11 DEF Sound, After, Listed
<1>14. Complete(state, reports, 0)'
  BY <1>9, <1>11 DEF Complete, After, Listed, EndsThere
<1>15. OwnPaths(reports, 0)'
  BY <1>10, <1>11 DEF OwnPaths, After
<1>16. PathsListed(state)'
  BY <1>2 DEF PathsListed
<1>17. QED
  BY <1>12, <1>13, <1>14, <1>15, <1>16 DEF CalmInv, Follows

-----------------------------------------------------------------------------
(* The volumes that are mounted are listed *)

\* What is discovered is listed, and reported again.
LEMMA CalmInit == VolumesInit => CalmInv
<1> SUFFICES ASSUME VolumesInit PROVE CalmInv
  OBVIOUS
<1> DEFINE list == SetToSeq(Mounted)
<1>1. /\ list \in Seq(Descriptor) /\ NoTwins(list) /\ Range(list) = Mounted
      /\ mounted \in [Volumes -> MountPaths \cup {NoPath}] /\ MountedApart
      /\ state = Indexed(list)
      /\ reports = [i \in DOMAIN list |->
                      [kind |-> "Appeared", id |-> list[i].id, path |-> list[i].path]]
  BY DiscoveredOnce
<1> HIDE DEF list
<1>2. Listed(state) = Mounted /\ PathsListed(state)
  <2>1. Indexed(list).volumes = list
    BY DEF Indexed
  <2>2. PathsListed(Indexed(list))
    BY IndexedPaths
  <2>3. QED
    BY <2>1, <2>2, <1>1 DEF Listed
<1>3. /\ DOMAIN reports = DOMAIN list
      /\ \A i \in DOMAIN reports : reports[i].kind = "Appeared" /\ reports[i].id = list[i].id
                                /\ reports[i].path = list[i].path
                                /\ CoalescingKey(reports[i]) = list[i].id
  BY <1>1 DEF CoalescingKey
<1>4. \A d \in Mounted : d.id \in Volumes /\ mounted[d.id] = d.path /\ d.path # NoPath
  BY DEF Mounted
<1>5. \A i \in DOMAIN reports : /\ reports[i].id \in Volumes
                                /\ mounted[reports[i].id] = reports[i].path /\ reports[i].path # NoPath
  <2> TAKE i \in DOMAIN reports
  <2>1. list[i] \in Mounted
    BY <1>1, <1>3 DEF Range
  <2>2. QED
    BY <2>1, <1>3, <1>4
<1>6. Sound(state, reports, 0)
  BY <1>2, <1>4 DEF Sound
<1>7. Complete(state, reports, 0)
  <2>1. \A v \in Volumes : mounted[v] # NoPath => [id |-> v, path |-> mounted[v]] \in Listed(state)
    BY <1>2 DEF Mounted
  <2>2. \A v, p : \A j \in After(reports, 0) : ~Goes(reports[j], v, p)
    BY <1>3 DEF Goes, After
  <2>3. QED
    BY <2>1, <2>2 DEF Complete
<1>8. OwnPaths(reports, 0)
  BY <1>1, <1>5 DEF OwnPaths, After, MountedApart
<1>9. Orderly(reports)
  BY <1>1, <1>3 DEF Orderly, NoTwins
<1>10. Latest(reports)
  BY <1>3, <1>5 DEF Latest
<1>11. QED
  BY <1>2, <1>6, <1>7, <1>8, <1>9, <1>10 DEF CalmInv, Follows

\* The reports that are taken, and those that are left.
LEMMA TakenAndLeft ==
  ASSUME NEW S, NEW Q \in Seq(S), NEW n \in Nat, n <= Len(Q)
  PROVE  Q = SubSeq(Q, 1, n) \o SubSeq(Q, n + 1, Len(Q))
<1> DEFINE B == SubSeq(Q, 1, n)
           R == SubSeq(Q, n + 1, Len(Q))
           l == Len(Q)
<1>1. l \in Nat /\ B \in Seq(S) /\ R \in Seq(S)
  OBVIOUS
<1>2. Len(B) = n /\ \A i \in 1..n : B[i] = Q[i]
  OBVIOUS
<1>3. Len(R) = l - n /\ \A i \in 1..(l - n) : R[i] = Q[n + i]
  <2>1. Len(R) = l - n
    BY <1>1
  <2>2. ASSUME NEW i \in 1..(l - n) PROVE R[i] = Q[n + i]
    <3>1. R[i] = Q[n + 1 + i - 1] /\ n + 1 + i - 1 = n + i
      BY <1>1, <2>1
    <3>2. QED
      BY <3>1
  <2>3. QED
    BY <2>1, <2>2
<1> HIDE DEF B, R, l
<1>4. B \o R \in Seq(S) /\ Len(B \o R) = l
  <2>1. B \o R \in Seq(S) /\ Len(B \o R) = Len(B) + Len(R)
    BY <1>1, ConcatProperties
  <2>2. QED
    BY <2>1, <1>1, <1>2, <1>3
<1>5. ASSUME NEW i \in 1..l PROVE (B \o R)[i] = Q[i]
  <2>1. CASE i <= n
    BY <2>1, <1>1, <1>2
  <2>2. CASE i > n
    <3>1. i - n \in 1..(l - n) /\ n + (i - n) = i
      BY <2>2, <1>1
    <3>2. (B \o R)[i] = R[i - n]
      BY <2>2, <1>1, <1>2, <1>3
    <3>3. R[i - n] = Q[n + (i - n)]
      BY <3>1, <1>3
    <3>4. QED
      BY <3>1, <3>2, <3>3
  <2>3. i <= n \/ i > n
    BY <1>1
  <2>4. QED
    BY <2>1, <2>2, <2>3, Zenon
<1>6. Q = B \o R
  BY <1>4, <1>5, SeqEqual DEF l
<1>7. QED
  BY <1>6 DEF B, R, l

\* A drain leaves the reports it did not take, and they explain what it left.
LEMMA CalmDrain ==
  ASSUME VolumesInv, CalmInv, NEW n \in Nat, drain_into_state(n)
  PROVE  CalmInv'
<1> DEFINE B == SubSeq(reports, 1, n)
           R == SubSeq(reports, n + 1, Len(reports))
           E == Coalesced(B)
<1>1. /\ n <= Len(reports) /\ state' = Staged(E)[Len(E)] /\ reports' = R
      /\ mounted' = mounted
  BY DEF drain_into_state
<1>2. /\ mounted \in [Volumes -> MountPaths \cup {NoPath}] /\ MountedApart
      /\ reports \in Seq(AnyReport) /\ Agree(state)
      /\ PathsListed(state) /\ Follows(state, reports, 0) /\ Orderly(reports) /\ Latest(reports)
  BY DEF VolumesInv, CalmInv, AnyReport
<1>3. B \in Seq(AnyReport) /\ R \in Seq(AnyReport)
  BY <1>1, <1>2
<1>4. reports = B \o R
  BY <1>1, <1>2, TakenAndLeft
<1>5. E \in Seq(AnyReport)
  BY <1>3, CoalescedTypes DEF AnyReport
<1> HIDE DEF B, R, E
<1>6. Orderly(B) /\ Orderly(R) /\ Latest(R)
  BY <1>2, <1>3, <1>4, OrderlyParts
<1>7. Same(E, B, Len(B))
  BY <1>3, <1>6, CoalescedSame DEF E
<1>8. Follows(state, E \o R, 0)
  BY <1>2, <1>3, <1>4, <1>5, <1>7, CoalescedFollows
<1>9. PathsListed(state') /\ Follows(state', E \o R, Len(E))
  BY <1>1, <1>2, <1>3, <1>5, <1>8, StagedFollows
<1>10. Follows(state', R, 0)
  BY <1>9, <1>3, <1>5, RestFollows
<1>11. PathsListed(state)' /\ Follows(state, reports, 0)' /\ Orderly(reports)' /\ Latest(reports)'
  BY <1>1, <1>6, <1>9, <1>10
     DEF PathsListed, Follows, Sound, Complete, OwnPaths, EndsThere, Listed, After, Orderly, Latest
<1>12. QED
  BY <1>11 DEF CalmInv

\* Every step that leaves it calm.
LEMMA CalmStep ==
  ASSUME VolumesInv, calm => CalmInv, [VolumesNext]_mountVars, calm'
  PROVE  CalmInv'
<1>1. /\ mounted \in [Volumes -> MountPaths \cup {NoPath}] /\ MountedApart
      /\ reports \in Seq(AnyReport) /\ Agree(state) /\ calm \in BOOLEAN
  BY DEF VolumesInv, AnyReport
<1>2. VolumesInv'
  BY VolumesStep
<1>3. mounted' \in [Volumes -> MountPaths \cup {NoPath}] /\ MountedApart'
  BY <1>2 DEF VolumesInv
<1>4. ASSUME CalmInv
      PROVE  \A v \in Volumes : mounted[v] # NoPath =>
               \A i \in DOMAIN reports :
                 reports[i] \in Report /\ reports[i].path = mounted[v] => reports[i].id = v
  <2>1. OwnPaths(reports, 0)
    BY <1>4 DEF CalmInv, Follows
  <2>2. After(reports, 0) = DOMAIN reports
    <3>1. Len(reports) \in Nat /\ DOMAIN reports = 1..Len(reports)
      BY <1>1
    <3>2. QED
      BY <3>1 DEF After
  <2>3. QED
    BY <2>1, <2>2 DEF OwnPaths
<1>5. ASSUME NEW v \in Volumes, NEW p \in MountPaths, Mount(v, p)
      PROVE  CalmInv'
  <2> DEFINE e == [kind |-> "Appeared", id |-> v, path |-> p]
  <2>1. /\ e \in Report /\ e \in AnyReport /\ e.kind = "Appeared" /\ e.id = v /\ e.path = p
    BY DEF Report, AnyReport
  <2>2. /\ calm /\ LeftTo(v, p) /\ mounted[v] = NoPath
        /\ \A w \in Volumes : mounted[w] # p
        /\ mounted' = [mounted EXCEPT ![v] = p] /\ reports' = Append(reports, e) /\ state' = state
    BY <1>5, VolumesAssumption DEF Mount, ChangeMounts
  <2> HIDE DEF e
  <2>3. \A i \in DOMAIN reports : reports[i] \in Report /\ reports[i].path = p => reports[i].id = v
    <3>1. \A x \in Report : x.kind # "Unavailable"
      BY DEF Report
    <3>2. QED
      BY <3>1, <2>2 DEF LeftTo
  <2>4. \A w \in Volumes : mounted'[w] = p => w = v
    BY <2>2, <1>1
  <2>5. \A w \in Volumes : mounted'[w] = mounted[w] \/ w = v
    BY <2>2, <1>1
  <2>6. mounted'[v] = p /\ CalmInv
    BY <2>2, <1>1
  <2>7. QED
    BY <2>1, <2>2, <2>3, <2>4, <2>5, <2>6, <1>1, <1>3, AddedReport
<1>6. ASSUME NEW v \in Volumes, Unmount(v)
      PROVE  CalmInv'
  <2> DEFINE e == [kind |-> "Disappeared", id |-> v, path |-> mounted[v]]
  <2>1. mounted[v] # NoPath /\ mounted[v] \in MountPaths /\ calm
    BY <1>1, <1>6 DEF Unmount
  <2>2. /\ e \in Report /\ e \in AnyReport /\ e.kind = "Disappeared" /\ e.id = v /\ e.path = mounted[v]
    BY <2>1 DEF Report, AnyReport
  <2>3. mounted' = [mounted EXCEPT ![v] = NoPath] /\ reports' = Append(reports, e) /\ state' = state
    BY <1>6 DEF Unmount, ChangeMounts
  <2> HIDE DEF e
  <2>4. \A w \in Volumes : mounted'[w] = mounted[v] => w = v
    BY <2>1, <2>3, <1>1 DEF MountedApart
  <2>5. \A w \in Volumes : mounted'[w] = mounted[w] \/ w = v
    BY <2>3, <1>1
  <2>6. mounted'[v] = NoPath /\ CalmInv
    BY <2>1, <2>3, <1>1
  <2>7. QED
    BY <2>1, <2>2, <2>3, <2>4, <2>5, <2>6, <1>1, <1>3, <1>4, AddedReport
<1>7. ASSUME NEW v \in Volumes, NoticeChange(v)
      PROVE  CalmInv'
  <2> DEFINE e == [kind |-> "DescriptionChanged", id |-> v, path |-> mounted[v]]
  <2>1. mounted[v] # NoPath /\ mounted[v] \in MountPaths /\ calm
    BY <1>1, <1>7 DEF NoticeChange, Notice
  <2>2. /\ e \in Report /\ e \in AnyReport /\ e.kind = "DescriptionChanged" /\ e.id = v
        /\ e.path = mounted[v]
    BY <2>1 DEF Report, AnyReport
  <2>3. mounted' = mounted /\ reports' = Append(reports, e) /\ state' = state
    BY <1>7 DEF NoticeChange, Notice
  <2> HIDE DEF e
  <2>4. \A w \in Volumes : mounted'[w] = mounted[v] => w = v
    BY <2>1, <2>3, <1>1 DEF MountedApart
  <2>5. CalmInv
    BY <2>1
  <2>6. QED
    BY <2>1, <2>2, <2>3, <2>4, <2>5, <1>1, <1>4, AddedReport
<1>8. CASE NoticeFailure
  <2>1. Unavailable \in AnyReport /\ Unavailable \notin Report
    BY DEF AnyReport, Report, Unavailable
  <2>2. mounted' = mounted /\ reports' = Append(reports, Unavailable) /\ state' = state /\ calm
    BY <1>8 DEF NoticeFailure, Notice
  <2>3. QED
    BY <2>1, <2>2, <1>1, AddedReport
<1>9. ASSUME NEW n \in 1..MaxBatch, drain_into_state(n)
      PROVE  CalmInv'
  <2>1. n \in Nat
    BY VolumesAssumption
  <2>2. CalmInv
    BY <1>9 DEF drain_into_state
  <2>3. QED
    BY <2>1, <2>2, <1>9, CalmDrain
<1>10. CASE UNCHANGED mountVars
  <2>1. CalmInv /\ UNCHANGED <<mounted, reports, state>>
    BY <1>10 DEF mountVars
  <2>2. QED
    BY <2>1 DEF CalmInv, PathsListed, Follows, Sound, Complete, OwnPaths, EndsThere, Listed, After,
                Orderly, Latest
<1>11. ~(\E v \in Volumes, p \in MountPaths : Rename(v, p)) /\ ~(\E n \in 1..MaxBatch : drain_stopped(n))
  BY DEF Rename, drain_stopped
<1>12. QED
  BY <1>5, <1>6, <1>7, <1>8, <1>9, <1>10, <1>11 DEF VolumesNext, World

\* Once every report has been drained, the list holds the volumes that are mounted, each
\* at its path: whatever was coalesced, however late a report was resolved and however
\* the reports were split into batches (drain_into_state_checked).
THEOREM MountsStayTracked == VolumesSpec => []TracksMounts
<1> DEFINE Inv == VolumesInv /\ (calm => CalmInv)
<1>1. VolumesInit => Inv
  BY VolumesInitInv, CalmInit
<1>2. Inv /\ [VolumesNext]_mountVars => Inv'
  BY VolumesStep, CalmStep
<1>3. Inv => TracksMounts
  <2> SUFFICES ASSUME VolumesInv, CalmInv, reports = <<>> PROVE Range(state.volumes) = Mounted
    BY DEF TracksMounts
  <2>1. After(reports, 0) = {}
    BY DEF After
  <2>2. mounted \in [Volumes -> MountPaths \cup {NoPath}] /\ state.volumes \in Seq(Descriptor)
    BY DEF VolumesInv, Agree
  <2>3. \A d \in Listed(state) : mounted[d.id] = d.path
    BY <2>1 DEF CalmInv, Follows, Sound
  <2>4. \A v \in Volumes : mounted[v] # NoPath => [id |-> v, path |-> mounted[v]] \in Listed(state)
    BY <2>1 DEF CalmInv, Follows, Complete, EndsThere
  <2>5. Listed(state) \subseteq Descriptor
    BY <2>2 DEF Listed, Range
  <2>6. Mounted \subseteq Listed(state)
    BY <2>4 DEF Mounted
  <2>7. ASSUME NEW d \in Listed(state) PROVE d \in Mounted
    <3>1. d.id \in Volumes /\ d.path \in MountPaths /\ d = [id |-> d.id, path |-> d.path]
      BY <2>5 DEF Descriptor
    <3>2. mounted[d.id] = d.path /\ d.path # NoPath
      BY <2>3, <3>1, VolumesAssumption
    <3>3. QED
      BY <3>1, <3>2 DEF Mounted
  <2>8. QED
    BY <2>6, <2>7 DEF Listed
<1>4. QED
  BY <1>1, <1>2, <1>3, PTL DEF VolumesSpec

-----------------------------------------------------------------------------
(* The order of the jobs *)

JobSet == [path : Seq(Nat), reason : Nat, priority : {High, Critical}]

\* Of two jobs for one path.
Sooner(a, b) ==
  \/ a.priority > b.priority
  \/ a.priority = b.priority /\ a.reason < b.reason

\* No path comes before itself.
LEMMA PathIrreflexive ==
  ASSUME NEW p \in Seq(Nat)
  PROVE  ~PathLess(p, p)
<1> SUFFICES ASSUME NEW i \in 1..Len(p), p[i] < p[i] PROVE FALSE
  BY DEF PathLess
<1>1. p[i] \in Nat
  OBVIOUS
<1>2. QED
  BY <1>1

\* The order of paths is transitive: what decides is the first difference.
LEMMA PathTransitive ==
  ASSUME NEW p \in Seq(Nat), NEW q \in Seq(Nat), NEW r \in Seq(Nat), PathLess(p, q), PathLess(q, r)
  PROVE  PathLess(p, r)
<1>1. PICK i \in 1..Len(q) :
        /\ i <= Len(p) + 1
        /\ \A k \in 1..(i - 1) : p[k] = q[k]
        /\ i <= Len(p) => p[i] < q[i]
  BY DEF PathLess
<1>2. PICK j \in 1..Len(r) :
        /\ j <= Len(q) + 1
        /\ \A k \in 1..(j - 1) : q[k] = r[k]
        /\ j <= Len(q) => q[j] < r[j]
  BY DEF PathLess
<1>3. /\ Len(p) \in Nat /\ Len(q) \in Nat /\ Len(r) \in Nat
      /\ \A k \in 1..Len(p) : p[k] \in Nat
      /\ \A k \in 1..Len(q) : q[k] \in Nat
      /\ \A k \in 1..Len(r) : r[k] \in Nat
  OBVIOUS
<1>4. CASE i < j
  <2>1. i \in 1..Len(r) /\ q[i] = r[i] /\ \A k \in 1..(i - 1) : p[k] = r[k]
    BY <1>1, <1>2, <1>3, <1>4
  <2>2. QED
    BY <1>1, <2>1 DEF PathLess
<1>5. CASE i = j
  <2>1. i \in 1..Len(r) /\ q[i] < r[i] /\ \A k \in 1..(i - 1) : p[k] = r[k]
    BY <1>1, <1>2, <1>3, <1>5
  <2>2. i <= Len(p) => p[i] < r[i]
    <3> SUFFICES ASSUME i <= Len(p) PROVE p[i] < r[i]
      OBVIOUS
    <3>1. i \in 1..Len(p) /\ i \in 1..Len(q) /\ i \in 1..Len(r)
      BY <1>1, <1>3, <2>1
    <3>2. p[i] \in Nat /\ q[i] \in Nat /\ r[i] \in Nat
      BY <3>1, <1>3
    <3>3. p[i] < q[i] /\ q[i] < r[i]
      BY <1>1, <2>1
    <3>4. QED
      BY <3>2, <3>3
  <2>3. QED
    BY <1>1, <2>1, <2>2 DEF PathLess
<1>6. CASE j < i
  <2>1. j \in 1..Len(q) /\ j <= Len(p) /\ p[j] = q[j] /\ \A k \in 1..(j - 1) : p[k] = r[k]
    <3>1. j \in 1..Len(q) /\ j <= Len(p) /\ j \in 1..(i - 1)
      BY <1>1, <1>2, <1>3, <1>6
    <3>2. \A k \in 1..(j - 1) : k \in 1..(i - 1)
      BY <3>1
    <3>3. QED
      BY <3>1, <3>2, <1>1, <1>2
  <2>2. p[j] < r[j] /\ j <= Len(p) + 1
    BY <1>2, <2>1, <1>3
  <2>3. QED
    BY <2>1, <2>2 DEF PathLess
<1>7. QED
  BY <1>3, <1>4, <1>5, <1>6

\* Of two paths one comes first.
LEMMA PathTotal ==
  ASSUME NEW p \in Seq(Nat), NEW q \in Seq(Nat), p # q
  PROVE  PathLess(p, q) \/ PathLess(q, p)
<1> DEFINE Apart(i) == i > Len(p) \/ i > Len(q) \/ p[i] # q[i]
           T == {i \in Nat \ {0} : Apart(i)}
<1>1. /\ Len(p) \in Nat /\ Len(q) \in Nat
      /\ \A k \in 1..Len(p) : p[k] \in Nat
      /\ \A k \in 1..Len(q) : q[k] \in Nat
  OBVIOUS
<1>2. PICK i \in T : \A k \in T : i <= k
  <2>1. Len(p) + 1 \in T
    BY <1>1
  <2>2. T \subseteq Nat /\ T # {}
    BY <2>1
  <2> HIDE DEF T
  <2>3. QED
    BY <2>2, LeastNat
<1>3. i \in Nat \ {0} /\ (i > Len(p) \/ i > Len(q) \/ p[i] # q[i])
  OBVIOUS
<1>4. \A k \in 1..(i - 1) : k <= Len(p) /\ k <= Len(q) /\ p[k] = q[k]
  <2> SUFFICES ASSUME NEW k \in 1..(i - 1) PROVE k <= Len(p) /\ k <= Len(q) /\ p[k] = q[k]
    OBVIOUS
  <2>1. k \in Nat \ {0} /\ ~(i <= k)
    BY <1>3
  <2>2. k \notin T
    BY <1>2, <2>1
  <2>3. ~(k > Len(p)) /\ ~(k > Len(q)) /\ p[k] = q[k]
    BY <2>1, <2>2
  <2>4. QED
    BY <2>1, <2>3, <1>1
<1> HIDE DEF T
<1>5. i <= Len(p) + 1 /\ i <= Len(q) + 1
  <2>1. CASE i = 1
    BY <2>1, <1>1
  <2>2. CASE i # 1
    <3>1. i - 1 \in 1..(i - 1)
      BY <2>2, <1>3
    <3>2. i - 1 <= Len(p) /\ i - 1 <= Len(q)
      BY <1>4, <3>1
    <3>3. QED
      BY <3>2, <1>1, <1>3
  <2>3. QED
    BY <2>1, <2>2
<1>6. CASE i > Len(p) /\ i > Len(q)
  <2>1. Len(p) = i - 1 /\ Len(q) = i - 1
    BY <1>1, <1>3, <1>5, <1>6
  <2>2. p = q
    BY <2>1, <1>4
  <2>3. QED
    BY <2>2
<1>7. CASE i > Len(p) /\ i <= Len(q)
  <2>1. i \in 1..Len(q) /\ ~(i <= Len(p))
    BY <1>1, <1>3, <1>7
  <2>2. QED
    BY <2>1, <1>4, <1>5 DEF PathLess
<1>8. CASE i <= Len(p) /\ i > Len(q)
  <2>1. i \in 1..Len(p) /\ ~(i <= Len(q)) /\ \A k \in 1..(i - 1) : q[k] = p[k]
    BY <1>1, <1>3, <1>4, <1>8
  <2>2. QED
    BY <2>1, <1>5 DEF PathLess
<1>9. CASE i <= Len(p) /\ i <= Len(q)
  <2>1. i \in 1..Len(p) /\ i \in 1..Len(q) /\ (p[i] < q[i] \/ q[i] < p[i])
    BY <1>1, <1>3, <1>9
  <2>2. \A k \in 1..(i - 1) : q[k] = p[k]
    BY <1>4
  <2>3. QED
    BY <2>1, <2>2, <1>4, <1>5 DEF PathLess
<1>10. QED
  BY <1>1, <1>3, <1>6, <1>7, <1>8, <1>9

\* The order of the jobs is a strict total order (the comparison of sort_by).
LEMMA JobOrder ==
  /\ \A a \in JobSet : ~JobBefore(a, a)
  /\ \A a, b, c \in JobSet : JobBefore(a, b) /\ JobBefore(b, c) => JobBefore(a, c)
  /\ \A a, b \in JobSet : a # b => JobBefore(a, b) \/ JobBefore(b, a)
<1>1. \A a \in JobSet : /\ a.path \in Seq(Nat) /\ a.reason \in Nat /\ a.priority \in Nat
                        /\ a = [path |-> a.path, reason |-> a.reason, priority |-> a.priority]
  BY DEF JobSet, High, Critical
<1>2. \A a \in JobSet : ~JobBefore(a, a)
  BY <1>1, PathIrreflexive DEF JobBefore
<1>3. ASSUME NEW a \in JobSet, NEW b \in JobSet, NEW c \in JobSet, JobBefore(a, b), JobBefore(b, c)
      PROVE  JobBefore(a, c)
  <2>1. CASE PathLess(a.path, b.path) /\ PathLess(b.path, c.path)
    <3>1. PathLess(a.path, c.path)
      BY <2>1, <1>1, PathTransitive
    <3>2. QED
      BY <3>1 DEF JobBefore
  <2>2. CASE PathLess(a.path, b.path) /\ b.path = c.path
    BY <2>2 DEF JobBefore
  <2>3. CASE a.path = b.path /\ PathLess(b.path, c.path)
    BY <2>3 DEF JobBefore
  <2>4. CASE a.path = b.path /\ Sooner(a, b) /\ b.path = c.path /\ Sooner(b, c)
    <3>1. /\ a.priority \in Nat /\ b.priority \in Nat /\ c.priority \in Nat
          /\ a.reason \in Nat /\ b.reason \in Nat /\ c.reason \in Nat
      BY <1>1
    <3>2. Sooner(a, c)
      BY <2>4, <3>1 DEF Sooner
    <3>3. QED
      BY <2>4, <3>2 DEF JobBefore, Sooner
  <2>5. /\ PathLess(a.path, b.path) \/ (a.path = b.path /\ Sooner(a, b))
        /\ PathLess(b.path, c.path) \/ (b.path = c.path /\ Sooner(b, c))
    BY <1>3 DEF JobBefore, Sooner
  <2>6. QED
    BY <2>1, <2>2, <2>3, <2>4, <2>5
<1>4. ASSUME NEW a \in JobSet, NEW b \in JobSet, a # b
      PROVE  JobBefore(a, b) \/ JobBefore(b, a)
  <2>1. CASE a.path # b.path
    BY <2>1, <1>1, PathTotal DEF JobBefore
  <2>2. CASE a.path = b.path
    <3>1. a.priority \in Nat /\ b.priority \in Nat /\ a.reason \in Nat /\ b.reason \in Nat
      BY <1>1
    <3>2. a.priority # b.priority \/ a.reason # b.reason
      BY <2>2, <1>1, <1>4
    <3>3. Sooner(a, b) \/ Sooner(b, a)
      BY <3>1, <3>2 DEF Sooner
    <3>4. QED
      BY <2>2, <3>3 DEF JobBefore, Sooner
  <2>3. QED
    BY <2>1, <2>2
<1>5. QED
  BY <1>2, <1>3, <1>4

\* The jobs at their places are all of them, in their order.
LEMMA SortedIsSorting ==
  ASSUME IsFiniteSet(Jobs), Jobs \subseteq JobSet
  PROVE  /\ Cardinality(Jobs) \in Nat
         /\ \A i \in 1..Cardinality(Jobs) : SortedJobs[i] \in Jobs
         /\ \A job \in Jobs : \E i \in 1..Cardinality(Jobs) : SortedJobs[i] = job
         /\ \A i, k \in 1..Cardinality(Jobs) : k < i => ~JobBefore(SortedJobs[i], SortedJobs[k])
<1> DEFINE N == Cardinality(Jobs)
           Pre(a) == {j \in Jobs : JobBefore(j, a)}
<1>1. N \in Nat /\ \A a \in Jobs : IsFiniteSet(Pre(a)) /\ Cardinality(Pre(a)) \in Nat
  BY FS_CardinalityType, FS_Subset
<1>2. ASSUME NEW a \in Jobs, NEW b \in Jobs, JobBefore(a, b)
      PROVE  Before(a) < Before(b)
  <2>1. Pre(a) \subseteq Pre(b) /\ a \in Pre(b) /\ a \notin Pre(a)
    BY <1>2, JobOrder
  <2>2. Cardinality(Pre(a)) <= Cardinality(Pre(b)) /\ Cardinality(Pre(a)) # Cardinality(Pre(b))
    <3> HIDE DEF Pre
    <3>1. Pre(a) \in SUBSET Pre(b) /\ Pre(a) # Pre(b)
      BY <2>1
    <3>2. QED
      BY <3>1, <1>1, FS_Subset
  <2>3. QED
    BY <2>2, <1>1 DEF Before
<1>3. ASSUME NEW a \in Jobs
      PROVE  Before(a) \in Nat /\ Before(a) < N
  <2>1. Pre(a) \subseteq Jobs /\ a \notin Pre(a)
    BY JobOrder
  <2>2. Cardinality(Pre(a)) <= N /\ Cardinality(Pre(a)) # N
    <3> HIDE DEF Pre
    <3>1. Pre(a) \in SUBSET Jobs /\ Pre(a) # Jobs
      BY <2>1
    <3>2. QED
      BY <3>1, <1>1, FS_Subset
  <2>3. QED
    BY <2>2, <1>1 DEF Before
<1>4. \A a, b \in Jobs : Before(a) = Before(b) => a = b
  <2> SUFFICES ASSUME NEW a \in Jobs, NEW b \in Jobs, Before(a) = Before(b), a # b PROVE FALSE
    OBVIOUS
  <2>1. JobBefore(a, b) \/ JobBefore(b, a)
    BY JobOrder
  <2>2. QED
    BY <2>1, <1>2, <1>3
<1> HIDE DEF N, Pre
<1>5. ASSUME NEW i \in 1..N
      PROVE  \E job \in Jobs : Before(job) = i - 1
  <2> DEFINE f == [job \in Jobs |-> Before(job) + 1]
  <2>1. f \in [Jobs -> 1..N]
    BY <1>1, <1>3
  <2>2. \A a, b \in Jobs : f[a] = f[b] => a = b
    BY <1>3, <1>4
  <2>3. f \in Injection(Jobs, 1..N)
    <3> HIDE DEF f
    <3>1. QED
      BY <2>1, <2>2 DEF Injection, IsInjective
  <2>4. IsFiniteSet(1..N) /\ Cardinality(1..N) = N
    BY <1>1, FS_Interval
  <2>5. f \in Surjection(Jobs, 1..N)
    <3> HIDE DEF f
    <3>1. QED
      BY <2>3, <2>4, FS_Injection DEF N
  <2>6. PICK job \in Jobs : f[job] = i
    <3> HIDE DEF f
    <3>1. QED
      BY <2>5 DEF Surjection
  <2>7. QED
    BY <2>6, <1>3
<1>6. ASSUME NEW i \in 1..N
      PROVE  SortedJobs[i] \in Jobs /\ Before(SortedJobs[i]) = i - 1
  <2>1. SortedJobs[i] = CHOOSE job \in Jobs : Before(job) = i - 1
    BY DEF SortedJobs, N
  <2>2. QED
    BY <2>1, <1>5
<1>7. ASSUME NEW job \in Jobs
      PROVE  \E i \in 1..N : SortedJobs[i] = job
  <2>1. Before(job) + 1 \in 1..N /\ (Before(job) + 1) - 1 = Before(job)
    BY <1>1, <1>3
  <2>2. SortedJobs[Before(job) + 1] = job
    BY <2>1, <1>4, <1>6
  <2>3. QED
    BY <2>1, <2>2
<1>8. ASSUME NEW i \in 1..N, NEW k \in 1..N, k < i, JobBefore(SortedJobs[i], SortedJobs[k])
      PROVE  FALSE
  <2>1. Before(SortedJobs[i]) < Before(SortedJobs[k])
    BY <1>2, <1>6, <1>8
  <2>2. i - 1 < k - 1
    BY <2>1, <1>6
  <2>3. QED
    BY <2>2, <1>8
<1>9. QED
  BY <1>1, <1>6, <1>7, <1>8 DEF N

-----------------------------------------------------------------------------
(* Coalescing the jobs *)

\* A path is a prefix of itself, and of what a path below it is a prefix of.
LEMMA PrefixOrder ==
  /\ \A p \in Seq(Nat) : IsPrefix(p, p)
  /\ \A p, q, r \in Seq(Nat) : IsPrefix(p, q) /\ IsPrefix(q, r) => IsPrefix(p, r)
<1>1. ASSUME NEW p \in Seq(Nat), NEW q \in Seq(Nat)
      PROVE  IsPrefix(p, q) <=> Len(p) <= Len(q) /\ \A i \in 1..Len(p) : p[i] = q[i]
  <2>1. SubSeq(p, 1, Len(p)) = [i \in 1..Len(p) |-> p[i]]
    OBVIOUS
  <2>2. Len(p) <= Len(q) => SubSeq(q, 1, Len(p)) = [i \in 1..Len(p) |-> q[i]]
    OBVIOUS
  <2>3. [i \in 1..Len(p) |-> p[i]] = [i \in 1..Len(p) |-> q[i]] <=> \A i \in 1..Len(p) : p[i] = q[i]
    OBVIOUS
  <2>4. QED
    BY <2>1, <2>2, <2>3 DEF IsPrefix
<1>2. \A p \in Seq(Nat) : IsPrefix(p, p)
  BY <1>1
<1>3. ASSUME NEW p \in Seq(Nat), NEW q \in Seq(Nat), NEW r \in Seq(Nat), IsPrefix(p, q), IsPrefix(q, r)
      PROVE  IsPrefix(p, r)
  BY <1>1, <1>3
<1>4. QED
  BY <1>2, <1>3

\* The jobs K that are kept of the first n: each of them is covered, none is below
\* another, and the most urgent of one path is kept.
KeptOK(K, n) ==
  /\ \A k \in K : \E i \in 1..n : k = SortedJobs[i]
  /\ \A i \in 1..n : \E k \in K : IsPrefix(k.path, SortedJobs[i].path)
  /\ \A a, b \in K : IsPrefix(a.path, b.path) => a = b
  /\ \A k \in K, i \in 1..n : SortedJobs[i].path = k.path => SortedJobs[i].priority <= k.priority

\* Each turn of the loop keeps it so.
LEMMA CoalesceJobOK ==
  ASSUME IsFiniteSet(Jobs), Jobs \subseteq JobSet,
         NEW n \in 1..Cardinality(Jobs), NEW K, KeptOK(K, n - 1)
  PROVE  KeptOK(CoalesceJob(K, SortedJobs[n]), n)
<1> DEFINE job == SortedJobs[n]
           L == CoalesceJob(K, job)
<1>1. /\ Cardinality(Jobs) \in Nat /\ n - 1 \in Nat
      /\ \A i \in 1..n : SortedJobs[i] \in JobSet
      /\ \A k \in 1..(n - 1) : ~JobBefore(job, SortedJobs[k])
  BY SortedIsSorting
<1>2. \A j \in JobSet : j.path \in Seq(Nat) /\ j.priority \in Nat
  BY DEF JobSet, High, Critical
<1>3. /\ \A k \in K : \E i \in 1..(n - 1) : k = SortedJobs[i]
      /\ \A i \in 1..(n - 1) : \E k \in K : IsPrefix(k.path, SortedJobs[i].path)
      /\ \A a, b \in K : IsPrefix(a.path, b.path) => a = b
      /\ \A k \in K, i \in 1..(n - 1) : SortedJobs[i].path = k.path => SortedJobs[i].priority <= k.priority
  BY DEF KeptOK
<1>4. \A i \in 1..n : i \in 1..(n - 1) \/ i = n
  OBVIOUS
<1>5. job \in JobSet /\ n \in 1..n /\ \A i \in 1..(n - 1) : i \in 1..n
  BY <1>1
<1>6. K \subseteq JobSet
  BY <1>1, <1>3, <1>5
<1> HIDE DEF job, L
<1>7. CASE \E k \in K : IsPrefix(k.path, job.path)
  <2>1. L = K
    BY <1>7 DEF L, CoalesceJob
  <2>2. ASSUME NEW k \in K, job.path = k.path
        PROVE  job.priority <= k.priority
    <3>1. PICK i \in 1..(n - 1) : k = SortedJobs[i]
      BY <1>3
    <3>2. ~JobBefore(job, k)
      BY <3>1, <1>1
    <3>3. ~(job.priority > k.priority)
      BY <3>2, <2>2 DEF JobBefore
    <3>4. QED
      BY <3>3, <1>2, <1>5, <1>6
  <2>3. QED
    BY <2>1, <2>2, <1>3, <1>4, <1>5, <1>7 DEF KeptOK, L, job
<1>8. CASE ~\E k \in K : IsPrefix(k.path, job.path)
  <2>1. L = {k \in K : ~IsPrefix(job.path, k.path)} \cup {job}
    BY <1>8 DEF L, CoalesceJob
  <2>2. \A k \in L : \E i \in 1..n : k = SortedJobs[i]
    BY <2>1, <1>3, <1>5 DEF job
  <2>3. IsPrefix(job.path, job.path)
    BY <1>2, <1>5, PrefixOrder
  <2>4. ASSUME NEW i \in 1..n
        PROVE  \E k \in L : IsPrefix(k.path, SortedJobs[i].path)
    <3>1. CASE i = n
      BY <3>1, <2>1, <2>3 DEF job
    <3>2. CASE i # n
      <4>1. PICK k \in K : IsPrefix(k.path, SortedJobs[i].path)
        BY <3>2, <1>3, <1>4
      <4>2. CASE IsPrefix(job.path, k.path)
        <5>1. IsPrefix(job.path, SortedJobs[i].path)
          BY <4>1, <4>2, <1>1, <1>2, <1>5, <1>6, PrefixOrder
        <5>2. QED
          BY <5>1, <2>1
      <4>3. QED
        BY <4>1, <4>2, <2>1
    <3>3. QED
      BY <3>1, <3>2
  <2>5. \A a, b \in L : IsPrefix(a.path, b.path) => a = b
    BY <2>1, <1>3, <1>8
  <2>6. ASSUME NEW k \in L, NEW i \in 1..n, SortedJobs[i].path = k.path
        PROVE  SortedJobs[i].priority <= k.priority
    <3>1. CASE k = job /\ i = n
      BY <3>1, <1>2, <1>5 DEF job
    <3>2. CASE k = job /\ i # n
      BY <3>2, <2>6, <1>3, <1>4, <1>8
    <3>3. CASE k \in K /\ i = n
      BY <3>3, <2>3, <2>6, <1>8 DEF job
    <3>4. CASE k \in K /\ i # n
      BY <3>4, <2>6, <1>3, <1>4
    <3>5. QED
      BY <3>1, <3>2, <3>3, <3>4, <2>1
  <2>7. QED
    BY <2>2, <2>4, <2>5, <2>6 DEF KeptOK, L, job
<1>9. QED
  BY <1>7, <1>8 DEF L, job

\* The turns of the loop over the jobs.
KeptUpTo(f, n) == f = [i \in 0..n |-> IF i = 0 THEN {} ELSE CoalesceJob(f[i - 1], SortedJobs[i])]

\* However many jobs there are, the loop takes them all.
LEMMA KeptExists ==
  ASSUME NEW N \in Nat
  PROVE  \E f : KeptUpTo(f, N)
<1> DEFINE T == {m \in Nat : ~\E f : KeptUpTo(f, m)}
<1> SUFFICES ASSUME T # {} PROVE FALSE
  OBVIOUS
<1>1. PICK m \in T : \A k \in T : m <= k
  <2>1. T \subseteq Nat
    OBVIOUS
  <2> HIDE DEF T
  <2>2. QED
    BY <2>1, LeastNat
<1>2. CASE m = 0
  <2>1. KeptUpTo([i \in 0..0 |-> {}], 0)
    BY DEF KeptUpTo
  <2>2. QED
    BY <2>1, <1>1, <1>2
<1>3. CASE m # 0
  <2>1. m - 1 \in Nat /\ m - 1 \notin T
    BY <1>1, <1>3
  <2>2. PICK f : KeptUpTo(f, m - 1)
    BY <2>1
  <2> DEFINE g == [i \in 0..m |-> IF i < m THEN f[i] ELSE CoalesceJob(f[m - 1], SortedJobs[m])]
  <2>3. \A i \in 0..m : g[i] = IF i = 0 THEN {} ELSE CoalesceJob(g[i - 1], SortedJobs[i])
    <3> TAKE i \in 0..m
    <3>1. \A k \in 0..(m - 1) : f[k] = IF k = 0 THEN {} ELSE CoalesceJob(f[k - 1], SortedJobs[k])
      BY <2>2 DEF KeptUpTo
    <3>2. CASE i = m
      <4>1. g[i] = CoalesceJob(f[m - 1], SortedJobs[m]) /\ g[i - 1] = f[m - 1]
        BY <3>2, <2>1
      <4>2. QED
        BY <4>1, <3>2, <1>3
    <3>3. CASE i # m /\ i # 0
      <4>1. i \in 0..(m - 1) /\ g[i] = f[i] /\ g[i - 1] = f[i - 1]
        BY <3>3, <2>1
      <4>2. QED
        BY <4>1, <3>1, <3>3
    <3>4. CASE i = 0
      <4>1. i \in 0..(m - 1) /\ g[i] = f[i]
        BY <3>4, <2>1, <1>3
      <4>2. QED
        BY <4>1, <3>1, <3>4
    <3>5. QED
      BY <3>2, <3>3, <3>4
  <2>4. KeptUpTo(g, m)
    BY <2>3 DEF KeptUpTo
  <2>5. QED
    BY <2>4, <1>1
<1>4. QED
  BY <1>2, <1>3

\* What is kept in the end is exact.
LEMMA KeptIsExact ==
  ASSUME IsFiniteSet(Jobs), Jobs \subseteq JobSet
  PROVE  KeptOK(coalesce_jobs, Cardinality(Jobs))
<1> DEFINE f == Kept
           N == Cardinality(Jobs)
<1>1. N \in Nat
  BY FS_CardinalityType
<1>2. KeptUpTo(f, N)
  <2> DEFINE Turns(h) == h = [i \in 0..N |-> IF i = 0 THEN {} ELSE CoalesceJob(h[i - 1], SortedJobs[i])]
  <2>1. f = CHOOSE h : Turns(h)
    BY DEF Kept
  <2>2. PICK h : KeptUpTo(h, N)
    BY <1>1, KeptExists
  <2>3. Turns(h)
    BY <2>2 DEF KeptUpTo
  <2> HIDE DEF Turns, f
  <2>4. Turns(f)
    BY <2>1, <2>3
  <2>5. QED
    BY <2>4 DEF Turns, KeptUpTo
<1> HIDE DEF f, N
<1>3. \A n \in 0..N : KeptOK(f[n], n)
  <2> DEFINE T == {m \in 0..N : ~KeptOK(f[m], m)}
  <2> SUFFICES ASSUME T # {} PROVE FALSE
    OBVIOUS
  <2>1. PICK m \in T : \A k \in T : m <= k
    <3>1. T \subseteq Nat
      BY <1>1
    <3> HIDE DEF T
    <3>2. QED
      BY <3>1, LeastNat
  <2>2. m \in 0..N /\ ~KeptOK(f[m], m)
    OBVIOUS
  <2>3. CASE m = 0
    <3>1. f[0] = {}
      BY <1>1, <1>2 DEF KeptUpTo
    <3>2. KeptOK({}, 0)
      BY DEF KeptOK
    <3>3. QED
      BY <2>2, <2>3, <3>1, <3>2
  <2>4. CASE m # 0
    <3>1. m - 1 \in 0..N /\ m - 1 \notin T /\ m \in 1..N
      BY <1>1, <2>1, <2>2, <2>4
    <3>2. KeptOK(f[m - 1], m - 1)
      BY <3>1
    <3>3. f[m] = CoalesceJob(f[m - 1], SortedJobs[m])
      BY <2>2, <2>4, <1>2 DEF KeptUpTo
    <3>4. KeptOK(f[m], m)
      BY <3>1, <3>2, <3>3, CoalesceJobOK DEF N
    <3>5. QED
      BY <2>2, <3>4
  <2>5. QED
    BY <2>3, <2>4
<1>4. QED
  BY <1>1, <1>3 DEF coalesce_jobs, f, N

-----------------------------------------------------------------------------
(* The repair schedule *)

\* No event is both lost and observed, and finitely many roots were dropped.
RepairInv ==
  /\ RepairTypeOK
  /\ \A i \in DOMAIN seen : seen[i] \notin lost
  /\ IsFiniteSet(dropped)

\* The jobs are finitely many, and of their types.
LEMMA JobsFinite ==
  ASSUME RepairInv
  PROVE  IsFiniteSet(Jobs) /\ Jobs \subseteq JobSet
<1> DEFINE A == IF clean THEN {} ELSE {Job(Root, 0, Critical)}
           B == {Job(Root, seen[i], High) : i \in Gaps}
           C == {Job(p, 0, High) : p \in dropped}
<1>1. /\ seen \in Seq(1..sent) /\ sent \in Nat /\ dropped \subseteq Seq(Nat) /\ IsFiniteSet(dropped)
  BY RepairAssumption DEF RepairInv, RepairTypeOK
<1>2. Jobs = A \cup B \cup C
  BY DEF Jobs
<1>3. IsFiniteSet(A) /\ A \subseteq JobSet
  <2>1. Job(Root, 0, Critical) \in JobSet
    BY DEF Job, Root, JobSet
  <2>2. QED
    BY <2>1, FS_EmptySet, FS_Singleton
<1>4. IsFiniteSet(B) /\ B \subseteq JobSet
  <2>1. Gaps \subseteq 1..Len(seen) /\ Len(seen) \in Nat
    BY <1>1 DEF Gaps
  <2>2. IsFiniteSet(Gaps)
    <3>1. IsFiniteSet(1..Len(seen))
      BY <2>1, FS_Interval
    <3>2. QED
      BY <3>1, <2>1, FS_Subset
  <2> DEFINE f == [i \in Gaps |-> Job(Root, seen[i], High)]
  <2>3. f \in [Gaps -> B] /\ \A b \in B : \E i \in Gaps : f[i] = b
    OBVIOUS
  <2>4. B \subseteq JobSet
    <3> SUFFICES ASSUME NEW i \in Gaps PROVE Job(Root, seen[i], High) \in JobSet
      OBVIOUS
    <3>1. seen[i] \in Nat
      BY <1>1, <2>1
    <3>2. QED
      BY <3>1 DEF Job, Root, JobSet
  <2> HIDE DEF f, B
  <2>5. f \in Surjection(Gaps, B)
    BY <2>3 DEF Surjection
  <2>6. QED
    BY <2>2, <2>4, <2>5, FS_Surjection
<1>5. IsFiniteSet(C) /\ C \subseteq JobSet
  <2> DEFINE f == [p \in dropped |-> Job(p, 0, High)]
  <2>1. f \in [dropped -> C] /\ \A c \in C : \E p \in dropped : f[p] = c
    OBVIOUS
  <2>2. C \subseteq JobSet
    BY <1>1 DEF Job, JobSet
  <2> HIDE DEF f, C
  <2>3. f \in Surjection(dropped, C)
    BY <2>1 DEF Surjection
  <2>4. QED
    BY <1>1, <2>2, <2>3, FS_Surjection
<1> HIDE DEF A, B, C
<1>6. IsFiniteSet(A \cup B)
  BY <1>3, <1>4, FS_Union
<1>7. IsFiniteSet((A \cup B) \cup C)
  BY <1>5, <1>6, FS_Union
<1>8. QED
  BY <1>2, <1>3, <1>4, <1>5, <1>7

\* The first observed event past a lost one does not follow on the event before it.
LEMMA LostIsScheduled ==
  ASSUME RepairInv, NEW id \in lost, id > last, NEW n \in DOMAIN seen, seen[n] > id
  PROVE  \E job \in Jobs : job.path = Root
<1>1. /\ seen \in Seq(1..sent) /\ sent \in Nat /\ last \in Nat /\ clean \in BOOLEAN
      /\ lost \subseteq 1..sent
      /\ \A i \in DOMAIN seen : seen[i] \notin lost
  BY RepairAssumption DEF RepairInv, RepairTypeOK
<1>2. /\ Len(seen) \in Nat /\ DOMAIN seen = 1..Len(seen) /\ id \in Nat
      /\ \A i \in 1..Len(seen) : seen[i] \in Nat /\ seen[i] # id
  BY <1>1
<1>3. CASE ~clean
  <2>1. Job(Root, 0, Critical) \in Jobs
    BY <1>3 DEF Jobs
  <2>2. QED
    BY <2>1 DEF Job
<1>4. CASE clean
  <2> DEFINE T == {i \in DOMAIN seen : seen[i] > id}
  <2>1. PICK m \in T : \A k \in T : m <= k
    <3>1. T \subseteq Nat /\ n \in T
      BY <1>2
    <3> HIDE DEF T
    <3>2. QED
      BY <3>1, LeastNat
  <2>2. m \in 1..Len(seen) /\ seen[m] > id
    BY <1>2
  <2>3. m \in Gaps
    <3>1. CASE m = 1
      <4>1. Expected(m) = last + 1
        BY <3>1, <1>4 DEF Expected, FromEventId
      <4>2. Expected(m) # 0 /\ seen[m] > Expected(m)
        BY <4>1, <2>2, <1>1, <1>2
      <4>3. QED
        BY <4>2, <2>2, <1>2 DEF Gaps
    <3>2. CASE m # 1
      <4>1. m - 1 \in 1..Len(seen) /\ ~(m <= m - 1)
        BY <3>2, <2>2, <1>2
      <4>2. m - 1 \notin T
        BY <4>1, <2>1
      <4>3. seen[m - 1] < id
        BY <4>1, <4>2, <1>2
      <4>4. Expected(m) = seen[m - 1] + 1
        BY <3>2 DEF Expected
      <4>5. Expected(m) # 0 /\ seen[m] > Expected(m)
        BY <4>1, <4>3, <4>4, <2>2, <1>2
      <4>6. QED
        BY <4>5, <2>2, <1>2 DEF Gaps
    <3>3. QED
      BY <3>1, <3>2
  <2>4. Job(Root, seen[m], High) \in Jobs
    BY <2>3 DEF Jobs
  <2>5. QED
    BY <2>4 DEF Job
<1>5. QED
  BY <1>1, <1>3, <1>4

\* Every step of the stream and of the cursor keeps the observations well-formed.
LEMMA RepairStep == RepairInv /\ [RepairNext]_repairVars => RepairInv'
<1> SUFFICES ASSUME RepairInv, [RepairNext]_repairVars PROVE RepairInv'
  OBVIOUS
<1>1. /\ sent \in 0..MaxEvents /\ last \in 0..sent /\ clean \in BOOLEAN
      /\ lost \subseteq 1..sent /\ dropped \subseteq DropPaths
      /\ seen \in Seq(1..sent) /\ Len(seen) <= MaxSeen
      /\ \A i \in DOMAIN seen : seen[i] \notin lost
      /\ IsFiniteSet(dropped)
      /\ MaxEvents \in Nat /\ MaxSeen \in Nat
  BY RepairAssumption DEF RepairInv, RepairTypeOK
<1>2. CASE DeliverNext
  <2>1. /\ sent' = sent + 1 /\ sent' \in 0..MaxEvents /\ seen' = Append(seen, sent + 1)
        /\ UNCHANGED <<lost, dropped, last, clean>> /\ Len(seen) < MaxSeen
    BY <1>1, <1>2 DEF DeliverNext
  <2>2. seen \in Seq(1..(sent + 1))
    BY <1>1
  <2>3. seen' \in Seq(1..sent') /\ Len(seen') <= MaxSeen
    BY <1>1, <2>1, <2>2
  <2>4. \A i \in DOMAIN seen' : seen'[i] \notin lost'
    BY <1>1, <2>1
  <2>5. QED
    BY <1>1, <2>1, <2>3, <2>4 DEF RepairInv, RepairTypeOK
<1>3. CASE Lose
  <2>1. /\ sent' = sent + 1 /\ sent' \in 0..MaxEvents /\ lost' = lost \cup {sent + 1}
        /\ UNCHANGED <<seen, dropped, last, clean>>
    BY <1>1, <1>3 DEF Lose
  <2>2. seen' \in Seq(1..sent')
    BY <1>1, <2>1
  <2>3. \A i \in DOMAIN seen' : seen'[i] \notin lost'
    <3>1. \A i \in DOMAIN seen : seen[i] \in 1..sent
      BY <1>1
    <3>2. QED
      BY <3>1, <1>1, <2>1
  <2>4. QED
    BY <1>1, <2>1, <2>2, <2>3 DEF RepairInv, RepairTypeOK
<1>4. ASSUME NEW id \in 1..sent, Redeliver(id)
      PROVE  RepairInv'
  <2>1. /\ seen' = Append(seen, id) /\ lost' = lost \ {id} /\ Len(seen) < MaxSeen
        /\ UNCHANGED <<sent, dropped, last, clean>>
    BY <1>4 DEF Redeliver
  <2>2. seen' \in Seq(1..sent') /\ Len(seen') <= MaxSeen
    BY <1>1, <2>1
  <2>3. \A i \in DOMAIN seen' : seen'[i] \notin lost'
    BY <1>1, <2>1
  <2>4. QED
    BY <1>1, <2>1, <2>2, <2>3 DEF RepairInv, RepairTypeOK
<1>5. ASSUME NEW p \in DropPaths, Drop(p)
      PROVE  RepairInv'
  <2>1. dropped' = dropped \cup {p} /\ UNCHANGED <<sent, lost, seen, last, clean>>
    BY <1>5 DEF Drop
  <2>2. IsFiniteSet(dropped')
    BY <1>1, <2>1, FS_AddElement
  <2>3. QED
    BY <1>1, <2>1, <2>2 DEF RepairInv, RepairTypeOK
<1>6. ASSUME NEW health \in BOOLEAN, Checkpoint(health)
      PROVE  RepairInv'
  <2>1. /\ seen # <<>> /\ clean' = health /\ seen' = <<>> /\ dropped' = {} /\ UNCHANGED <<sent, lost>>
        /\ last' = CHOOSE id \in ToSet(seen) : \A other \in ToSet(seen) : other <= id
    BY <1>6 DEF Checkpoint
  <2>2. ToSet(seen) \subseteq 0..sent /\ ToSet(seen) # {} /\ sent \in Nat
    BY <1>1, <2>1 DEF ToSet
  <2>3. \E id \in ToSet(seen) : \A other \in ToSet(seen) : other <= id
    BY <2>2, GreatestNat
  <2>4. last' \in 0..sent'
    BY <2>1, <2>2, <2>3
  <2>5. QED
    BY <1>1, <2>1, <2>4, FS_EmptySet DEF RepairInv, RepairTypeOK
<1>7. CASE UNCHANGED repairVars
  BY <1>1, <1>7 DEF repairVars, RepairInv, RepairTypeOK
<1>8. QED
  BY <1>2, <1>3, <1>4, <1>5, <1>6, <1>7 DEF RepairNext

\* The observations are well-formed at first.
LEMMA RepairInitInv == RepairInit => RepairInv
<1> SUFFICES ASSUME RepairInit PROVE RepairInv
  OBVIOUS
<1>1. RepairTypeOK
  BY RepairAssumption DEF RepairInit, RepairTypeOK
<1>2. QED
  BY <1>1, FS_EmptySet DEF RepairInit, RepairInv

\* Types of the cursor and of what was observed since (FseventsCursor).
THEOREM RepairTypes == RepairSpec => []RepairTypeOK
<1>1. RepairInv => RepairTypeOK
  BY DEF RepairInv
<1>2. QED
  BY <1>1, RepairInitInv, RepairStep, PTL DEF RepairSpec

\* However event ids are lost, repeated and reordered, each lost event that a later
\* one has overtaken is scanned again, every subtree that needs a scan is scanned
\* exactly once, and with the highest priority (evaluate_checked,
\* coalesce_jobs_checked).
THEOREM RepairStaysExact == RepairSpec => []RepairIsExact
<1>1. RepairInv => RepairIsExact
  <2> SUFFICES ASSUME RepairInv PROVE RepairIsExact
    OBVIOUS
  <2>1. IsFiniteSet(Jobs) /\ Jobs \subseteq JobSet
    BY JobsFinite
  <2>2. KeptOK(coalesce_jobs, Cardinality(Jobs))
    BY <2>1, KeptIsExact
  <2>3. CoalescedIsExact
    <3>1. \A job \in Jobs : \E i \in 1..Cardinality(Jobs) : SortedJobs[i] = job
      BY <2>1, SortedIsSorting
    <3>2. \A j \in Jobs : IsCovered(j.path)
      BY <2>2, <3>1 DEF KeptOK, IsCovered
    <3>3. \A s \in coalesce_jobs, j \in Jobs : j.path = s.path => j.priority <= s.priority
      BY <2>2, <3>1 DEF KeptOK
    <3>4. QED
      BY <2>2, <3>2, <3>3 DEF KeptOK, CoalescedIsExact
  <2>4. LostIsRepaired
    <3> SUFFICES ASSUME NEW id \in lost, id > last, NEW i \in DOMAIN seen, seen[i] > id
                 PROVE  IsCovered(Root)
      BY DEF LostIsRepaired
    <3>1. PICK job \in Jobs : job.path = Root
      BY LostIsScheduled
    <3>2. QED
      BY <2>3, <3>1 DEF CoalescedIsExact
  <2>5. QED
    BY <2>3, <2>4 DEF RepairIsExact
<1>2. QED
  BY <1>1, RepairInitInv, RepairStep, PTL DEF RepairSpec
=============================================================================
