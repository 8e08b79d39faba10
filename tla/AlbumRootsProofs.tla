---------------------------- MODULE AlbumRootsProofs ---------------------------
(* Proofs about AlbumRoots for any number of albums, storages, paths and      *)
(* failures.  An album that no other creation and no deletion of a storage    *)
(* overlapped was alone from its first check to its commit, and what it found *)
(* then still holds when it is inserted.                                      *)
EXTENDS AlbumRoots, TLAPS

\* Two directories that hold a third one are one above the other.
LEMMA Comparable ==
  ASSUME NEW S, NEW p \in Seq(S), NEW q \in Seq(S), NEW s \in Seq(S),
         IsPrefix(p, s), IsPrefix(q, s)
  PROVE  PathsOverlap(p, q)
<1>1. ASSUME NEW a \in Seq(S), NEW b \in Seq(S), IsPrefix(a, s), IsPrefix(b, s), Len(a) <= Len(b)
      PROVE  IsPrefix(a, b)
  <2>1. \A i \in 1..Len(a) : a[i] = s[i]
    BY <1>1 DEF IsPrefix
  <2>2. \A i \in 1..Len(b) : b[i] = s[i]
    BY <1>1 DEF IsPrefix
  <2> QED BY <1>1, <2>1, <2>2 DEF IsPrefix
<1> QED BY <1>1 DEF PathsOverlap

\* A request that began has a primary root, and an album is in the table when
\* its request is over.
Begun == \A r \in Requests : /\ pc[r] # "new" => primary[r] # None
                             /\ album[r] # "none" => pc[r] = "done"

\* The types are kept by every statement of CreateAlbum, RemoveAlbum and Delete.
LEMMA RootsTypes == TypeOK /\ Begun /\ [Next]_vars => TypeOK' /\ Begun'
<1> SUFFICES ASSUME TypeOK, Begun, [Next]_vars PROVE TypeOK' /\ Begun'
  OBVIOUS
<1> USE RootsAssumption DEF tables, storages
<1>1. ASSUME NEW r \in Requests,
             Begin(r) \/ CheckPrimary(r) \/ CheckBackup(r) \/ ListBackup(r) \/ CheckMarker(r)
      PROVE  TypeOK' /\ Begun'
  <2>1. CASE Begin(r)
    <3>1. PICK p \in Roots : primary' = [primary EXCEPT ![r] = p]
      BY <2>1 DEF Begin
    <3>2. PICK b \in Roots \cup {None} : backup' = [backup EXCEPT ![r] = b]
      BY <2>1 DEF Begin
    <3>3. raced' \subseteq Requests
      BY <2>1 DEF TypeOK, Begin, UnderWay
    <3>4. p # None
      BY DEF Roots
    <3> QED BY <2>1, <3>1, <3>2, <3>3, <3>4 DEF TypeOK, Begun, Begin, Goto, At
  <2>2. CASE CheckPrimary(r)
    BY <2>2 DEF TypeOK, Begun, CheckPrimary, Goto, At, AfterPrimary, MadeFor
  <2>3. CASE CheckBackup(r)
    BY <2>3 DEF TypeOK, Begun, CheckBackup, Goto, At, MadeFor
  <2>4. CASE ListBackup(r)
    BY <2>4 DEF TypeOK, Begun, ListBackup, Goto, At
  <2>5. CASE CheckMarker(r)
    BY <2>5 DEF TypeOK, Begun, CheckMarker, Goto, At
  <2> QED BY <1>1, <2>1, <2>2, <2>3, <2>4, <2>5
<1>2. ASSUME NEW r \in Requests, WriteMarker(r) \/ Commit(r) \/ Fails(r) \/ RemoveAlbum(r)
      PROVE  TypeOK' /\ Begun'
  <2>1. CASE WriteMarker(r)
    <3>1. backup[r] \in Roots
      BY <2>1 DEF TypeOK, WriteMarker, At
    <3>2. marker' \in [Roots -> Requests \cup {None}]
      BY <2>1, <3>1 DEF TypeOK, WriteMarker
    <3>3. UNCHANGED <<tables, foreign, dirs, deleting, faults, raced>>
          /\ pc' = [pc EXCEPT ![r] = "committing"]
      BY <2>1 DEF WriteMarker, Goto
    <3> QED BY <2>1, <3>2, <3>3 DEF TypeOK, Begun, WriteMarker, At
  <2>2. CASE Commit(r)
    BY <2>2 DEF TypeOK, Begun, Commit, Goto, At
  <2>3. CASE Fails(r) \/ RemoveAlbum(r)
    BY <2>3 DEF TypeOK, Begun, Fails, RemoveAlbum, UnderWay, Goto, At
  <2> QED BY <1>2, <2>1, <2>2, <2>3
<1>3. ASSUME NEW s \in Storages, CountBindings(s) \/ DeleteStorage(s) PROVE TypeOK' /\ Begun'
  BY <1>3 DEF TypeOK, Begun, CountBindings, DeleteStorage, UnderWay
<1>4. CASE UNCHANGED vars
  BY <1>4 DEF TypeOK, Begun, vars
<1> QED BY <1>1, <1>2, <1>3, <1>4 DEF Next

\* A creation that nothing overlapped is alone.
Alone == \A r \in UnderWay \ raced : UnderWay = {r} /\ deleting = {}

\* Two roots that may both be bound, and a root with nothing foreign in it.
Clear(root) == \A x \in foreign : ~(x[1] = root[1] /\ IsPrefix(root[2], x[2]))

\* What a creation that nothing overlapped has found so far.
Found(r) ==
  /\ pc[r] # "primary" => Free(primary[r]) /\ primary[r][1] \in connected
  /\ pc[r] \notin {"primary", "backup"} /\ backup[r] # None =>
       Apart(primary[r], backup[r]) /\ Free(backup[r]) /\ backup[r][1] \in connected
  /\ pc[r] \notin {"primary", "backup", "listing"} /\ backup[r] # None => Clear(backup[r])
  /\ pc[r] = "committing" /\ backup[r] # None => marker[backup[r]] = r
Checked == \A r \in UnderWay \ raced : Found(r)

\* The same of a live album that nothing overlapped.
Housed(r) ==
  /\ \A x \in {primary[r], backup[r]} \ {None} : x[1] \in connected \ deleting
  /\ backup[r] # None => /\ Apart(primary[r], backup[r])
                         /\ Clear(backup[r])
                         /\ marker[backup[r]] = r
                         /\ \A q \in Requests : pc[q] = "writing" => backup[q] # backup[r]
Settled == \A r \in Live \ raced : Housed(r)

\* Two such albums share no directory.
Disjoint == \A r, q \in Live \ raced : r # q =>
  \A x \in {primary[r], backup[r]} \ {None}, y \in {primary[q], backup[q]} \ {None} : Apart(x, y)

RootsInv == TypeOK /\ Begun /\ Alone /\ Checked /\ Settled /\ Disjoint

\* What ensureNoOverlap looks for.
LEMMA FreeOf ==
  ASSUME NEW root
  PROVE  Free(root) <=> \A q \in Live : \A x \in {primary[q], backup[q]} \ {None} : Apart(root, x)
<1>1. \A x : x \in Bound <=> \E q \in Live : x \in {primary[q], backup[q]} \ {None}
  BY DEF Bound, Live
<1>2. \A x : Apart(root, x) <=> (x[1] = root[1] => ~PathsOverlap(root[2], x[2]))
  BY DEF Apart
<1> QED BY <1>1, <1>2 DEF Free

LEMMA ApartSymmetric == ASSUME NEW x, NEW y PROVE Apart(x, y) <=> Apart(y, x)
  BY DEF Apart, PathsOverlap

LEMMA AloneInductive == TypeOK /\ Alone /\ [Next]_vars => Alone'
<1> SUFFICES ASSUME TypeOK, Alone, [Next]_vars PROVE Alone'
  OBVIOUS
<1> USE DEF tables, storages
<1>1. ASSUME NEW r \in Requests, Begin(r) PROVE Alone'
  <2>1. UnderWay' = UnderWay \cup {r} /\ deleting' = deleting /\ r \notin UnderWay
    BY <1>1 DEF Begin, Goto, At, UnderWay, TypeOK
  <2>2. CASE UnderWay = {} /\ deleting = {}
    BY <2>1, <2>2 DEF Alone
  <2>3. CASE ~(UnderWay = {} /\ deleting = {})
    <3>1. raced' = raced \cup UnderWay \cup {r}
      BY <1>1, <2>3 DEF Begin
    <3> QED BY <2>1, <3>1 DEF Alone
  <2> QED BY <2>2, <2>3
<1>2. ASSUME NEW r \in Requests,
             \/ CheckPrimary(r) \/ CheckBackup(r) \/ ListBackup(r) \/ CheckMarker(r)
             \/ WriteMarker(r) \/ Commit(r) \/ Fails(r)
      PROVE  Alone'
  <2>1. UNCHANGED <<deleting, raced>> /\ r \in UnderWay
    BY <1>2 DEF CheckPrimary, CheckBackup, ListBackup, CheckMarker, WriteMarker, Commit, Fails,
                At, UnderWay
  <2>2. \E place : pc' = [pc EXCEPT ![r] = place]
    BY <1>2 DEF CheckPrimary, CheckBackup, ListBackup, CheckMarker, WriteMarker, Commit, Fails,
                Goto
  <2>3. UnderWay' \subseteq UnderWay
    BY <2>1, <2>2 DEF UnderWay, TypeOK
  <2> QED BY <2>1, <2>3 DEF Alone
<1>3. ASSUME NEW r \in Requests, RemoveAlbum(r) PROVE Alone'
  BY <1>3 DEF RemoveAlbum, Alone, UnderWay
<1>4. ASSUME NEW s \in Storages, CountBindings(s) PROVE Alone'
  BY <1>4 DEF CountBindings, Alone, UnderWay
<1>5. ASSUME NEW s \in Storages, DeleteStorage(s) PROVE Alone'
  BY <1>5 DEF DeleteStorage, Alone, UnderWay
<1>6. CASE UNCHANGED vars
  BY <1>6 DEF vars, Alone, UnderWay
<1> QED BY <1>1, <1>2, <1>3, <1>4, <1>5, <1>6 DEF Next

\* A root that is free stays free: roots of live albums become fewer.
LEMMA FreeStays ==
  ASSUME TypeOK, Begun, [Next]_vars, NEW root, Free(root),
         \A r \in Requests : album'[r] = "live" => album[r] = "live"
  PROVE  Free(root)'
<1> USE DEF tables, storages
<1>1. ASSUME NEW q \in Requests, album'[q] = "live"
      PROVE  album[q] = "live" /\ primary'[q] = primary[q] /\ backup'[q] = backup[q]
  <2>1. ASSUME NEW r \in Requests, Begin(r) PROVE q # r /\ album' = album
    BY <1>1, <2>1 DEF Begin, At, Begun
  <2>2. CASE \E r \in Requests : Begin(r)
    BY <1>1, <2>1, <2>2 DEF Begin, TypeOK
  <2>3. CASE ~\E r \in Requests : Begin(r)
    BY <1>1, <2>3 DEF Next, CheckPrimary, CheckBackup, ListBackup, CheckMarker, WriteMarker,
         Fails, Commit, RemoveAlbum, CountBindings, DeleteStorage, vars, TypeOK
  <2> QED BY <2>2, <2>3
<1>2. \A q \in Live' : \A x \in {primary'[q], backup'[q]} \ {None} : Apart(root, x)
  BY <1>1, FreeOf DEF Live
<1>3. Free(root)' <=> \A q \in Live' : \A x \in {primary'[q], backup'[q]} \ {None} : Apart(root, x)
  <2>1. \A x : x \in Bound' <=> \E q \in Live' : x \in {primary'[q], backup'[q]} \ {None}
    BY DEF Bound, Live
  <2> QED BY <2>1 DEF Free, Apart
<1> QED BY <1>2, <1>3

\* What a creation that nothing overlapped has found stays so until it is over.
LEMMA CheckedInductive == RootsInv /\ [Next]_vars => Checked'
<1> SUFFICES ASSUME RootsInv, [Next]_vars, NEW r \in UnderWay', r \notin raced' PROVE Found(r)'
  BY DEF Checked
<1> USE DEF tables, storages
<1>1. r \in Requests /\ raced \subseteq raced'
  <2>1. raced \subseteq raced'
    BY DEF Next, Begin, CheckPrimary, CheckBackup, ListBackup, CheckMarker, WriteMarker, Commit,
           Fails, RemoveAlbum, CountBindings, DeleteStorage, vars
  <2> QED BY <2>1 DEF UnderWay
<1>2. ASSUME NEW q \in Requests, Begin(q) PROVE Found(r)'
  <2>1. CASE q = r
    BY <1>2, <2>1 DEF Begin, Goto, RootsInv, TypeOK, Found
  <2>2. CASE q # r
    <3>1. r \in UnderWay
      BY <1>1, <1>2, <2>2 DEF Begin, Goto, RootsInv, TypeOK, UnderWay
    <3>2. r \in raced'
      BY <1>2, <3>1 DEF Begin
    <3> QED BY <3>2
  <2> QED BY <2>1, <2>2
<1>3. ASSUME r \in UnderWay PROVE Found(r) /\ UnderWay = {r} /\ deleting = {}
  BY <1>1, <1>3 DEF RootsInv, Checked, Alone
<1>4. ASSUME NEW q \in Requests,
             \/ CheckPrimary(q) \/ CheckBackup(q) \/ ListBackup(q) \/ CheckMarker(q)
             \/ WriteMarker(q) \/ Fails(q) \/ Commit(q)
      PROVE  Found(r)'
  <2>1. q \in UnderWay
    BY <1>4 DEF CheckPrimary, CheckBackup, ListBackup, CheckMarker, WriteMarker, Fails, Commit, At,
                UnderWay
  <2>2. \E place : pc' = [pc EXCEPT ![q] = place]
    BY <1>4 DEF CheckPrimary, CheckBackup, ListBackup, CheckMarker, WriteMarker, Fails, Commit,
                Goto
  <2>3. q = r /\ Found(r)
    <3>1. r \in UnderWay
      BY <1>1, <2>1, <2>2 DEF UnderWay, RootsInv, TypeOK
    <3> QED BY <1>3, <2>1, <3>1
  <2>4. ~Fails(r) /\ ~Commit(r)
    BY <1>1 DEF Fails, Commit, Goto, UnderWay, RootsInv, TypeOK
  <2>5. UNCHANGED <<album, primary, backup, connected, foreign>>
    BY <1>4, <2>3, <2>4 DEF CheckPrimary, CheckBackup, ListBackup, CheckMarker, WriteMarker
  <2>6. ASSUME NEW root, Free(root) PROVE Free(root)'
    BY <2>5, <2>6, FreeStays DEF RootsInv
  <2>7. CASE CheckPrimary(r)
    <3>1. pc'[r] # "done" => Free(primary[r]) /\ primary[r][1] \in connected
      BY <1>1, <2>7 DEF CheckPrimary, Goto, RootsInv, TypeOK
    <3>2. pc'[r] \in {"backup", "committing", "done"} /\ (pc'[r] = "committing" => backup[r] = None)
      BY <1>1, <2>7 DEF CheckPrimary, AfterPrimary, Goto, RootsInv, TypeOK
    <3>3. pc'[r] # "done"
      BY DEF UnderWay
    <3> QED BY <2>5, <2>6, <3>1, <3>2, <3>3 DEF Found
  <2>8. CASE CheckBackup(r)
    <3>1. pc'[r] # "done"
      BY DEF UnderWay
    <3>2. /\ pc[r] = "backup" /\ pc'[r] = "listing"
          /\ Apart(primary[r], backup[r]) /\ Free(backup[r]) /\ backup[r][1] \in connected
      BY <1>1, <2>8, <3>1 DEF CheckBackup, At, Goto, RootsInv, TypeOK
    <3> QED BY <2>3, <2>5, <2>6, <3>2 DEF Found, Apart
  <2>9. CASE ListBackup(r)
    <3>1. pc'[r] # "done"
      BY DEF UnderWay
    <3>2. pc[r] = "listing" /\ pc'[r] = "marking" /\ Empty(backup[r])
      BY <1>1, <2>9, <3>1 DEF ListBackup, At, Goto, RootsInv, TypeOK
    <3>3. Clear(backup[r])'
      BY <2>5, <3>2 DEF Empty, Clear
    <3> QED BY <2>3, <2>5, <2>6, <3>2, <3>3 DEF Found, Apart
  <2>10. CASE CheckMarker(r)
    <3>1. pc'[r] # "done"
      BY DEF UnderWay
    <3>2. pc[r] = "marking" /\ pc'[r] = "writing"
      BY <1>1, <2>10, <3>1 DEF CheckMarker, At, Goto, RootsInv, TypeOK
    <3> QED BY <2>3, <2>5, <2>6, <3>2 DEF Found, Apart, Clear
  <2>11. CASE WriteMarker(r)
    <3>1. pc[r] = "writing" /\ pc'[r] = "committing" /\ marker' = [marker EXCEPT ![backup[r]] = r]
      BY <1>1, <2>11 DEF WriteMarker, At, Goto, RootsInv, TypeOK
    <3>2. backup[r] # None => marker'[backup[r]] = r
      BY <1>1, <3>1 DEF RootsInv, TypeOK
    <3> QED BY <2>3, <2>5, <2>6, <3>1, <3>2 DEF Found, Apart, Clear
  <2> QED BY <1>4, <2>3, <2>4, <2>7, <2>8, <2>9, <2>10, <2>11
<1>5. ASSUME NEW q \in Requests, RemoveAlbum(q) PROVE Found(r)'
  <2>1. r \in UnderWay /\ UNCHANGED <<primary, backup, connected, foreign, marker, pc>>
        /\ \A a \in Requests : album'[a] = "live" => album[a] = "live"
    BY <1>5 DEF RemoveAlbum, UnderWay, RootsInv, TypeOK
  <2>2. ASSUME NEW root, Free(root) PROVE Free(root)'
    BY <2>1, <2>2, FreeStays DEF RootsInv
  <2> QED BY <1>3, <2>1, <2>2 DEF Found, Apart, Clear
<1>6. ASSUME NEW s \in Storages, CountBindings(s) PROVE Found(r)'
  BY <1>6 DEF CountBindings, UnderWay
<1>7. ASSUME NEW s \in Storages, DeleteStorage(s) PROVE Found(r)'
  BY <1>3, <1>7 DEF DeleteStorage, UnderWay
<1>8. CASE UNCHANGED vars
  <2>1. r \in UnderWay /\ UNCHANGED <<album, primary, backup, connected, foreign, marker, pc>>
    BY <1>8 DEF vars, UnderWay
  <2>2. ASSUME NEW root, Free(root) PROVE Free(root)'
    BY <2>1, <2>2, FreeStays DEF RootsInv
  <2> QED BY <1>3, <2>1, <2>2 DEF Found, Apart, Clear
<1> QED BY <1>2, <1>4, <1>5, <1>6, <1>7, <1>8 DEF Next

\* A live album keeps what it was created with.
LEMMA SettledInductive == RootsInv /\ [Next]_vars => Settled'
<1> SUFFICES ASSUME RootsInv, [Next]_vars, NEW r \in Live', r \notin raced' PROVE Housed(r)'
  BY DEF Settled
<1> USE RootsAssumption DEF tables, storages
<1>1. r \in Requests /\ r \notin raced
  <2>1. raced \subseteq raced'
    BY DEF Next, Begin, CheckPrimary, CheckBackup, ListBackup, CheckMarker, WriteMarker, Commit,
           Fails, RemoveAlbum, CountBindings, DeleteStorage, vars
  <2> QED BY <2>1 DEF Live
<1>2. CASE Commit(r)
  <2>1. /\ pc[r] = "committing" /\ pc' = [pc EXCEPT ![r] = "done"]
        /\ UNCHANGED <<primary, backup, connected, foreign, marker, deleting>>
    BY <1>2 DEF Commit, At, Goto
  <2>2. Found(r) /\ UnderWay = {r} /\ deleting = {}
    BY <1>1, <2>1 DEF RootsInv, Checked, Alone, UnderWay
  <2>3. \A q \in Requests : pc'[q] # "writing"
    BY <2>1, <2>2 DEF UnderWay, RootsInv, TypeOK
  <2> QED BY <2>1, <2>2, <2>3 DEF Found, Housed, Apart, Clear
<1>3. CASE ~Commit(r)
  <2>1. album[r] = "live"
    <3>1. ASSUME NEW q \in Requests, Commit(q) PROVE album[r] = "live"
      BY <1>1, <1>3, <3>1 DEF Commit, Live, RootsInv, TypeOK
    <3>2. ASSUME ~\E q \in Requests : Commit(q) PROVE album[r] = "live"
      BY <1>1, <3>2 DEF Next, Begin, CheckPrimary, CheckBackup, ListBackup, CheckMarker,
         WriteMarker, Fails, RemoveAlbum, CountBindings, DeleteStorage, vars, Live, RootsInv, TypeOK
    <3> QED BY <3>1, <3>2
  <2>2. Housed(r) /\ pc[r] = "done"
    BY <1>1, <2>1 DEF RootsInv, Settled, Live, Begun
  <2>3. ASSUME UNCHANGED <<primary, backup, connected, deleting, foreign, marker>>,
               \A q \in Requests : pc'[q] = "writing" => pc[q] = "writing"
        PROVE  Housed(r)'
    BY <2>2, <2>3 DEF Housed, Apart, Clear
  <2>4. ASSUME NEW q \in Requests, Begin(q) PROVE Housed(r)'
    <3>1. q # r /\ UNCHANGED <<connected, deleting, foreign, marker>>
      BY <2>2, <2>4 DEF Begin, At
    <3>2. primary'[r] = primary[r] /\ backup'[r] = backup[r]
      BY <1>1, <2>4, <3>1 DEF Begin, RootsInv, TypeOK
    <3>3. \A a \in Requests : pc'[a] = "writing" => pc[a] = "writing" /\ backup'[a] = backup[a]
      BY <2>4 DEF Begin, Goto, RootsInv, TypeOK
    <3> QED BY <2>2, <3>1, <3>2, <3>3 DEF Housed, Apart, Clear
  <2>5. ASSUME NEW q \in Requests, CheckMarker(q) PROVE Housed(r)'
    <3>1. /\ UNCHANGED <<primary, backup, connected, deleting, foreign, marker>>
          /\ pc' = [pc EXCEPT ![q] = IF marker[backup[q]] = None THEN "writing" ELSE "done"]
      BY <2>5 DEF CheckMarker, Goto
    <3>2. r # None /\ (backup[r] # None => marker[backup[r]] = r)
      BY <1>1, <2>2 DEF Housed
    <3>3. backup[r] # None => \A a \in Requests : pc'[a] = "writing" => backup[a] # backup[r]
      BY <2>2, <3>1, <3>2 DEF Housed, RootsInv, TypeOK
    <3> QED BY <2>2, <3>1, <3>3 DEF Housed, Apart, Clear
  <2>6. ASSUME NEW q \in Requests, WriteMarker(q) PROVE Housed(r)'
    <3>1. /\ UNCHANGED <<primary, backup, connected, deleting, foreign>>
          /\ pc[q] = "writing" /\ pc' = [pc EXCEPT ![q] = "committing"]
          /\ marker' = [marker EXCEPT ![backup[q]] = q]
      BY <2>6 DEF WriteMarker, At, Goto
    <3>2. backup[r] # None => marker'[backup[r]] = r
      BY <1>1, <2>2, <3>1 DEF Housed, RootsInv, TypeOK
    <3>3. \A a \in Requests : pc'[a] = "writing" => pc[a] = "writing"
      BY <3>1 DEF RootsInv, TypeOK
    <3> QED BY <2>2, <3>1, <3>2, <3>3 DEF Housed, Apart, Clear
  <2>7. ASSUME NEW q \in Requests,
               CheckPrimary(q) \/ CheckBackup(q) \/ ListBackup(q) \/ Commit(q) \/ Fails(q)
        PROVE  Housed(r)'
    <3>1. UNCHANGED <<primary, backup, connected, deleting, foreign, marker>>
      BY <2>7 DEF CheckPrimary, CheckBackup, ListBackup, Commit, Fails
    <3>2. \E place \in {"backup", "listing", "marking", "committing", "done"} :
            pc' = [pc EXCEPT ![q] = place]
      BY <2>7 DEF CheckPrimary, AfterPrimary, CheckBackup, ListBackup, Commit, Fails, Goto
    <3> QED BY <2>3, <3>1, <3>2 DEF RootsInv, TypeOK
  <2>8. CASE (\E q \in Requests : RemoveAlbum(q)) \/ UNCHANGED vars
    BY <2>3, <2>8 DEF RemoveAlbum, vars
  <2>9. ASSUME NEW s \in Storages, CountBindings(s) PROVE Housed(r)'
    <3>1. \A x \in {primary[r], backup[r]} \ {None} : x \in Bound
      <4>1. \A x : x \in Bound <=> \E q \in Live : x \in {primary[q], backup[q]} \ {None}
        BY DEF Bound, Live
      <4>2. r \in Live
        BY <1>1, <2>1 DEF Live
      <4> QED BY <4>1, <4>2
    <3>2. \A x \in {primary[r], backup[r]} \ {None} : x[1] # s
      BY <2>9, <3>1 DEF CountBindings, InUse
    <3>3. UNCHANGED <<primary, backup, connected, foreign, marker, pc>>
          /\ deleting' = deleting \cup {s}
      BY <2>9 DEF CountBindings
    <3> QED BY <2>2, <3>2, <3>3 DEF Housed, Apart, Clear
  <2>10. ASSUME NEW s \in Storages, DeleteStorage(s) PROVE Housed(r)'
    BY <2>2, <2>10 DEF DeleteStorage, Housed, Apart, Clear
  <2> QED BY <2>4, <2>5, <2>6, <2>7, <2>8, <2>9, <2>10 DEF Next
<1> QED BY <1>2, <1>3

\* A new album is bound to roots that no live album is bound to.
LEMMA DisjointInductive == RootsInv /\ [Next]_vars => Disjoint'
<1> SUFFICES ASSUME RootsInv, [Next]_vars,
                    NEW r \in Live', r \notin raced', NEW q \in Live', q \notin raced', r # q
             PROVE  (\A x \in {primary[r], backup[r]} \ {None},
                        y \in {primary[q], backup[q]} \ {None} : Apart(x, y))'
  BY DEF Disjoint
<1> USE DEF tables, storages
<1>1. r \in Requests /\ q \in Requests /\ r \notin raced /\ q \notin raced
  <2>1. raced \subseteq raced'
    BY DEF Next, Begin, CheckPrimary, CheckBackup, ListBackup, CheckMarker, WriteMarker, Commit,
           Fails, RemoveAlbum, CountBindings, DeleteStorage, vars
  <2> QED BY <2>1 DEF Live
<1>2. ASSUME NEW a \in Requests, NEW b \in Requests, Commit(a), album[b] = "live", a \notin raced
      PROVE  \A x \in {primary[a], backup[a]} \ {None}, y \in {primary[b], backup[b]} \ {None} :
               Apart(x, y)
  <2>1. Found(a) /\ pc[a] = "committing"
    BY <1>2 DEF Commit, At, UnderWay, RootsInv, Checked
  <2>2. \A x \in {primary[a], backup[a]} \ {None} : Free(x)
    BY <2>1 DEF Found
  <2> QED BY <1>2, <2>2, FreeOf DEF Live
<1>3. ASSUME NEW a \in Requests, Commit(a)
      PROVE  (\A x \in {primary[r], backup[r]} \ {None},
                 y \in {primary[q], backup[q]} \ {None} : Apart(x, y))'
  <2>1. UNCHANGED <<primary, backup>> /\ \A b \in Requests \ {a} : album'[b] = album[b]
    BY <1>3 DEF Commit, RootsInv, TypeOK
  <2>2. CASE a = r
    <3>1. album[q] = "live"
      BY <1>1, <2>1, <2>2 DEF Live
    <3> QED BY <1>1, <1>2, <1>3, <2>1, <2>2, <3>1 DEF Apart
  <2>3. CASE a = q
    <3>1. album[r] = "live"
      BY <1>1, <2>1, <2>3 DEF Live
    <3>2. \A x \in {primary[q], backup[q]} \ {None}, y \in {primary[r], backup[r]} \ {None} :
            Apart(x, y)
      BY <1>1, <1>2, <1>3, <2>3, <3>1
    <3> QED BY <2>1, <3>2, ApartSymmetric DEF Apart
  <2>4. CASE a # r /\ a # q
    <3>1. album[r] = "live" /\ album[q] = "live"
      BY <1>1, <2>1, <2>4 DEF Live
    <3> QED BY <1>1, <2>1, <3>1 DEF RootsInv, Disjoint, Live, Apart
  <2> QED BY <2>2, <2>3, <2>4
<1>4. CASE ~\E a \in Requests : Commit(a)
  <2>1. ASSUME NEW b \in Requests, album'[b] = "live"
        PROVE  album[b] = "live" /\ primary'[b] = primary[b] /\ backup'[b] = backup[b]
    <3>1. CASE \E a \in Requests : Begin(a)
      BY <2>1, <3>1 DEF Begin, At, RootsInv, Begun, TypeOK
    <3>2. CASE ~\E a \in Requests : Begin(a)
      BY <1>4, <2>1, <3>2 DEF Next, CheckPrimary, CheckBackup, ListBackup, CheckMarker,
         WriteMarker, Fails, RemoveAlbum, CountBindings, DeleteStorage, vars, RootsInv, TypeOK
    <3> QED BY <3>1, <3>2
  <2>2. /\ album[r] = "live" /\ primary'[r] = primary[r] /\ backup'[r] = backup[r]
        /\ album[q] = "live" /\ primary'[q] = primary[q] /\ backup'[q] = backup[q]
    BY <1>1, <2>1 DEF Live
  <2> QED BY <1>1, <2>2 DEF RootsInv, Disjoint, Live, Apart
<1> QED BY <1>3, <1>4

LEMMA RootsInit == Init => RootsInv
<1> SUFFICES ASSUME Init PROVE RootsInv
  OBVIOUS
<1>1. TypeOK
  BY RootsAssumption DEF Init, TypeOK, Roots
<1>2. UnderWay = {} /\ Live = {}
  BY DEF Init, UnderWay, Live
<1> QED BY <1>1, <1>2 DEF Init, RootsInv, Begun, Alone, Checked, Settled, Disjoint

THEOREM RootsInvariant == Spec => []RootsInv
<1>1. RootsInv /\ [Next]_vars => RootsInv'
  BY RootsTypes, AloneInductive, CheckedInductive, SettledInductive, DisjointInductive DEF RootsInv
<1> QED BY <1>1, RootsInit, PTL DEF Spec

\* No live album stands on a storage that was deleted (Manager.Delete), unless
\* a creation or a deletion overlapped its own.
THEOREM AlbumsHaveStorage == Spec => []AlbumHasStorageUnlessRaced
<1>1. RootsInv => AlbumHasStorageUnlessRaced
  BY DEF RootsInv, Settled, Housed, AlbumHasStorageUnlessRaced
<1> QED BY <1>1, RootsInvariant, PTL

\* A backup moves in where nothing is and keeps its marker (prepareBackupRoot),
\* under the same condition.
THEOREM BackupsAreTheirOwn == Spec => []BackupIsItsOwnUnlessRaced
<1>1. RootsInv => BackupIsItsOwnUnlessRaced
  BY DEF RootsInv, Settled, Housed, Clear, BackupIsItsOwnUnlessRaced
<1> QED BY <1>1, RootsInvariant, PTL

\* A directory belongs to one binding of one live album (ensureNoOverlap), under
\* the same condition.
THEOREM OneOwner == Spec => []OneOwnerUnlessRaced
<1>1. RootsInv => OneOwnerUnlessRaced
  <2>1. SUFFICES ASSUME RootsInv, NEW x \in Roots, NEW a \in Owners(x), NEW b \in Owners(x), a # b
                 PROVE  FALSE
    BY DEF OneOwnerUnlessRaced
  <2> DEFINE p == RootOf(a[1], a[2])
             q == RootOf(b[1], b[2])
  <2>2. /\ a[1] \in Live \ raced /\ b[1] \in Live \ raced
        /\ a[2] \in {"primary", "backup"} /\ b[2] \in {"primary", "backup"}
        /\ a = <<a[1], a[2]>> /\ b = <<b[1], b[2]>>
        /\ Holds(p, x) /\ Holds(q, x)
    BY <2>1 DEF Owners
  <2>3. p \in Roots /\ q \in Roots /\ p # None /\ q # None /\ p[1] = q[1]
    BY <2>1, <2>2 DEF Live, RootOf, Holds, RootsInv, TypeOK
  <2>4. PathsOverlap(p[2], q[2])
    <3>1. p[2] \in Seq(STRING) /\ q[2] \in Seq(STRING) /\ x[2] \in Seq(STRING)
      BY <2>3, RootsAssumption DEF Roots
    <3>2. IsPrefix(p[2], x[2]) /\ IsPrefix(q[2], x[2])
      BY <2>2 DEF Holds
    <3> QED BY <3>1, <3>2, Comparable
  <2>5. ~Apart(p, q) /\ ~Apart(q, p)
    BY <2>3, <2>4 DEF Apart, PathsOverlap
  <2>6. a[1] = b[1]
    <3>1. p \in {primary[a[1]], backup[a[1]]} \ {None} /\ q \in {primary[b[1]], backup[b[1]]} \ {None}
      BY <2>3 DEF RootOf
    <3> QED BY <2>1, <2>2, <2>5, <3>1 DEF RootsInv, Disjoint
  <2>7. {p, q} = {primary[a[1]], backup[a[1]]}
    BY <2>1, <2>2, <2>6 DEF RootOf
  <2> QED BY <2>1, <2>2, <2>3, <2>5, <2>6, <2>7 DEF RootsInv, Settled, Housed
<1> QED BY <1>1, RootsInvariant, PTL
===============================================================================
