--------------------------- MODULE UploadCommitProofs --------------------------
(* Proofs about UploadCommit for any number of requests, keys, names, copies  *)
(* and failures.  Two requests that are under way together and share a key or *)
(* a name are rivals, and their keys are raced; so whatever a request finds   *)
(* at its target besides its own content belongs to a raced key.              *)
EXTENDS UploadCommit, TLAPS

Places == {"new", "naming", "registering", "checking", "writing", "renaming",
           "stating", "refused", "indexing", "recording", "answering", "done"}

\* The types are kept by every statement of an upload.
LEMMA UploadTypes == TypeOK /\ [Next]_vars => TypeOK'
<1> SUFFICES ASSUME TypeOK, [Next]_vars PROVE TypeOK'
  OBVIOUS
<1> USE UploadAssumption DEF storage, rows, requests
<1>1. ASSUME NEW r \in Requests, RequestStep(r) PROVE TypeOK'
  <2>1. CASE Begin(r)
    <3>1. raced' \subseteq Keys
      BY <2>1 DEF TypeOK, Begin, Rivals
    <3> QED BY <2>1, <3>1 DEF TypeOK, Begin, Goto, At
  <2>2. CASE FindName(r)
    <3>1. CASE Goto(r, "done") /\ UNCHANGED target
      BY <2>2, <3>1 DEF TypeOK, FindName, Goto
    <3>2. ASSUME NEW i \in 0..MaxCopies, Goto(r, "registering"),
                 target' = [target EXCEPT ![r] = <<NameOf[r], i>>]
          PROVE  TypeOK'
      <4>1. <<NameOf[r], i>> \in Targets /\ <<NameOf[r], i>> # None
        BY DEF Targets
      <4> QED BY <2>2, <3>2, <4>1 DEF TypeOK, FindName, Goto
    <3> QED BY <2>2, <3>1, <3>2 DEF FindName
  <2>3. CASE Register(r)
    BY <2>3 DEF TypeOK, Register, Goto, At
  <2>4. CASE CheckConflict(r)
    BY <2>4 DEF TypeOK, CheckConflict, Goto, At
  <2>5. CASE WriteTemp(r)
    <3>1. Temp(r) \in Targets \cup Requests
      BY <2>5 DEF TypeOK, WriteTemp, At, Temp
    <3> QED BY <2>5, <3>1 DEF TypeOK, WriteTemp, Goto, At
  <2>6. CASE Rename(r)
    <3>1. Temp(r) \in Targets \cup Requests /\ target[r] \in Targets
      BY <2>6 DEF TypeOK, Rename, At, Temp
    <3> QED BY <2>6, <3>1 DEF TypeOK, Rename, Goto, At
  <2>7. CASE RenameNothing(r) \/ CreateRefused(r)
    BY <2>7 DEF TypeOK, RenameNothing, CreateRefused, Goto, At
  <2>8. CASE StatStored(r)
    <3>1. Object(r) \in Keys \cup {None}
      BY <2>8 DEF TypeOK, StatStored, At, Object
    <3> QED BY <2>8, <3>1 DEF TypeOK, StatStored, Goto, At
  <2>9. CASE Refuse(r)
    BY <2>9 DEF TypeOK, Refuse, Goto, At
  <2>10. CASE IndexIt(r)
    BY <2>10 DEF TypeOK, IndexIt, IndexedAs, Goto, At
  <2>11. CASE Record(r)
    BY <2>11 DEF TypeOK, Record, MediaId, IndexedAs, Goto, At
  <2>12. CASE Answer(r)
    BY <2>12 DEF TypeOK, Answer, IndexedAs, Goto, At
  <2> QED BY <1>1, <2>1, <2>2, <2>3, <2>4, <2>5, <2>6, <2>7, <2>8, <2>9, <2>10, <2>11, <2>12
          DEF RequestStep
<1>2. ASSUME NEW r \in Requests, PutFails(r) \/ Abandon(r) PROVE TypeOK'
  BY <1>2 DEF TypeOK, PutFails, Abandon, Fault, Goto
<1>3. CASE UNCHANGED vars
  BY <1>3 DEF TypeOK, vars
<1> QED BY <1>1, <1>2, <1>3 DEF Next

\* Every variable has its type, for any number of requests.
THEOREM UploadTypeCorrect == Spec => []TypeOK
<1>1. Init => TypeOK
  BY UploadAssumption DEF Init, TypeOK
<1> QED BY <1>1, UploadTypes, PTL DEF Spec

-------------------------------------------------------------------------------
(* Rivals *)

Rival(q, r) == q # r /\ (KeyOf[q] = KeyOf[r] \/ NameOf[q] = NameOf[r])

\* Requests that overlap and share a key or a name have raced keys.
RivalsRaced == \A q, r \in Requests :
  UnderWay(q) /\ UnderWay(r) /\ Rival(q, r) => KeyOf[q] \in raced /\ KeyOf[r] \in raced

\* Where a request has a target, which is a candidate for its name.
Located == {"registering", "checking", "writing", "renaming", "stating", "refused",
            "indexing", "recording", "answering"}
TargetIsOfName == \A r \in Requests : pc[r] \in Located => target[r] \in Targets /\ target[r][1] = NameOf[r]

RivalInv == TypeOK /\ RivalsRaced /\ TargetIsOfName

\* What every step does to a request: it begins, finds a target, or goes on.
Continues(r) == /\ UnderWay(r) /\ \E place \in Places \ {"new", "naming"} : Goto(r, place)
                /\ (pc[r] = "naming" => pc'[r] = "done")
                /\ UNCHANGED <<target, raced>>
LEMMA Moves ==
  ASSUME TypeOK, NEW r \in Requests, RequestStep(r) \/ PutFails(r) \/ Abandon(r)
  PROVE  Begin(r) \/ FindName(r) \/ Continues(r)
<1>1. CASE Register(r) \/ CheckConflict(r) \/ WriteTemp(r) \/ Rename(r)
  BY <1>1 DEF TypeOK, Register, CheckConflict, WriteTemp, Rename, Continues, UnderWay, At, Goto, Places
<1>2. CASE RenameNothing(r) \/ CreateRefused(r) \/ StatStored(r) \/ Refuse(r)
  BY <1>2 DEF TypeOK, RenameNothing, CreateRefused, StatStored, Refuse, Continues, UnderWay, At, Goto, Places
<1>3. CASE IndexIt(r) \/ Record(r) \/ Answer(r)
  BY <1>3 DEF TypeOK, IndexIt, Record, Answer, Continues, UnderWay, At, Goto, Places
<1>4. CASE PutFails(r) \/ Abandon(r)
  BY <1>4 DEF TypeOK, PutFails, Abandon, Continues, UnderWay, At, Goto, Places
<1> QED BY <1>1, <1>2, <1>3, <1>4 DEF RequestStep

LEMMA RivalStep == RivalInv /\ [Next]_vars => RivalInv'
<1> SUFFICES ASSUME RivalInv, [Next]_vars PROVE RivalInv'
  OBVIOUS
<1>1. TypeOK'
  BY UploadTypes DEF RivalInv
<1>2. ASSUME NEW r \in Requests, RequestStep(r) \/ PutFails(r) \/ Abandon(r)
      PROVE  RivalsRaced' /\ TargetIsOfName'
  <2>1. CASE Begin(r)
    <3>1. RivalsRaced'
      <4>1. raced \subseteq raced'
        BY <2>1 DEF Begin
      <4>2. \A q \in Requests : q # r => (UnderWay(q)' <=> UnderWay(q))
        BY <2>1 DEF RivalInv, TypeOK, Begin, Goto, UnderWay
      <4>3. ASSUME NEW q \in Requests, UnderWay(q), UnderWay(r)', Rival(q, r)
            PROVE  KeyOf[q] \in raced' /\ KeyOf[r] \in raced'
        <5>1. q \in Rivals(r)
          BY <4>3 DEF Rivals, Rival
        <5>2. raced' = raced \cup {KeyOf[x] : x \in Rivals(r) \cup {r}}
          <6>1. pc'[r] # "done"
            BY <4>3 DEF UnderWay
          <6> QED BY <2>1, <5>1, <6>1 DEF Begin, Goto, RivalInv, TypeOK
        <5> QED BY <5>1, <5>2
      <4>4. ASSUME NEW p \in Requests, NEW q \in Requests, UnderWay(p)', UnderWay(q)', Rival(p, q)
            PROVE  KeyOf[p] \in raced' /\ KeyOf[q] \in raced'
        <5>1. CASE p = r
          BY <4>2, <4>3, <4>4, <5>1 DEF Rival
        <5>2. CASE q = r
          BY <4>2, <4>3, <4>4, <5>2 DEF Rival
        <5>3. CASE p # r /\ q # r
          BY <4>1, <4>2, <4>4, <5>3 DEF RivalInv, RivalsRaced
        <5> QED BY <5>1, <5>2, <5>3
      <4> QED BY <4>4 DEF RivalsRaced, Rival
    <3>2. TargetIsOfName'
      BY <2>1 DEF RivalInv, TypeOK, TargetIsOfName, Begin, Goto, Located
    <3> QED BY <3>1, <3>2
  <2>2. CASE FindName(r)
    <3>1. UnderWay(r) /\ raced' = raced
      BY <2>2 DEF FindName, At, UnderWay
    <3>2. \A q \in Requests : UnderWay(q)' => UnderWay(q)
      BY <2>2, <3>1 DEF RivalInv, TypeOK, FindName, Goto, UnderWay
    <3>3. TargetIsOfName'
      <4>1. CASE Goto(r, "done") /\ UNCHANGED target
        BY <4>1 DEF RivalInv, TypeOK, TargetIsOfName, Goto, Located
      <4>2. ASSUME NEW i \in 0..MaxCopies, Goto(r, "registering"),
                   target' = [target EXCEPT ![r] = <<NameOf[r], i>>]
            PROVE  TargetIsOfName'
        <5>1. <<NameOf[r], i>> \in Targets
          BY UploadAssumption DEF Targets
        <5> QED BY <4>2, <5>1 DEF RivalInv, TypeOK, TargetIsOfName, Goto, Located
      <4> QED BY <2>2, <4>1, <4>2 DEF FindName
    <3> QED BY <3>1, <3>2, <3>3 DEF RivalInv, RivalsRaced, Rival
  <2>3. CASE Continues(r)
    <3>1. \A q \in Requests : UnderWay(q)' => UnderWay(q)
      BY <2>3 DEF RivalInv, TypeOK, Continues, Goto, UnderWay
    <3>2. \A q \in Requests : pc'[q] \in Located => pc[q] \in Located
      BY <2>3 DEF RivalInv, TypeOK, Continues, Goto, UnderWay, Located
    <3> QED BY <2>3, <3>1, <3>2 DEF Continues, RivalInv, RivalsRaced, TargetIsOfName, Rival
  <2> QED BY <1>2, <2>1, <2>2, <2>3, Moves DEF RivalInv
<1>3. CASE UNCHANGED vars
  <2>1. pc' = pc /\ target' = target /\ raced' = raced
    BY <1>3 DEF vars, requests
  <2>2. RivalsRaced'
    BY <2>1 DEF RivalInv, RivalsRaced, Rival, UnderWay
  <2>3. TargetIsOfName'
    BY <2>1 DEF RivalInv, TargetIsOfName
  <2> QED BY <1>1, <2>2, <2>3 DEF RivalInv
<1> QED BY <1>1, <1>2, <1>3 DEF Next, RivalInv

LEMMA RivalsAlways == Spec => []RivalInv
<1>1. Init => RivalInv
  BY UploadAssumption DEF Init, RivalInv, TypeOK, RivalsRaced, TargetIsOfName, UnderWay, Located
<1> QED BY <1>1, RivalStep, PTL DEF Spec
-------------------------------------------------------------------------------
(* What a request finds at its target *)

Choosing == {"registering", "checking", "writing", "renaming"}
Storing  == {"stating", "indexing", "recording", "answering"}
Unraced(r) == KeyOf[r] \notin raced

\* A chosen target is free but for files of raced keys.
ChosenIsFree == \A r \in Requests : pc[r] \in Choosing =>
  /\ files[target[r]] \in raced \cup {None}
  /\ Unraced(r) => files[target[r]] = None

\* A temporary file holds what its request wrote, or belongs to a raced key.
TempIsOwn == \A r \in Requests : pc[r] = "renaming" =>
  /\ temps[Temp(r)] \in {KeyOf[r], None} \cup raced
  /\ Unraced(r) => temps[Temp(r)] = KeyOf[r]

\* A stored file is what its request sent, or belongs to a raced key; and so is
\* the object that the index is about to name.
StoredIsOwn == \A r \in Requests : pc[r] \in Storing =>
  /\ files[target[r]] \in {KeyOf[r]} \cup raced
  /\ Unraced(r) => files[target[r]] = KeyOf[r]
  /\ pc[r] = "indexing" => stored[r] \in {KeyOf[r]} \cup raced

RequestInv == RivalInv /\ ChosenIsFree /\ TempIsOwn /\ StoredIsOwn

\* Requests that meet at a target or a temporary file are rivals.
LEMMA SameTarget ==
  ASSUME RivalInv, NEW q \in Requests, NEW r \in Requests, q # r,
         pc[q] \in Located, pc[r] \in Located,
         target[q] = target[r]
  PROVE  KeyOf[q] \in raced /\ KeyOf[r] \in raced
<1>1. UnderWay(q) /\ UnderWay(r)
  BY DEF Located, UnderWay
<1>2. Rival(q, r)
  BY DEF RivalInv, TargetIsOfName, Rival
<1> QED BY <1>1, <1>2 DEF RivalInv, RivalsRaced

LEMMA SameTemp ==
  ASSUME RivalInv, NEW q \in Requests, NEW r \in Requests, q # r,
         pc[q] \in Located, pc[r] \in Located,
         Temp(q) = Temp(r)
  PROVE  KeyOf[q] \in raced /\ KeyOf[r] \in raced
BY SameTarget DEF Temp

\* Steps that leave files, temporary files and targets alone and do not bring a
\* request to one of the places above keep the invariant.
LEMMA RequestKept ==
  ASSUME RequestInv, UNCHANGED <<kind, files, temps>>, raced \subseteq raced',
         \A r \in Requests :
           /\ pc'[r] \in Choosing \cup Storing => target'[r] = target[r]
           /\ pc'[r] \in Choosing => pc[r] \in Choosing
           /\ pc'[r] = "renaming" => pc[r] = "renaming"
           /\ pc'[r] \in Storing => pc[r] \in Storing
           /\ pc'[r] = "indexing" => pc[r] = "indexing" /\ stored'[r] = stored[r]
  PROVE  ChosenIsFree' /\ TempIsOwn' /\ StoredIsOwn'
<1>1. ChosenIsFree'
  BY DEF RequestInv, ChosenIsFree, Unraced, Choosing
<1>2. TempIsOwn'
  <2>1. \A r \in Requests : pc'[r] = "renaming" => Temp(r)' = Temp(r)
    BY DEF Temp, Choosing
  <2> QED BY <2>1 DEF RequestInv, TempIsOwn, Unraced
<1>3. StoredIsOwn'
  BY DEF RequestInv, StoredIsOwn, Unraced, Storing
<1> QED BY <1>1, <1>2, <1>3

LEMMA RequestStepKeeps == RequestInv /\ [Next]_vars => RequestInv'
<1> SUFFICES ASSUME RequestInv, [Next]_vars PROVE RequestInv'
  OBVIOUS
<1>1. RivalInv'
  BY RivalStep DEF RequestInv
<1>2. TypeOK /\ RivalInv
  BY DEF RequestInv, RivalInv
<1> USE DEF storage, rows, requests
<1>3. ASSUME NEW r \in Requests, FindName(r) PROVE ChosenIsFree' /\ TempIsOwn' /\ StoredIsOwn'
  <2>1. CASE Goto(r, "done") /\ UNCHANGED target
    BY <1>2, <1>3, <2>1, RequestKept DEF FindName, Goto, TypeOK, Choosing, Storing
  <2>2. ASSUME NEW i \in 0..MaxCopies, ~Exists(<<NameOf[r], i>>), Goto(r, "registering"),
               target' = [target EXCEPT ![r] = <<NameOf[r], i>>]
        PROVE  ChosenIsFree' /\ TempIsOwn' /\ StoredIsOwn'
    <3>1. files' = files /\ temps' = temps /\ kind' = kind /\ raced' = raced /\ stored' = stored
      BY <1>3 DEF FindName
    <3>2. target'[r] = <<NameOf[r], i>> /\ files[target'[r]] = None /\ pc'[r] = "registering"
      BY <1>2, <2>2 DEF TypeOK, Exists, Goto
    <3>3. \A q \in Requests \ {r} : target'[q] = target[q] /\ pc'[q] = pc[q]
      BY <1>2, <2>2 DEF TypeOK, Goto
    <3>4. ChosenIsFree'
      BY <3>1, <3>2, <3>3 DEF RequestInv, ChosenIsFree, Unraced
    <3>5. TempIsOwn'
      <4>1. \A q \in Requests \ {r} : Temp(q)' = Temp(q)
        BY <3>1, <3>3 DEF Temp
      <4> QED BY <3>1, <3>2, <3>3, <4>1 DEF RequestInv, TempIsOwn, Unraced
    <3>6. StoredIsOwn'
      BY <3>1, <3>2, <3>3 DEF RequestInv, StoredIsOwn, Unraced, Storing
    <3> QED BY <3>4, <3>5, <3>6
  <2> QED BY <1>3, <2>1, <2>2 DEF FindName
<1>4. ASSUME NEW r \in Requests, WriteTemp(r) PROVE ChosenIsFree' /\ TempIsOwn' /\ StoredIsOwn'
  <2>1. /\ files' = files /\ kind' = kind /\ raced' = raced /\ target' = target /\ stored' = stored
        /\ temps' = [temps EXCEPT ![Temp(r)] = KeyOf[r]]
    BY <1>4 DEF WriteTemp
  <2>2. pc[r] = "writing" /\ pc'[r] = "renaming" /\ \A q \in Requests \ {r} : pc'[q] = pc[q]
    BY <1>2, <1>4 DEF TypeOK, WriteTemp, At, Goto
  <2>3. ChosenIsFree'
    BY <2>1, <2>2 DEF RequestInv, ChosenIsFree, Unraced, Choosing
  <2>4. Temp(r) \in DOMAIN temps /\ \A q \in Requests : Temp(q)' = Temp(q)
    BY <1>2, <2>1, <2>2 DEF TypeOK, Temp
  <2>5. ASSUME NEW q \in Requests, pc'[q] = "renaming"
        PROVE  /\ temps'[Temp(q)] \in {KeyOf[q], None} \cup raced
               /\ Unraced(q) => temps'[Temp(q)] = KeyOf[q]
    <3>1. CASE q = r
      BY <2>1, <2>4, <3>1
    <3>2. CASE q # r /\ Temp(q) = Temp(r)
      BY <1>2, <2>1, <2>2, <2>4, <2>5, <3>2, SameTemp DEF Located, Unraced
    <3>3. CASE q # r /\ Temp(q) # Temp(r)
      BY <2>1, <2>2, <2>4, <2>5, <3>3 DEF RequestInv, TempIsOwn
    <3> QED BY <3>1, <3>2, <3>3
  <2>6. TempIsOwn'
    BY <2>1, <2>4, <2>5 DEF TempIsOwn, Unraced
  <2>7. StoredIsOwn'
    BY <2>1, <2>2 DEF RequestInv, StoredIsOwn, Unraced, Storing
  <2> QED BY <2>3, <2>6, <2>7
<1>5. ASSUME NEW r \in Requests, Rename(r) PROVE ChosenIsFree' /\ TempIsOwn' /\ StoredIsOwn'
  <2>1. /\ files' = [files EXCEPT ![target[r]] = temps[Temp(r)]]
        /\ temps' = [temps EXCEPT ![Temp(r)] = None]
        /\ kind' = kind /\ raced' = raced /\ target' = target /\ stored' = stored
        /\ temps[Temp(r)] # None
    BY <1>5 DEF Rename
  <2>2. pc[r] = "renaming" /\ pc'[r] = "stating" /\ \A q \in Requests \ {r} : pc'[q] = pc[q]
    BY <1>2, <1>5 DEF TypeOK, Rename, At, Goto
  <2>3. /\ temps[Temp(r)] \in {KeyOf[r]} \cup raced
        /\ Unraced(r) => temps[Temp(r)] = KeyOf[r]
    BY <2>1, <2>2 DEF RequestInv, TempIsOwn
  <2>4. target[r] \in DOMAIN files /\ Temp(r) \in DOMAIN temps /\ \A q \in Requests : Temp(q)' = Temp(q)
    BY <1>2, <2>1, <2>2 DEF TypeOK, Temp, RivalInv, TargetIsOfName, Located
  <2>5. ASSUME NEW q \in Requests, q # r, pc[q] \in Choosing \cup Storing, target[q] = target[r]
        PROVE  files'[target[q]] \in raced /\ ~Unraced(q)
    BY <1>2, <2>1, <2>2, <2>3, <2>4, <2>5, SameTarget DEF Located, Choosing, Storing, Unraced
  <2>6. \A x : x # target[r] => files'[x] = files[x]
    BY <1>2, <2>1 DEF TypeOK
  <2>7. ChosenIsFree'
    BY <2>1, <2>2, <2>5, <2>6 DEF RequestInv, ChosenIsFree, Unraced, Choosing
  <2>8. ASSUME NEW q \in Requests, pc'[q] = "renaming"
        PROVE  /\ temps'[Temp(q)] \in {KeyOf[q], None} \cup raced
               /\ Unraced(q) => temps'[Temp(q)] = KeyOf[q]
    <3>1. q # r
      BY <2>2, <2>8
    <3>2. CASE Temp(q) = Temp(r)
      BY <1>2, <2>1, <2>2, <2>4, <2>8, <3>1, <3>2, SameTemp DEF Located, Unraced
    <3>3. CASE Temp(q) # Temp(r)
      BY <2>1, <2>2, <2>4, <2>8, <3>1, <3>3 DEF RequestInv, TempIsOwn
    <3> QED BY <3>2, <3>3
  <2>9. TempIsOwn'
    BY <2>1, <2>4, <2>8 DEF TempIsOwn, Unraced
  <2>10. StoredIsOwn'
    <3>1. ASSUME NEW q \in Requests, pc'[q] \in Storing
          PROVE  /\ files'[target[q]] \in {KeyOf[q]} \cup raced
                 /\ Unraced(q) => files'[target[q]] = KeyOf[q]
                 /\ pc'[q] = "indexing" => stored[q] \in {KeyOf[q]} \cup raced
      <4>1. CASE q = r
        BY <2>1, <2>2, <2>3, <2>4, <4>1
      <4>2. CASE q # r /\ target[q] = target[r]
        BY <2>2, <2>5, <3>1, <4>2 DEF RequestInv, StoredIsOwn
      <4>3. CASE q # r /\ target[q] # target[r]
        BY <2>2, <2>6, <3>1, <4>3 DEF RequestInv, StoredIsOwn
      <4> QED BY <4>1, <4>2, <4>3
    <3> QED BY <2>1, <3>1 DEF StoredIsOwn, Unraced
  <2> QED BY <2>7, <2>9, <2>10
<1>6. ASSUME NEW r \in Requests, StatStored(r) PROVE ChosenIsFree' /\ TempIsOwn' /\ StoredIsOwn'
  <2>1. /\ files' = files /\ temps' = temps /\ kind' = kind /\ raced' = raced /\ target' = target
        /\ stored' = [stored EXCEPT ![r] = Object(r)]
    BY <1>6 DEF StatStored
  <2>2. pc[r] = "stating" /\ pc'[r] = "indexing" /\ \A q \in Requests \ {r} : pc'[q] = pc[q]
    BY <1>2, <1>6 DEF TypeOK, StatStored, At, Goto
  <2>3. stored'[r] \in {KeyOf[r]} \cup raced /\ \A q \in Requests \ {r} : stored'[q] = stored[q]
    BY <1>2, <2>1, <2>2 DEF TypeOK, Object, RequestInv, StoredIsOwn, Storing
  <2>4. ChosenIsFree'
    BY <2>1, <2>2 DEF RequestInv, ChosenIsFree, Unraced, Choosing
  <2>5. TempIsOwn'
    <3>1. \A q \in Requests : Temp(q)' = Temp(q)
      BY <2>1 DEF Temp
    <3> QED BY <2>1, <2>2, <3>1 DEF RequestInv, TempIsOwn, Unraced
  <2>6. StoredIsOwn'
    BY <2>1, <2>2, <2>3 DEF RequestInv, StoredIsOwn, Unraced, Storing
  <2> QED BY <2>4, <2>5, <2>6
<1>7. ASSUME NEW r \in Requests, Begin(r) PROVE ChosenIsFree' /\ TempIsOwn' /\ StoredIsOwn'
  BY <1>2, <1>7, RequestKept DEF Begin, Goto, TypeOK, Choosing, Storing
<1>8. ASSUME NEW r \in Requests, Register(r) \/ CheckConflict(r) \/ RenameNothing(r) \/ CreateRefused(r)
      PROVE  ChosenIsFree' /\ TempIsOwn' /\ StoredIsOwn'
  BY <1>2, <1>8, RequestKept DEF Register, CheckConflict, RenameNothing, CreateRefused, At, Goto,
                                 TypeOK, Choosing, Storing
<1>9. ASSUME NEW r \in Requests, Refuse(r) \/ IndexIt(r) \/ Record(r) \/ Answer(r)
      PROVE  ChosenIsFree' /\ TempIsOwn' /\ StoredIsOwn'
  BY <1>2, <1>9, RequestKept DEF Refuse, IndexIt, Record, Answer, At, Goto, TypeOK, Choosing, Storing
<1>10. ASSUME NEW r \in Requests, PutFails(r) \/ Abandon(r) PROVE ChosenIsFree' /\ TempIsOwn' /\ StoredIsOwn'
  BY <1>2, <1>10, RequestKept DEF PutFails, Abandon, At, Goto, TypeOK, Choosing, Storing
<1>11. CASE UNCHANGED vars
  BY <1>1, <1>11, RequestKept DEF vars, RequestInv
<1> QED BY <1>1, <1>3, <1>4, <1>5, <1>6, <1>7, <1>8, <1>9, <1>10, <1>11
        DEF Next, RequestStep, RequestInv

\* What requests find at their targets, for any number of them.
LEMMA RequestsAlways == Spec => []RequestInv
<1>1. Init => RequestInv
  <2> SUFFICES ASSUME Init PROVE ChosenIsFree /\ TempIsOwn /\ StoredIsOwn /\ RivalInv
    BY DEF RequestInv
  <2>1. RivalInv
    BY UploadAssumption DEF Init, RivalInv, TypeOK, RivalsRaced, TargetIsOfName, UnderWay, Located
  <2>2. \A r \in Requests : pc[r] = "new"
    BY DEF Init
  <2> QED BY <2>1, <2>2 DEF ChosenIsFree, TempIsOwn, StoredIsOwn, Choosing, Storing
<1> QED BY <1>1, RequestStepKeeps, PTL DEF Spec

-------------------------------------------------------------------------------
(* What the rows say *)

\* A request under way has not been answered, but by itself.
UnderWayIsUnanswered == \A r \in Requests : UnderWay(r) /\ Unraced(r) =>
  IF pc[r] = "answering"
  THEN status[KeyOf[r]] = "succeeded" /\ answer[KeyOf[r]] = target[r]
  ELSE status[KeyOf[r]] # "succeeded"

\* The item of a key that succeeded is there, and nobody has chosen its path.
AnswerIsKept == \A k \in Keys \ raced : status[k] = "succeeded" =>
  /\ answer[k] \in Targets /\ files[answer[k]] = k
  /\ \A q \in Requests : pc[q] \in Choosing => target[q] # answer[k]

\* Clients are told what the row says.
ToldIsAnswer == \A r \in Requests : told[r] # None /\ Unraced(r) =>
  status[KeyOf[r]] = "succeeded" /\ told[r] = answer[KeyOf[r]]

RowsInv == RequestInv /\ UnderWayIsUnanswered /\ AnswerIsKept /\ ToldIsAnswer

\* Steps that change neither rows nor files nor what clients were told, and do
\* not let a request choose a target or finish.
LEMMA RowsKept ==
  ASSUME RowsInv, UNCHANGED <<files, status, answer, told>>, raced \subseteq raced',
         \A r \in Requests :
           /\ UnderWay(r)' => UnderWay(r) /\ (pc'[r] = "answering" <=> pc[r] = "answering")
           /\ pc'[r] = "answering" => target'[r] = target[r]
           /\ pc'[r] \in Choosing => pc[r] \in Choosing /\ target'[r] = target[r]
  PROVE  UnderWayIsUnanswered' /\ AnswerIsKept' /\ ToldIsAnswer'
<1>1. UnderWayIsUnanswered'
  BY DEF RowsInv, UnderWayIsUnanswered, Unraced
<1>2. AnswerIsKept'
  BY DEF RowsInv, AnswerIsKept
<1>3. ToldIsAnswer'
  BY DEF RowsInv, ToldIsAnswer, Unraced
<1> QED BY <1>1, <1>2, <1>3

LEMMA RowsStep == RowsInv /\ [Next]_vars => RowsInv'
<1> SUFFICES ASSUME RowsInv, [Next]_vars PROVE RowsInv'
  OBVIOUS
<1>1. RequestInv'
  BY RequestStepKeeps DEF RowsInv
<1>2. TypeOK /\ RivalInv
  BY DEF RowsInv, RequestInv, RivalInv
<1> USE DEF storage, rows, requests
<1>3. ASSUME NEW r \in Requests, Begin(r)
      PROVE  UnderWayIsUnanswered' /\ AnswerIsKept' /\ ToldIsAnswer'
  <2>1. UNCHANGED <<files, status, answer, target>> /\ raced \subseteq raced' /\ pc[r] = "new"
    BY <1>3 DEF Begin, At
  <2>2. \A q \in Requests \ {r} : pc'[q] = pc[q] /\ told'[q] = told[q]
    BY <1>2, <1>3 DEF TypeOK, Begin, Goto
  <2>3. \/ Answered(KeyOf[r]) /\ pc'[r] = "done" /\ told'[r] = answer[KeyOf[r]]
        \/ ~Answered(KeyOf[r]) /\ pc'[r] = "naming" /\ told'[r] = told[r]
    BY <1>2, <1>3 DEF TypeOK, Begin, Goto
  <2>4. UnderWayIsUnanswered'
    BY <2>1, <2>2, <2>3 DEF RowsInv, UnderWayIsUnanswered, Unraced, UnderWay, Answered
  <2>5. AnswerIsKept'
    BY <2>1, <2>2, <2>3 DEF RowsInv, AnswerIsKept, Choosing
  <2>6. ToldIsAnswer'
    BY <2>1, <2>2, <2>3 DEF RowsInv, ToldIsAnswer, Unraced, Answered
  <2> QED BY <2>4, <2>5, <2>6
<1>4. ASSUME NEW r \in Requests, FindName(r)
      PROVE  UnderWayIsUnanswered' /\ AnswerIsKept' /\ ToldIsAnswer'
  <2>1. CASE Goto(r, "done") /\ UNCHANGED target
    BY <1>2, <1>4, <2>1, RowsKept DEF FindName, At, Goto, TypeOK, Choosing, UnderWay
  <2>2. ASSUME NEW i \in 0..MaxCopies, ~Exists(<<NameOf[r], i>>), Goto(r, "registering"),
               target' = [target EXCEPT ![r] = <<NameOf[r], i>>]
        PROVE  UnderWayIsUnanswered' /\ AnswerIsKept' /\ ToldIsAnswer'
    <3>1. UNCHANGED <<files, status, answer, told, raced>> /\ pc[r] = "naming"
      BY <1>4 DEF FindName, At
    <3>2. target'[r] = <<NameOf[r], i>> /\ files[target'[r]] = None /\ pc'[r] = "registering"
      BY <1>2, <2>2 DEF TypeOK, Exists, Goto
    <3>3. \A q \in Requests \ {r} : target'[q] = target[q] /\ pc'[q] = pc[q]
      BY <1>2, <2>2 DEF TypeOK, Goto
    <3>4. UnderWayIsUnanswered'
      BY <3>1, <3>2, <3>3 DEF RowsInv, UnderWayIsUnanswered, Unraced, UnderWay
    <3>5. AnswerIsKept'
      BY <3>1, <3>2, <3>3, UploadAssumption DEF RowsInv, AnswerIsKept
    <3>6. ToldIsAnswer'
      BY <3>1 DEF RowsInv, ToldIsAnswer, Unraced
    <3> QED BY <3>4, <3>5, <3>6
  <2> QED BY <1>4, <2>1, <2>2 DEF FindName
<1>5. ASSUME NEW r \in Requests, Register(r)
      PROVE  UnderWayIsUnanswered' /\ AnswerIsKept' /\ ToldIsAnswer'
  <2>1. UNCHANGED <<files, answer, told, raced, target>> /\ pc[r] = "registering" /\ pc'[r] = "checking"
    BY <1>2, <1>5 DEF TypeOK, Register, At, Goto
  <2>2. \A q \in Requests \ {r} : pc'[q] = pc[q]
    BY <1>2, <1>5 DEF TypeOK, Register, Goto
  <2>3. \A k \in Keys : status'[k] = "succeeded" <=> status[k] = "succeeded"
    BY <1>2, <1>5 DEF TypeOK, Register
  <2>4. \A q \in Requests : KeyOf[q] \in Keys
    BY UploadAssumption
  <2>5. UnderWayIsUnanswered'
    BY <2>1, <2>2, <2>3, <2>4 DEF RowsInv, UnderWayIsUnanswered, Unraced, UnderWay
  <2>6. AnswerIsKept'
    BY <2>1, <2>2, <2>3 DEF RowsInv, AnswerIsKept, Choosing
  <2>7. ToldIsAnswer'
    BY <2>1, <2>3, <2>4 DEF RowsInv, ToldIsAnswer, Unraced
  <2> QED BY <2>5, <2>6, <2>7
<1>6. ASSUME NEW r \in Requests, Rename(r)
      PROVE  UnderWayIsUnanswered' /\ AnswerIsKept' /\ ToldIsAnswer'
  <2>1. /\ files' = [files EXCEPT ![target[r]] = temps[Temp(r)]]
        /\ UNCHANGED <<status, answer, told, raced, target>>
        /\ pc[r] = "renaming" /\ pc'[r] = "stating"
    BY <1>2, <1>6 DEF TypeOK, Rename, At, Goto
  <2>2. \A q \in Requests \ {r} : pc'[q] = pc[q]
    BY <1>2, <1>6 DEF TypeOK, Rename, Goto
  <2>3. \A x : x # target[r] => files'[x] = files[x]
    BY <1>2, <2>1 DEF TypeOK
  <2>4. UnderWayIsUnanswered'
    BY <2>1, <2>2 DEF RowsInv, UnderWayIsUnanswered, Unraced, UnderWay
  <2>5. AnswerIsKept'
    BY <2>1, <2>2, <2>3 DEF RowsInv, AnswerIsKept, Choosing
  <2>6. ToldIsAnswer'
    BY <2>1 DEF RowsInv, ToldIsAnswer, Unraced
  <2> QED BY <2>4, <2>5, <2>6
<1>7. ASSUME NEW r \in Requests, Refuse(r)
      PROVE  UnderWayIsUnanswered' /\ AnswerIsKept' /\ ToldIsAnswer'
  <2>1. /\ status' = [status EXCEPT ![KeyOf[r]] = "failed"]
        /\ UNCHANGED <<files, answer, told, raced, target>>
        /\ pc[r] = "refused" /\ pc'[r] = "done"
    BY <1>2, <1>7 DEF TypeOK, Refuse, At, Goto
  <2>2. \A q \in Requests \ {r} : pc'[q] = pc[q]
    BY <1>2, <1>7 DEF TypeOK, Refuse, Goto
  <2>3. UnderWay(r) /\ KeyOf[r] \in Keys
    BY <2>1, UploadAssumption DEF UnderWay
  <2>4. \A k \in Keys : k # KeyOf[r] => status'[k] = status[k]
    BY <1>2, <2>1 DEF TypeOK
  <2>5. status'[KeyOf[r]] = "failed"
    BY <1>2, <2>1, <2>3 DEF TypeOK
  <2>6. Unraced(r) => status[KeyOf[r]] # "succeeded"
    BY <2>1, <2>3 DEF RowsInv, UnderWayIsUnanswered
  <2>7. UnderWayIsUnanswered'
    <3>1. ASSUME NEW q \in Requests, UnderWay(q)', Unraced(q)
          PROVE  KeyOf[q] # KeyOf[r] /\ UnderWay(q)
      BY <1>2, <2>1, <2>2, <2>3, <3>1 DEF RivalInv, RivalsRaced, Rival, UnderWay, Unraced
    <3>2. \A q \in Requests : KeyOf[q] \in Keys
      BY UploadAssumption
    <3>3. \A q \in Requests : Unraced(q)' <=> Unraced(q)
      BY <2>1 DEF Unraced
    <3>4. \A q \in Requests : UnderWay(q)' => q # r
      BY <2>1 DEF UnderWay
    <3> QED BY <2>1, <2>2, <2>4, <3>1, <3>2, <3>3, <3>4 DEF RowsInv, UnderWayIsUnanswered
  <2>8. AnswerIsKept'
    BY <2>1, <2>2, <2>4, <2>5 DEF RowsInv, AnswerIsKept, Choosing
  <2>9. ToldIsAnswer'
    <3>1. \A q \in Requests : KeyOf[q] \in Keys
      BY UploadAssumption
    <3> QED BY <2>1, <2>4, <2>6, <3>1 DEF RowsInv, ToldIsAnswer, Unraced
  <2> QED BY <2>7, <2>8, <2>9
<1>8. ASSUME NEW r \in Requests, Record(r)
      PROVE  UnderWayIsUnanswered' /\ AnswerIsKept' /\ ToldIsAnswer'
  <2>1. /\ status' = [status EXCEPT ![KeyOf[r]] = "succeeded"]
        /\ answer' = [answer EXCEPT ![KeyOf[r]] = target[r]]
        /\ UNCHANGED <<files, told, raced, target>>
        /\ pc[r] = "recording" /\ pc'[r] = "answering"
    BY <1>2, <1>8 DEF TypeOK, Record, MediaId, IndexedAs, At, Goto
  <2>2. \A q \in Requests \ {r} : pc'[q] = pc[q]
    BY <1>2, <1>8 DEF TypeOK, Record, Goto
  <2>3. UnderWay(r) /\ KeyOf[r] \in Keys /\ pc[r] \in Located /\ pc[r] \in Storing
    BY <2>1, UploadAssumption DEF UnderWay, Located, Storing
  <2>4. \A k \in Keys : k # KeyOf[r] => status'[k] = status[k] /\ answer'[k] = answer[k]
    BY <1>2, <2>1 DEF TypeOK
  <2>5. status'[KeyOf[r]] = "succeeded" /\ answer'[KeyOf[r]] = target[r]
    BY <1>2, <2>1, <2>3 DEF TypeOK
  <2>6. \A q \in Requests : KeyOf[q] \in Keys
    BY UploadAssumption
  <2>7. \A q \in Requests : Unraced(q)' <=> Unraced(q)
    BY <2>1 DEF Unraced
  <2>8. UnderWayIsUnanswered'
    <3>1. ASSUME NEW q \in Requests, q # r, UnderWay(q)', Unraced(q)
          PROVE  KeyOf[q] # KeyOf[r] /\ UnderWay(q)
      BY <1>2, <2>1, <2>2, <2>3, <3>1 DEF RivalInv, RivalsRaced, Rival, UnderWay, Unraced
    <3> QED BY <2>1, <2>2, <2>4, <2>5, <2>6, <2>7, <3>1 DEF RowsInv, UnderWayIsUnanswered
  <2>9. AnswerIsKept'
    <3>1. ASSUME NEW k \in Keys \ raced, status'[k] = "succeeded", k # KeyOf[r]
          PROVE  /\ answer'[k] \in Targets /\ files[answer'[k]] = k
                 /\ \A q \in Requests : pc'[q] \in Choosing => target[q] # answer'[k]
      BY <2>1, <2>2, <2>4, <3>1 DEF RowsInv, AnswerIsKept, Choosing
    <3>2. ASSUME Unraced(r)
          PROVE  /\ target[r] \in Targets /\ files[target[r]] = KeyOf[r]
                 /\ \A q \in Requests : pc'[q] \in Choosing => target[q] # target[r]
      <4>1. target[r] \in Targets /\ files[target[r]] = KeyOf[r]
        BY <1>2, <2>3, <3>2 DEF RivalInv, TargetIsOfName, RowsInv, RequestInv, StoredIsOwn
      <4>2. ASSUME NEW q \in Requests, pc'[q] \in Choosing PROVE target[q] # target[r]
        <5>1. q # r /\ pc[q] \in Located
          BY <2>1, <2>2, <4>2 DEF Choosing, Located
        <5> QED BY <1>2, <2>3, <3>2, <5>1, SameTarget DEF Unraced
      <4> QED BY <4>1, <4>2
    <3> QED BY <2>1, <2>5, <3>1, <3>2 DEF AnswerIsKept, Unraced
  <2>10. ToldIsAnswer'
    <3>1. ASSUME NEW q \in Requests, told[q] # None, Unraced(q) PROVE KeyOf[q] # KeyOf[r]
      BY <2>1, <2>3, <3>1 DEF RowsInv, ToldIsAnswer, UnderWayIsUnanswered, Unraced
    <3> QED BY <2>1, <2>4, <2>6, <2>7, <3>1 DEF RowsInv, ToldIsAnswer
  <2> QED BY <2>8, <2>9, <2>10
<1>9. ASSUME NEW r \in Requests, Answer(r)
      PROVE  UnderWayIsUnanswered' /\ AnswerIsKept' /\ ToldIsAnswer'
  <2>1. /\ told' = [told EXCEPT ![r] = target[r]]
        /\ UNCHANGED <<files, status, answer, raced, target>>
        /\ pc[r] = "answering" /\ pc'[r] = "done"
    BY <1>2, <1>9 DEF TypeOK, Answer, IndexedAs, At, Goto
  <2>2. \A q \in Requests \ {r} : pc'[q] = pc[q] /\ told'[q] = told[q]
    BY <1>2, <1>9 DEF TypeOK, Answer, Goto
  <2>3. told'[r] = target[r] /\ UnderWay(r)
    BY <1>2, <2>1 DEF TypeOK, UnderWay
  <2>4. UnderWayIsUnanswered'
    BY <2>1, <2>2 DEF RowsInv, UnderWayIsUnanswered, Unraced, UnderWay
  <2>5. AnswerIsKept'
    BY <2>1, <2>2 DEF RowsInv, AnswerIsKept, Choosing
  <2>6. ToldIsAnswer'
    BY <2>1, <2>2, <2>3 DEF RowsInv, ToldIsAnswer, UnderWayIsUnanswered, Unraced
  <2> QED BY <2>4, <2>5, <2>6
<1>10. ASSUME NEW r \in Requests,
              CheckConflict(r) \/ WriteTemp(r) \/ RenameNothing(r) \/ CreateRefused(r)
       PROVE  UnderWayIsUnanswered' /\ AnswerIsKept' /\ ToldIsAnswer'
  BY <1>2, <1>10, RowsKept DEF CheckConflict, WriteTemp, RenameNothing, CreateRefused, At, Goto,
                               TypeOK, Choosing, UnderWay
<1>11. ASSUME NEW r \in Requests, StatStored(r) \/ IndexIt(r)
       PROVE  UnderWayIsUnanswered' /\ AnswerIsKept' /\ ToldIsAnswer'
  BY <1>2, <1>11, RowsKept DEF StatStored, IndexIt, At, Goto, TypeOK, Choosing, UnderWay
<1>12. ASSUME NEW r \in Requests, PutFails(r) \/ Abandon(r)
       PROVE  UnderWayIsUnanswered' /\ AnswerIsKept' /\ ToldIsAnswer'
  BY <1>2, <1>12, RowsKept DEF PutFails, Abandon, At, Goto, TypeOK, Choosing, UnderWay
<1>13. CASE UNCHANGED vars
  <2>1. UNCHANGED <<files, status, answer, told, raced, pc, target>>
    BY <1>13 DEF vars
  <2>2. UnderWayIsUnanswered' /\ AnswerIsKept' /\ ToldIsAnswer'
    BY <2>1, RowsKept DEF UnderWay
  <2> QED BY <1>1, <2>2 DEF RowsInv
<1> QED BY <1>1, <1>3, <1>4, <1>5, <1>6, <1>7, <1>8, <1>9, <1>10, <1>11, <1>12, <1>13
        DEF Next, RequestStep, RowsInv

\* The inductive invariant of uploads: what rivals do is raced, what a request
\* finds at its target is its own or raced, and the rows of keys that are not
\* raced tell the truth.
THEOREM UploadInvariant == Spec => []RowsInv
<1>1. RequestInv /\ Init => RowsInv
  BY DEF Init, RowsInv, UnderWayIsUnanswered, AnswerIsKept, ToldIsAnswer, UnderWay
<1>2. RequestInv /\ RowsInv /\ [Next]_vars => RowsInv'
  BY RowsStep
<1> QED BY <1>1, <1>2, RequestsAlways, PTL DEF Spec

\* A file the client was told about stays as it was sent, for any number of
\* requests that do not overlap with one of their key or name.
THEOREM ToldStays == Spec => []ToldIsKeptUnlessRaced
<1>1. RowsInv => ToldIsKeptUnlessRaced
  BY UploadAssumption DEF RowsInv, ToldIsAnswer, AnswerIsKept, ToldIsKeptUnlessRaced, Unraced
<1> QED BY <1>1, UploadInvariant, PTL

\* A key is answered with one item.
THEOREM OneItem == Spec => []OneItemPerKeyUnlessRaced
<1>1. RowsInv => OneItemPerKeyUnlessRaced
  BY DEF RowsInv, ToldIsAnswer, OneItemPerKeyUnlessRaced, Unraced
<1> QED BY <1>1, UploadInvariant, PTL

-------------------------------------------------------------------------------
(* The index *)

\* What the index names is there, besides.
IndexInv == RowsInv /\ IndexIsTrueUnlessRaced /\ \A t \in Targets : index[t] # None => files[t] # None

LEMMA IndexStep == IndexInv /\ [Next]_vars => IndexInv'
<1> SUFFICES ASSUME IndexInv, [Next]_vars PROVE IndexInv'
  OBVIOUS
<1> DEFINE There == \A t \in Targets : index[t] # None => files[t] # None
<1>1. RowsInv'
  BY RowsStep DEF IndexInv
<1>2. TypeOK /\ RequestInv /\ There /\ IndexIsTrueUnlessRaced
  BY DEF IndexInv, RowsInv, RequestInv, RivalInv
<1> USE DEF storage, rows, requests
<1>3. ASSUME NEW r \in Requests, Rename(r) PROVE IndexIsTrueUnlessRaced' /\ There'
  <2>1. /\ files' = [files EXCEPT ![target[r]] = temps[Temp(r)]]
        /\ index' = index /\ raced' = raced /\ temps[Temp(r)] # None /\ pc[r] = "renaming"
    BY <1>3 DEF Rename, At
  <2>2. target[r] \in Targets /\ temps[Temp(r)] \in {KeyOf[r]} \cup raced
    BY <1>2, <2>1 DEF RequestInv, RivalInv, TargetIsOfName, TempIsOwn, Located
  <2>3. Unraced(r) => files[target[r]] = None
    BY <1>2, <2>1 DEF RequestInv, ChosenIsFree, Choosing
  <2>4. \A t \in Targets : files'[t] = IF t = target[r] THEN temps[Temp(r)] ELSE files[t]
    BY <1>2, <2>1 DEF TypeOK
  <2>5. There'
    BY <1>2, <2>1, <2>4
  <2>6. IndexIsTrueUnlessRaced'
    BY <1>2, <2>1, <2>2, <2>3, <2>4 DEF IndexIsTrueUnlessRaced, Unraced
  <2> QED BY <2>5, <2>6
<1>4. ASSUME NEW r \in Requests, IndexIt(r) PROVE IndexIsTrueUnlessRaced' /\ There'
  <2>1. /\ index' = [index EXCEPT ![target[r]] = stored[r]]
        /\ files' = files /\ raced' = raced /\ pc[r] = "indexing"
    BY <1>4 DEF IndexIt, IndexedAs, At
  <2>2. /\ target[r] \in Targets
        /\ stored[r] \in {KeyOf[r]} \cup raced /\ files[target[r]] \in {KeyOf[r]} \cup raced
    BY <1>2, <2>1 DEF RequestInv, RivalInv, TargetIsOfName, StoredIsOwn, Located, Storing
  <2>3. \A t \in Targets : index'[t] = IF t = target[r] THEN stored[r] ELSE index[t]
    BY <1>2, <2>1 DEF TypeOK
  <2>4. None \notin {KeyOf[r]} \cup raced
    BY <1>2, UploadAssumption DEF TypeOK
  <2>5. There'
    BY <1>2, <2>1, <2>2, <2>3, <2>4
  <2>6. IndexIsTrueUnlessRaced'
    BY <1>2, <2>1, <2>2, <2>3 DEF IndexIsTrueUnlessRaced
  <2> QED BY <2>5, <2>6
<1>5. ASSUME UNCHANGED <<files, index>>, raced \subseteq raced' PROVE IndexIsTrueUnlessRaced' /\ There'
  BY <1>2, <1>5 DEF IndexIsTrueUnlessRaced
<1>6. ASSUME NEW r \in Requests,
             Begin(r) \/ FindName(r) \/ Register(r) \/ CheckConflict(r) \/ WriteTemp(r)
             \/ RenameNothing(r) \/ CreateRefused(r)
      PROVE  UNCHANGED <<files, index>> /\ raced \subseteq raced'
  BY <1>6 DEF Begin, FindName, Register, CheckConflict, WriteTemp, RenameNothing, CreateRefused
<1>7. ASSUME NEW r \in Requests,
             StatStored(r) \/ Refuse(r) \/ Record(r) \/ Answer(r) \/ PutFails(r) \/ Abandon(r)
      PROVE  UNCHANGED <<files, index>> /\ raced \subseteq raced'
  BY <1>7 DEF StatStored, Refuse, Record, Answer, PutFails, Abandon
<1>8. CASE UNCHANGED vars
  <2>1. UNCHANGED <<files, index>> /\ raced \subseteq raced'
    BY <1>8 DEF vars
  <2> QED BY <1>1, <1>5, <2>1 DEF IndexInv
<1> QED BY <1>1, <1>3, <1>4, <1>5, <1>6, <1>7, <1>8 DEF Next, RequestStep, IndexInv

\* The index names no content that is not stored under its path, whatever was
\* given up, for any number of requests.
THEOREM IndexIsTrue == Spec => []IndexIsTrueUnlessRaced
<1>1. RowsInv /\ Init => IndexInv
  BY DEF Init, IndexInv, IndexIsTrueUnlessRaced
<1>2. RowsInv /\ IndexInv /\ [Next]_vars => IndexInv'
  BY IndexStep
<1>3. IndexInv => IndexIsTrueUnlessRaced
  BY DEF IndexInv
<1> QED BY <1>1, <1>2, <1>3, UploadInvariant, PTL DEF Spec
===============================================================================
