---------------------------- MODULE Popup_proofs ----------------------------
(***************************************************************************)
(* Proofs about the parts of the popup that keep a state of their own: the *)
(* key of the explanation service, the profile and the log it shares with  *)
(* the worker, and the explanations; and about the reports made of the     *)
(* savings, which the popup's history is one of.  For each, its inductive  *)
(* invariant and what follows from it, for all values of its constants.    *)
(***************************************************************************)
EXTENDS ApiKeyStore, ProfileStore, Explanations, SavingsReports, Packages_proofs,
        SequenceTheorems

-----------------------------------------------------------------------------
(* Sequences                                                               *)

\* removing an element closes the gap
LEMMA RemoveAtProperties ==
    ASSUME NEW S, NEW s \in Seq(S), NEW i \in 1..Len(s)
    PROVE  /\ RemoveAt(s, i) \in Seq(S)
           /\ Len(RemoveAt(s, i)) = Len(s) - 1
           /\ \A j \in 1..Len(s) - 1 : RemoveAt(s, i)[j] = IF j < i THEN s[j] ELSE s[j + 1]
<1> DEFINE before == SubSeq(s, 1, i - 1)
           after == SubSeq(s, i + 1, Len(s))
<1>1. /\ before \in Seq(S) /\ Len(before) = i - 1
      /\ \A j \in 1..i - 1 : before[j] = s[j]
  OBVIOUS
<1>2. /\ after \in Seq(S) /\ Len(after) = Len(s) - i
      /\ \A j \in 1..Len(s) - i : after[j] = s[j + i]
  OBVIOUS
<1> HIDE DEF before, after
<1>3. /\ before \o after \in Seq(S)
      /\ Len(before \o after) = Len(before) + Len(after)
      /\ \A j \in 1..Len(before) + Len(after) : (before \o after)[j] =
            IF j <= Len(before) THEN before[j] ELSE after[j - Len(before)]
  BY <1>1, <1>2, ConcatProperties
<1>4. Len(before) + Len(after) = Len(s) - 1
  BY <1>1, <1>2
<1>5. ASSUME NEW j \in 1..Len(s) - 1
      PROVE  (before \o after)[j] = IF j < i THEN s[j] ELSE s[j + 1]
  <2>1. CASE j < i
    BY <1>1, <1>3, <1>4, <2>1
  <2>2. CASE ~(j < i)
    <3>1. j - (i - 1) \in 1..Len(s) - i /\ (j - (i - 1)) + i = j + 1
      BY <2>2
    <3>2. after[j - (i - 1)] = s[j + 1]
      BY <1>2, <3>1
    <3>3. (before \o after)[j] = after[j - (i - 1)]
      BY <1>1, <1>3, <1>4, <2>2
    <3> QED
      BY <2>2, <3>2, <3>3
  <2> QED
    BY <2>1, <2>2
<1> QED
  BY <1>3, <1>4, <1>5 DEF RemoveAt, before, after

-----------------------------------------------------------------------------
(* ApiKeyStore: any keys, however many changes are under way               *)

KeyOrNone == {NoKey} \cup ApiKeys

Tasks == [kind : {"store", "revoke"}, key : KeyOrNone, remember : BOOLEAN,
          area : {"session", "local"}]

KeyTypeOK ==
    /\ keys \in [session : KeyOrNone, local : KeyOrNone, remember : BOOLEAN]
    /\ settings \in [loading : {"closed", "key", "flag", "done"}, key : KeyTexts,
                     remember : BOOLEAN]
    /\ keyTasks \in Seq(Tasks)
    /\ excused \in BOOLEAN /\ revoked \in BOOLEAN
    /\ \A i \in 1..Len(keyTasks) :
        keyTasks[i].kind = "revoke" => keyTasks[i].key = NoKey /\ ~keyTasks[i].remember

\* those that are at their second call are in front, and the session has the
\* key of the last of them
TasksInOrder ==
    \A i \in 1..Len(keyTasks) : keyTasks[i].area = "local" =>
        /\ \A j \in 1..i - 1 : keyTasks[j].area = "local"
        /\ (\A j \in i + 1..Len(keyTasks) : keyTasks[j].area = "session") =>
            keys.session = keyTasks[i].key

\* a view without an excuse shows the key of the last change under way, which is
\* the only one that may be a revocation; one that is loading shows what it found
ViewFollowsTasks ==
    ~excused /\ settings.loading # "closed" =>
        /\ keyTasks # <<>> => settings.loading = "done"
        /\ keyTasks = <<>> =>
            Trim(settings.key) = IF settings.loading = "key" THEN NoKey ELSE GetApiKey
        /\ \A i \in 1..Len(keyTasks) : i < Len(keyTasks) => keyTasks[i].kind = "store"
        /\ \A i \in 1..Len(keyTasks) : i = Len(keyTasks) /\ keyTasks[i].kind = "store" =>
            Trim(settings.key) = keyTasks[i].key

RevokedIsGone ==
    revoked => /\ keys = [session |-> NoKey, local |-> NoKey, remember |-> FALSE]
               /\ \A i \in 1..Len(keyTasks) : keyTasks[i].kind = "revoke"

KeyInv == KeyTypeOK /\ TasksInOrder /\ ViewFollowsTasks /\ RevokedIsGone

\* a change goes to the end of the queue
LEMMA IssueEffect ==
    ASSUME KeyTypeOK, NEW kind \in {"store", "revoke"}, NEW key \in KeyOrNone,
           NEW remember \in BOOLEAN, kind = "revoke" => key = NoKey /\ ~remember,
           Issue(kind, key, remember)
    PROVE  /\ keyTasks' \in Seq(Tasks) /\ Len(keyTasks') = Len(keyTasks) + 1
           /\ \A i \in 1..Len(keyTasks) : keyTasks'[i] = keyTasks[i]
           /\ keyTasks'[Len(keyTasks) + 1] = [kind |-> kind, key |-> key,
                                              remember |-> remember, area |-> "session"]
           /\ \A i \in 1..Len(keyTasks') : keyTasks'[i].kind = "revoke" =>
                keyTasks'[i].key = NoKey /\ ~keyTasks'[i].remember
<1> DEFINE task == [kind |-> kind, key |-> key, remember |-> remember, area |-> "session"]
<1>1. task \in Tasks /\ keyTasks \in Seq(Tasks)
  BY DEF Tasks, KeyTypeOK
<1>2. keyTasks' = Append(keyTasks, task)
  BY DEF Issue
<1>3. task.kind = "revoke" => task.key = NoKey /\ ~task.remember
  OBVIOUS
<1> HIDE DEF task
<1>4. /\ keyTasks' \in Seq(Tasks) /\ Len(keyTasks') = Len(keyTasks) + 1
      /\ \A i \in 1..Len(keyTasks) : keyTasks'[i] = keyTasks[i]
      /\ keyTasks'[Len(keyTasks) + 1] = task
  BY <1>1, <1>2, AppendProperties
<1>5. \A i \in 1..Len(keyTasks') : keyTasks'[i].kind = "revoke" =>
                keyTasks'[i].key = NoKey /\ ~keyTasks'[i].remember
  BY <1>1, <1>3, <1>4 DEF KeyTypeOK
<1> QED
  BY <1>4, <1>5 DEF task

\* the user changes the key, its being remembered, or revokes it
LEMMA KeyHandlersStep ==
    ASSUME KeyInv,
           \/ HandleRevokeApiKey
           \/ \E text \in KeyTexts : HandleUpdateApiKey(text)
           \/ \E r \in BOOLEAN : HandleRememberToggle(r)
    PROVE  KeyInv'
<1> USE DEF KeyInv
<1>1. PICK kind \in {"store", "revoke"}, key \in KeyOrNone, remember \in BOOLEAN :
        /\ Issue(kind, key, remember) /\ (kind = "revoke" => key = NoKey /\ ~remember)
        /\ settings' \in [loading : {settings.loading}, key : KeyTexts, remember : BOOLEAN]
        /\ kind = "store" => Trim(settings'.key) = key /\ ~revoked'
        /\ revoked' => revoked
  <2>0. \A text \in KeyTexts : Trim(text) \in KeyOrNone
    BY DEF KeyTexts, Trim, KeyOrNone
  <2>1. CASE HandleRevokeApiKey
    BY <2>1 DEF HandleRevokeApiKey, KeyOrNone, KeyTypeOK
  <2>2. CASE \E text \in KeyTexts : HandleUpdateApiKey(text)
    BY <2>0, <2>2 DEF HandleUpdateApiKey, KeyTypeOK
  <2>3. CASE \E r \in BOOLEAN : HandleRememberToggle(r)
    BY <2>0, <2>3 DEF HandleRememberToggle, KeyTypeOK
  <2> QED
    BY <2>1, <2>2, <2>3
<1>2. /\ keys' = keys /\ excused' = (excused \/ Early) /\ settings.loading # "closed"
      /\ revoked' \in BOOLEAN
  BY DEF HandleRevokeApiKey, HandleUpdateApiKey, HandleRememberToggle, KeyTypeOK
<1>3. /\ keyTasks' \in Seq(Tasks) /\ Len(keyTasks') = Len(keyTasks) + 1
      /\ \A i \in 1..Len(keyTasks) : keyTasks'[i] = keyTasks[i]
      /\ keyTasks'[Len(keyTasks) + 1] = [kind |-> kind, key |-> key,
                                         remember |-> remember, area |-> "session"]
      /\ \A i \in 1..Len(keyTasks') : keyTasks'[i].kind = "revoke" =>
            keyTasks'[i].key = NoKey /\ ~keyTasks'[i].remember
  BY <1>1, IssueEffect
<1>4. Len(keyTasks) \in Nat /\ DOMAIN keyTasks = 1..Len(keyTasks)
  BY DEF KeyTypeOK
<1>5. KeyTypeOK'
  BY <1>1, <1>2, <1>3 DEF KeyTypeOK
<1>6. TasksInOrder'
  <2>1. ASSUME NEW i \in 1..Len(keyTasks'), keyTasks'[i].area = "local"
        PROVE  /\ \A j \in 1..i - 1 : keyTasks'[j].area = "local"
               /\ (\A j \in i + 1..Len(keyTasks') : keyTasks'[j].area = "session") =>
                    keys'.session = keyTasks'[i].key
    <3>1. i \in 1..Len(keyTasks) /\ keyTasks[i].area = "local"
      BY <1>3, <1>4, <2>1
    <3>2. \A j \in 1..i - 1 : keyTasks'[j].area = "local"
      BY <1>3, <1>4, <3>1 DEF TasksInOrder
    <3>3. ASSUME \A j \in i + 1..Len(keyTasks') : keyTasks'[j].area = "session"
          PROVE  keys'.session = keyTasks'[i].key
      <4>1. \A j \in i + 1..Len(keyTasks) : keyTasks[j].area = "session"
        BY <1>3, <1>4, <3>1, <3>3
      <4> QED
        BY <1>2, <1>3, <3>1, <4>1 DEF TasksInOrder
    <3> QED
      BY <3>2, <3>3
  <2> QED
    BY <2>1 DEF TasksInOrder
<1>7. ViewFollowsTasks'
  <2> SUFFICES ASSUME ~excused', settings'.loading # "closed" PROVE ViewFollowsTasks'
    BY DEF ViewFollowsTasks
  <2>1. /\ ~excused /\ settings.loading = "done"
        /\ \A i \in 1..Len(keyTasks) : keyTasks[i].kind # "revoke"
    BY <1>2, <1>4 DEF Early, KeyTypeOK
  <2>2. \A i \in 1..Len(keyTasks) : keyTasks[i].kind = "store"
    <3>1. \A i \in 1..Len(keyTasks) : keyTasks[i] \in Tasks
      BY <1>4 DEF KeyTypeOK
    <3> QED
      BY <2>1, <3>1 DEF Tasks
  <2>3. keyTasks' # <<>>
    BY <1>3, <1>4
  <2>4. settings'.loading = "done"
    BY <1>1, <2>1
  <2>5. \A i \in 1..Len(keyTasks') : i < Len(keyTasks') => keyTasks'[i].kind = "store"
    BY <1>3, <1>4, <2>2
  <2>6. \A i \in 1..Len(keyTasks') : i = Len(keyTasks') /\ keyTasks'[i].kind = "store" =>
            Trim(settings'.key) = keyTasks'[i].key
    <3>1. keyTasks'[Len(keyTasks')].kind = kind /\ keyTasks'[Len(keyTasks')].key = key
      BY <1>3
    <3> QED
      BY <1>1, <3>1
  <2> QED
    BY <2>3, <2>4, <2>5, <2>6 DEF ViewFollowsTasks
<1>8. RevokedIsGone'
  BY <1>1, <1>2, <1>3, <1>4 DEF RevokedIsGone
<1> QED
  BY <1>5, <1>6, <1>7, <1>8

\* the settings view is opened, loads, and is closed
LEMMA KeyViewStep ==
    ASSUME KeyInv, OpenSettings \/ LoadSettings \/ CloseSettings
    PROVE  KeyInv'
<1> USE DEF KeyInv
<1>1. /\ keys' = keys /\ keyTasks' = keyTasks /\ revoked' = revoked
      /\ GetApiKey \in KeyOrNone
  BY DEF OpenSettings, LoadSettings, CloseSettings, KeyTypeOK, GetApiKey, KeyOrNone
<1>0. \A key \in KeyOrNone : Text(key) \in KeyTexts /\ Trim(Text(key)) = key
  BY DEF Text, KeyTexts, Trim, KeyOrNone
<1>2. TasksInOrder' /\ RevokedIsGone'
  BY <1>1 DEF TasksInOrder, RevokedIsGone
<1>3. CASE OpenSettings
  <2>1. /\ settings' = [NoView EXCEPT !.loading = "key"] /\ ~excused' /\ excused' \in BOOLEAN
        /\ keyTasks' = <<>>
    BY <1>1, <1>3 DEF OpenSettings
  <2>2. KeyTypeOK'
    BY <1>0, <1>1, <2>1 DEF KeyTypeOK, NoView, KeyOrNone
  <2>3. ViewFollowsTasks'
    BY <1>0, <1>1, <2>1 DEF ViewFollowsTasks, NoView, KeyOrNone
  <2> QED
    BY <1>2, <2>2, <2>3
<1>4. CASE LoadSettings
  <2>1. KeyTypeOK'
    BY <1>0, <1>1, <1>4 DEF KeyTypeOK, LoadSettings
  <2>2. ViewFollowsTasks'
    <3> SUFFICES ASSUME ~excused PROVE ViewFollowsTasks'
      BY <1>4 DEF ViewFollowsTasks, LoadSettings
    <3>1. keyTasks = <<>>
      BY <1>4 DEF ViewFollowsTasks, LoadSettings
    <3>2. Trim(settings'.key) = GetApiKey /\ settings'.loading \in {"flag", "done"}
      BY <1>0, <1>1, <1>4, <3>1 DEF ViewFollowsTasks, LoadSettings, KeyTypeOK
    <3> QED
      BY <1>1, <3>1, <3>2 DEF ViewFollowsTasks, GetApiKey
  <2> QED
    BY <1>2, <2>1, <2>2
<1>5. CASE CloseSettings
  BY <1>0, <1>1, <1>2, <1>5 DEF CloseSettings, KeyTypeOK, ViewFollowsTasks, NoView, KeyOrNone
<1> QED
  BY <1>3, <1>4, <1>5

\* a change sets the key of the session
LEMMA StoreSessionKeyStep ==
    ASSUME KeyInv, NEW i \in DOMAIN keyTasks, MayProceed(i), StoreSession(i),
           UNCHANGED <<keyFaults, excused>>
    PROVE  KeyInv'
<1> USE DEF KeyInv
<1>1. /\ i \in 1..Len(keyTasks) /\ Len(keyTasks) \in Nat
      /\ keyTasks[i] \in Tasks /\ keyTasks[i].area = "session"
      /\ \A j \in 1..i - 1 : keyTasks[j].area = "local"
  BY DEF KeyTypeOK, StoreSession, MayProceed
<1>2. /\ keys' = [keys EXCEPT !.session = keyTasks[i].key]
      /\ keyTasks' = [keyTasks EXCEPT ![i] = [keyTasks[i] EXCEPT !.area = "local"]]
      /\ settings' = settings /\ revoked' = revoked /\ excused' = excused
  BY DEF StoreSession
<1> DEFINE task == [keyTasks[i] EXCEPT !.area = "local"]
<1>3. /\ task \in Tasks /\ task.area = "local" /\ task.kind = keyTasks[i].kind
      /\ task.key = keyTasks[i].key /\ task.remember = keyTasks[i].remember
  BY <1>1 DEF Tasks
<1> HIDE DEF task
<1>4. /\ keyTasks' \in Seq(Tasks) /\ Len(keyTasks') = Len(keyTasks)
      /\ keyTasks'[i] = task
      /\ \A j \in 1..Len(keyTasks) : j # i => keyTasks'[j] = keyTasks[j]
  BY <1>1, <1>2, <1>3, ExceptSeq DEF KeyTypeOK, task
<1>5. \A j \in 1..Len(keyTasks) :
        /\ keyTasks'[j].kind = keyTasks[j].kind /\ keyTasks'[j].key = keyTasks[j].key
        /\ keyTasks'[j].remember = keyTasks[j].remember
  BY <1>3, <1>4
<1>6. /\ keys' \in [session : KeyOrNone, local : KeyOrNone, remember : BOOLEAN]
      /\ keys'.session = keyTasks[i].key /\ keys'.local = keys.local
      /\ keys'.remember = keys.remember
  BY <1>1, <1>2 DEF KeyTypeOK, Tasks
<1>7. KeyTypeOK'
  BY <1>2, <1>4, <1>5, <1>6 DEF KeyTypeOK
<1>8. ASSUME NEW j \in i + 1..Len(keyTasks)
      PROVE  keyTasks'[j].area = "session"
  <2>1. j \in 1..Len(keyTasks) /\ i \in 1..j - 1 /\ keyTasks'[j] = keyTasks[j]
    BY <1>1, <1>4
  <2>2. keyTasks[j] \in Tasks /\ keyTasks[j].area # "local"
    BY <1>1, <2>1 DEF TasksInOrder, KeyTypeOK
  <2> QED
    BY <2>1, <2>2 DEF Tasks
<1>9. TasksInOrder'
  <2>1. ASSUME NEW j \in 1..Len(keyTasks), keyTasks'[j].area = "local"
        PROVE  /\ \A k \in 1..j - 1 : keyTasks'[k].area = "local"
               /\ (\A k \in j + 1..Len(keyTasks) : keyTasks'[k].area = "session") =>
                    keys'.session = keyTasks'[j].key
    <3>1. j <= i
      BY <1>1, <1>8, <2>1
    <3>2. \A k \in 1..j - 1 : keyTasks'[k].area = "local"
      BY <1>1, <1>4, <3>1
    <3>3. j < i => keyTasks'[i].area = "local" /\ i \in j + 1..Len(keyTasks)
      BY <1>1, <1>3, <1>4
    <3> QED
      BY <1>1, <1>3, <1>4, <1>6, <3>1, <3>2, <3>3
  <2> QED
    BY <1>4, <2>1 DEF TasksInOrder
<1>10. ViewFollowsTasks'
  <2>1. keyTasks # <<>> /\ keyTasks' # <<>>
    BY <1>1, <1>4
  <2> QED
    BY <1>2, <1>4, <1>5, <2>1 DEF ViewFollowsTasks
<1>11. RevokedIsGone'
  <2> SUFFICES ASSUME revoked PROVE RevokedIsGone'
    BY <1>2 DEF RevokedIsGone
  <2>1. keyTasks[i].key = NoKey
    BY <1>1 DEF RevokedIsGone, KeyTypeOK
  <2>2. keys' = [session |-> NoKey, local |-> NoKey, remember |-> FALSE]
    <3>1. keys = [session |-> NoKey, local |-> NoKey, remember |-> FALSE]
      BY DEF RevokedIsGone
    <3> QED
      BY <1>2, <2>1, <3>1
  <2>3. \A j \in 1..Len(keyTasks') : keyTasks'[j].kind = "revoke"
    BY <1>4, <1>5 DEF RevokedIsGone
  <2> QED
    BY <2>2, <2>3 DEF RevokedIsGone
<1> QED
  BY <1>7, <1>9, <1>10, <1>11

\* a change ends: it was the first one, and the others move up
LEMMA TaskEnds ==
    ASSUME KeyInv, NEW i \in DOMAIN keyTasks, MayProceed(i),
           keyTasks' = RemoveAt(keyTasks, i), keys'.session = keys.session
    PROVE  /\ keyTasks' \in Seq(Tasks) /\ Len(keyTasks') = Len(keyTasks) - 1
           /\ i \in 1..Len(keyTasks)
           /\ \A j \in 1..Len(keyTasks') : keyTasks'[j] =
                IF j < i THEN keyTasks[j] ELSE keyTasks[j + 1]
           /\ \A j \in 1..Len(keyTasks') : keyTasks'[j].kind = "revoke" =>
                keyTasks'[j].key = NoKey /\ ~keyTasks'[j].remember
           /\ keyTasks[i].area = "local" => i = 1
           /\ TasksInOrder'
<1> USE DEF KeyInv
<1>1. i \in 1..Len(keyTasks) /\ Len(keyTasks) \in Nat /\ keyTasks \in Seq(Tasks)
  BY DEF KeyTypeOK
<1>2. /\ keyTasks' \in Seq(Tasks) /\ Len(keyTasks') = Len(keyTasks) - 1
      /\ \A j \in 1..Len(keyTasks') : keyTasks'[j] =
            IF j < i THEN keyTasks[j] ELSE keyTasks[j + 1]
  BY <1>1, RemoveAtProperties
<1>3. \A j \in 1..Len(keyTasks') : keyTasks'[j].kind = "revoke" =>
                keyTasks'[j].key = NoKey /\ ~keyTasks'[j].remember
  BY <1>1, <1>2 DEF KeyTypeOK
<1>4. keyTasks[i].area = "local" => i = 1
  <2> SUFFICES ASSUME i # 1 PROVE keyTasks[i].area = "session"
    OBVIOUS
  <2>1. 1 \in 1..i - 1
    BY <1>1
  <2> QED
    BY <2>1 DEF MayProceed
<1>5. \A j \in 1..Len(keyTasks) : keyTasks[j] \in Tasks
  BY <1>1
<1>6. ASSUME NEW j \in 1..Len(keyTasks'), keyTasks'[j].area = "local"
      PROVE  /\ \A k \in 1..j - 1 : keyTasks'[k].area = "local"
             /\ (\A k \in j + 1..Len(keyTasks') : keyTasks'[k].area = "session") =>
                    keys'.session = keyTasks'[j].key
  <2> DEFINE was(k) == IF k < i THEN k ELSE k + 1
  <2>1. \A k \in 1..Len(keyTasks') : was(k) \in 1..Len(keyTasks) /\ keyTasks'[k] = keyTasks[was(k)]
    BY <1>1, <1>2
  <2>2. \A k \in 1..j - 1 : keyTasks'[k].area = "local"
    <3>1. \A k \in 1..j - 1 : was(k) \in 1..was(j) - 1 /\ k \in 1..Len(keyTasks')
      BY <1>1, <1>2
    <3> HIDE DEF was
    <3> QED
      BY <1>6, <2>1, <3>1 DEF TasksInOrder
  <2>3. ASSUME \A k \in j + 1..Len(keyTasks') : keyTasks'[k].area = "session"
        PROVE  keys'.session = keyTasks'[j].key
    <3>1. ASSUME NEW k \in was(j) + 1..Len(keyTasks) PROVE keyTasks[k].area = "session"
      <4>1. CASE k = i
        <5>1. j < i
          BY <1>1, <1>2, <3>1, <4>1
        <5> QED
          BY <1>1, <1>4, <1>5, <4>1, <5>1 DEF Tasks
      <4>2. CASE k # i
        <5>1. PICK l \in j + 1..Len(keyTasks') : was(l) = k
          <6>1. CASE k < i
            BY <1>1, <1>2, <3>1, <6>1
          <6>2. CASE k > i
            <7>1. k - 1 \in j + 1..Len(keyTasks') /\ was(k - 1) = k
              BY <1>1, <1>2, <3>1, <6>2
            <7> QED
              BY <7>1
          <6> QED
            BY <1>1, <3>1, <4>2, <6>1, <6>2
        <5>2. l \in 1..Len(keyTasks')
          BY <1>1, <1>2, <5>1
        <5> QED
          BY <2>1, <2>3, <5>1, <5>2
      <4> QED
        BY <4>1, <4>2
    <3> HIDE DEF was
    <3> QED
      BY <1>6, <2>1, <3>1 DEF TasksInOrder
  <2> QED
    BY <2>2, <2>3
<1> QED
  BY <1>1, <1>2, <1>3, <1>4, <1>6 DEF TasksInOrder

\* a change remembers its key, or forgets what was remembered, and ends
LEMMA StoreLocalKeyStep ==
    ASSUME KeyInv, NEW i \in DOMAIN keyTasks, MayProceed(i), StoreLocal(i),
           UNCHANGED <<keyFaults, excused>>
    PROVE  KeyInv'
<1> USE DEF KeyInv
<1> DEFINE task == keyTasks[i]
<1>1. /\ task.area = "local" /\ keyTasks' = RemoveAt(keyTasks, i) /\ excused' = excused
      /\ keys' = IF task.remember /\ task.key # NoKey
                 THEN [keys EXCEPT !.local = task.key, !.remember = TRUE]
                 ELSE [keys EXCEPT !.local = NoKey, !.remember = FALSE]
      /\ settings' = IF task.kind = "revoke" /\ settings.loading # "closed"
                     THEN [settings EXCEPT !.key = Text(NoKey), !.remember = FALSE] ELSE settings
      /\ revoked' = (task.kind = "revoke" /\ i = Len(keyTasks))
  BY DEF StoreLocal
<1>2. keyTasks \in Seq(Tasks) /\ Len(keyTasks) \in Nat /\ i \in 1..Len(keyTasks) /\ task \in Tasks
  BY DEF KeyTypeOK
<1>3. /\ keys' \in [session : KeyOrNone, local : KeyOrNone, remember : BOOLEAN]
      /\ keys'.session = keys.session
      /\ keys'.local = IF task.remember /\ task.key # NoKey THEN task.key ELSE NoKey
      /\ keys'.remember = (task.remember /\ task.key # NoKey)
  <2>1. task.key \in KeyOrNone /\ task.remember \in BOOLEAN /\ NoKey \in KeyOrNone
    BY <1>2 DEF Tasks, KeyOrNone
  <2>2. CASE task.remember /\ task.key # NoKey
    BY <1>1, <2>1, <2>2 DEF KeyTypeOK
  <2>3. CASE ~(task.remember /\ task.key # NoKey)
    BY <1>1, <2>1, <2>3 DEF KeyTypeOK
  <2> QED
    BY <2>2, <2>3
<1>4. /\ settings' \in [loading : {"closed", "key", "flag", "done"}, key : KeyTexts,
                        remember : BOOLEAN]
      /\ settings'.loading = settings.loading
      /\ Trim(settings'.key) = IF task.kind = "revoke" /\ settings.loading # "closed"
                               THEN NoKey ELSE Trim(settings.key)
  <2>1. Text(NoKey) \in KeyTexts /\ Trim(Text(NoKey)) = NoKey
    BY DEF Text, KeyTexts, Trim
  <2> QED
    BY <1>1, <2>1 DEF KeyTypeOK
<1>5. /\ keyTasks' \in Seq(Tasks) /\ Len(keyTasks') = Len(keyTasks) - 1
      /\ i = 1 /\ \A j \in 1..Len(keyTasks') : keyTasks'[j] = keyTasks[j + 1]
      /\ \A j \in 1..Len(keyTasks') : keyTasks'[j].kind = "revoke" =>
            keyTasks'[j].key = NoKey /\ ~keyTasks'[j].remember
      /\ TasksInOrder'
  BY <1>1, <1>2, <1>3, TaskEnds
<1>6. KeyTypeOK'
  BY <1>1, <1>3, <1>4, <1>5 DEF KeyTypeOK
<1>7. Len(keyTasks) = 1 => keys.session = task.key /\ GetApiKey' = task.key
  <2> SUFFICES ASSUME Len(keyTasks) = 1 PROVE keys.session = task.key /\ GetApiKey' = task.key
    OBVIOUS
  <2>1. keys.session = task.key
    BY <1>1, <1>2, <1>5 DEF TasksInOrder
  <2> QED
    BY <1>2, <1>3, <2>1 DEF GetApiKey
<1>8. ViewFollowsTasks'
  <2> SUFFICES ASSUME ~excused, settings.loading # "closed" PROVE ViewFollowsTasks'
    BY <1>1, <1>4 DEF ViewFollowsTasks
  <2>1. keyTasks # <<>>
    BY <1>2
  <2>2. /\ settings.loading = "done"
        /\ \A j \in 1..Len(keyTasks) : j < Len(keyTasks) => keyTasks[j].kind = "store"
        /\ \A j \in 1..Len(keyTasks) : j = Len(keyTasks) /\ keyTasks[j].kind = "store" =>
            Trim(settings.key) = keyTasks[j].key
    BY <2>1 DEF ViewFollowsTasks
  <2>3. CASE Len(keyTasks) = 1
    <3>1. keyTasks' = <<>> /\ Len(keyTasks') = 0
      BY <1>5, <2>3
    <3>2. Trim(settings'.key) = task.key
      BY <1>2, <1>4, <1>5, <2>2, <2>3 DEF Tasks, KeyTypeOK
    <3> QED
      BY <1>4, <1>7, <2>2, <2>3, <3>1, <3>2 DEF ViewFollowsTasks
  <2>4. CASE Len(keyTasks) # 1
    <3>1. task.kind = "store" /\ Trim(settings'.key) = Trim(settings.key)
      BY <1>2, <1>4, <1>5, <2>2, <2>4
    <3>2. keyTasks' # <<>>
      BY <1>2, <1>5, <2>4
    <3>3. \A j \in 1..Len(keyTasks') : j < Len(keyTasks') => keyTasks'[j].kind = "store"
      BY <1>2, <1>5, <2>2
    <3>4. \A j \in 1..Len(keyTasks') : j = Len(keyTasks') /\ keyTasks'[j].kind = "store" =>
            Trim(settings'.key) = keyTasks'[j].key
      BY <1>2, <1>5, <2>2, <3>1
    <3> QED
      BY <1>4, <2>2, <3>2, <3>3, <3>4 DEF ViewFollowsTasks
  <2> QED
    BY <2>3, <2>4
<1>9. RevokedIsGone'
  <2> SUFFICES ASSUME task.kind = "revoke", Len(keyTasks) = 1 PROVE RevokedIsGone'
    BY <1>1, <1>5 DEF RevokedIsGone
  <2>1. task.key = NoKey /\ ~task.remember /\ keys.session = NoKey
    BY <1>2, <1>7 DEF KeyTypeOK
  <2>2. keys' = [session |-> NoKey, local |-> NoKey, remember |-> FALSE]
    BY <1>1, <2>1 DEF KeyTypeOK
  <2> QED
    BY <1>5, <2>2 DEF RevokedIsGone
<1> QED
  BY <1>5, <1>6, <1>8, <1>9

\* a call fails, and the change ends there
LEMMA KeyFailureStep ==
    ASSUME KeyInv, NEW i \in DOMAIN keyTasks, KeyStepFails(i)
    PROVE  KeyInv'
<1> USE DEF KeyInv
<1>1. /\ MayProceed(i) /\ keyTasks' = RemoveAt(keyTasks, i) /\ excused' = TRUE
      /\ UNCHANGED <<keys, settings, revoked>>
  BY DEF KeyStepFails
<1>2. keyTasks \in Seq(Tasks) /\ Len(keyTasks) \in Nat
  BY DEF KeyTypeOK
<1>3. /\ keyTasks' \in Seq(Tasks) /\ Len(keyTasks') = Len(keyTasks) - 1
      /\ i \in 1..Len(keyTasks)
      /\ \A j \in 1..Len(keyTasks') : keyTasks'[j] =
            IF j < i THEN keyTasks[j] ELSE keyTasks[j + 1]
      /\ \A j \in 1..Len(keyTasks') : keyTasks'[j].kind = "revoke" =>
            keyTasks'[j].key = NoKey /\ ~keyTasks'[j].remember
      /\ TasksInOrder'
  BY <1>1, TaskEnds
<1>4. KeyTypeOK'
  BY <1>1, <1>3 DEF KeyTypeOK
<1>5. ViewFollowsTasks'
  BY <1>1 DEF ViewFollowsTasks
<1>6. RevokedIsGone'
  BY <1>1, <1>2, <1>3 DEF RevokedIsGone
<1> QED
  BY <1>3, <1>4, <1>5, <1>6

(***************************************************************************)
(* The inductive invariant of the key: changes end in the order they were  *)
(* made, so what the view shows is what the last of them will leave.       *)
(***************************************************************************)
THEOREM KeyInvariance == KeySpec => []KeyInv
<1>1. KeyInit => KeyInv
  <2> SUFFICES ASSUME KeyInit PROVE KeyInv
    OBVIOUS
  <2>1. KeyTypeOK /\ keyTasks = <<>> /\ settings.loading = "closed" /\ ~revoked
    <3>1. PICK s \in KeyOrNone, l \in KeyOrNone :
            keys = [session |-> s, local |-> l, remember |-> l # NoKey]
      BY DEF KeyInit, KeyOrNone
    <3>2. keys \in [session : KeyOrNone, local : KeyOrNone, remember : BOOLEAN]
      BY <3>1
    <3>3. /\ settings = NoView /\ keyTasks = <<>> /\ excused = FALSE /\ revoked = FALSE
      BY DEF KeyInit
    <3>4. keyTasks \in Seq(Tasks) /\ Len(keyTasks) = 0
      BY <3>3
    <3>5. settings \in [loading : {"closed", "key", "flag", "done"}, key : KeyTexts,
                        remember : BOOLEAN]
      BY <3>3 DEF Text, KeyTexts, NoView
    <3>6. \A i \in 1..Len(keyTasks) :
            keyTasks[i].kind = "revoke" => keyTasks[i].key = NoKey /\ ~keyTasks[i].remember
      BY <3>4
    <3>7. excused \in BOOLEAN /\ revoked \in BOOLEAN /\ ~revoked
      BY <3>3
    <3>8. settings.loading = "closed"
      BY <3>3 DEF NoView
    <3> QED
      BY <3>2, <3>3, <3>4, <3>5, <3>6, <3>7, <3>8 DEF KeyTypeOK
  <2> QED
    BY <2>1 DEF KeyInv, TasksInOrder, ViewFollowsTasks, RevokedIsGone
<1>2. KeyInv /\ [KeyNext]_keyVars => KeyInv'
  <2> SUFFICES ASSUME KeyInv, [KeyNext]_keyVars PROVE KeyInv'
    OBVIOUS
  <2>1. CASE OpenSettings \/ LoadSettings \/ CloseSettings
    BY <2>1, KeyViewStep
  <2>2. CASE \/ HandleRevokeApiKey
             \/ \E text \in KeyTexts : HandleUpdateApiKey(text)
             \/ \E r \in BOOLEAN : HandleRememberToggle(r)
    BY <2>2, KeyHandlersStep
  <2>3. CASE \E i \in DOMAIN keyTasks : KeyStep(i)
    BY <2>3, StoreSessionKeyStep, StoreLocalKeyStep DEF KeyStep
  <2>4. CASE \E i \in DOMAIN keyTasks : KeyStepFails(i)
    BY <2>4, KeyFailureStep
  <2>5. CASE KeyRestart
    <3>1. /\ keys' = [keys EXCEPT !.session = NoKey] /\ settings' = NoView
          /\ keyTasks' = <<>> /\ UNCHANGED <<excused, revoked>>
      BY <2>5 DEF KeyRestart
    <3>2. KeyTypeOK'
      BY <3>1 DEF KeyInv, KeyTypeOK, KeyOrNone, NoView, Text, KeyTexts
    <3>3. TasksInOrder' /\ ViewFollowsTasks'
      BY <3>1 DEF TasksInOrder, ViewFollowsTasks, NoView
    <3>4. RevokedIsGone'
      <4> SUFFICES ASSUME revoked PROVE RevokedIsGone'
        BY <3>1 DEF RevokedIsGone
      <4>1. keys = [session |-> NoKey, local |-> NoKey, remember |-> FALSE]
        BY DEF KeyInv, RevokedIsGone
      <4>2. keys' = [session |-> NoKey, local |-> NoKey, remember |-> FALSE]
        BY <3>1, <4>1
      <4>3. \A i \in 1..Len(keyTasks') : keyTasks'[i].kind = "revoke"
        BY <3>1
      <4> QED
        BY <4>2, <4>3 DEF RevokedIsGone
    <3> QED
      BY <3>2, <3>3, <3>4 DEF KeyInv
  <2>6. CASE UNCHANGED keyVars
    BY <2>6 DEF keyVars, KeyInv, KeyTypeOK, TasksInOrder, ViewFollowsTasks, RevokedIsGone,
                GetApiKey
  <2> QED
    BY <2>1, <2>2, <2>3, <2>4, <2>5, <2>6 DEF KeyNext
<1> QED
  BY <1>1, <1>2, PTL DEF KeySpec

(***************************************************************************)
(* When no change is under way, the view shows the key that is in use, but *)
(* for the spaces typed around it, and a key that was revoked is in        *)
(* neither area (api-key-store.ts and the overlapping handlers of          *)
(* Settings.tsx).                                                          *)
(***************************************************************************)
THEOREM SettingsFollowTheKey == KeySpec => []SettingsShowTheKey
<1>1. KeyInv => SettingsShowTheKey
  BY DEF KeyInv, ViewFollowsTasks, RevokedIsGone, SettingsShowTheKey
<1> QED
  BY KeyInvariance, <1>1, PTL

-----------------------------------------------------------------------------
(* ProfileStore: any cards, popups and bounds, and any order of the calls  *)

Things == Cards \cup Memberships \cup Vouchers

\* the profiles that are what the worker accepts, unless they came by an import
GoodProfiles == {x \in [cards : Seq(Things), imported : BOOLEAN, parses : BOOLEAN] :
                    x.parses /\ ~x.imported => ProfileIsConsistent(x)}

ProfileWrites == [profile : {x \in GoodProfiles : x.parses}, onboards : BOOLEAN]

PopupStates == [step : {"closed", "loading", "ready", "crashed", "resetting", "cleared"},
                onboarded : BOOLEAN, profile : SUBSET GoodProfiles,
                writes : Seq(ProfileWrites), keep : Seq(Nat), current : BOOLEAN]

\* whatever is shown, written or stored is a good profile
ProfileTypeOK ==
    /\ stored \in [onboarded : BOOLEAN, profile : SUBSET GoodProfiles]
    /\ stored.onboarded => stored.profile # {}
    /\ popups \in [Popups -> PopupStates]
    /\ events \in Seq(Nat) /\ logged \in Seq(Nat) /\ logging \in Seq(Seq(Nat))
    /\ overwritten \in BOOLEAN

\* a popup that no other has written after shows what is stored, whatever it
\* has under way itself
CurrentIsShown ==
    \A p \in Popups : popups[p].step = "ready" /\ popups[p].current =>
        popups[p].profile = {x \in stored.profile : x.parses}

\* what a popup that was cut off after the clearing still has to put back
Holds(p) == popups[p].step = "cleared" /\ popups[p].keep # <<>>

\* the log is what was logged, or what a popup has to put back is, or one will
\* overwrite what is there when it puts its own back
LogIsSomewhere ==
    \/ overwritten
    \/ events = LastEvents(logged)
    \/ events = <<>> /\ \E p \in Popups :
        popups[p].step = "cleared" /\ popups[p].keep = LastEvents(logged)
    \/ events # <<>> /\ \E p \in Popups : Holds(p)
    \/ \E p, q \in Popups : p # q /\ Holds(p) /\ Holds(q)

\* before the first event there is nothing to put back
NothingBeforeTheFirst ==
    LastEvents(logged) = <<>> => events = <<>> /\ \A p \in Popups : popups[p].keep = <<>>

ProfileInv == ProfileTypeOK /\ CurrentIsShown /\ LogIsSomewhere /\ NothingBeforeTheFirst

-----------------------------------------------------------------------------
\* the elements of a set in some order: each once
LEMMA SetToSeqProperties ==
    ASSUME NEW S, IsFiniteSet(S)
    PROVE  SetToSeq(S) \in Seq(S) /\ IsInjective(SetToSeq(S))
<1> DEFINE n == Cardinality(S)
<1>1. n \in Nat
  BY FS_CardinalityType
<1>2. \E f \in [1..n -> S] : IsInjective(f)
  <2>1. PICK f \in Bijection(1..n, S) : TRUE
    BY <1>1, FS_CardinalityType DEF ExistsBijection
  <2>2. f \in [1..n -> S] /\ IsInjective(f)
    BY <2>1 DEF Bijection, Injection, IsInjective
  <2> QED
    BY <2>2
<1>3. SetToSeq(S) \in [1..n -> S] /\ IsInjective(SetToSeq(S))
  BY <1>2 DEF SetToSeq
<1> HIDE DEF n
<1> QED
  BY <1>1, <1>3

\* an element more, which was not there, and some elements fewer
LEMMA OneMoreIsInjective ==
    ASSUME NEW S, NEW s \in Seq(S), NEW t \in Seq(S), IsInjective(s),
           NEW e, ~Contains(s, e), Len(t) = Len(s) + 1, t[Len(s) + 1] = e,
           \A i \in 1..Len(s) : t[i] = s[i]
    PROVE  IsInjective(t)
<1>1. /\ DOMAIN t = 1..Len(s) + 1 /\ DOMAIN s = 1..Len(s)
      /\ \A i \in 1..Len(s) : t[i] = s[i] /\ s[i] # e
  BY DEF Contains
<1>2. \A i, j \in 1..Len(s) + 1 : t[i] = t[j] => i = j
  BY <1>1 DEF IsInjective
<1>3. IsInjective(t)
  BY <1>1, <1>2 DEF IsInjective
<1> QED
  BY <1>3

LEMMA CardsWithoutProperties ==
    ASSUME NEW S, NEW s \in Seq(S), NEW e
    PROVE  /\ CardsWithout(s, e) \in Seq(S) /\ ~Contains(CardsWithout(s, e), e)
           /\ IsInjective(s) => IsInjective(CardsWithout(s, e))
<1> DEFINE I == {i \in DOMAIN s : s[i] # e}
           kept == CardsWithout(s, e)
<1>1. I \in SUBSET (DOMAIN s) /\ kept = Kept(s, I)
  BY DEF CardsWithout
<1> HIDE DEF kept
<1>2. \A i \in I : i \in DOMAIN s /\ i \in Int /\ s[i] # e
  OBVIOUS
<1> HIDE DEF I
<1>3. kept \in Seq(S) /\ \E order : PlacesOf(order, kept, s, I)
  BY <1>1, KeptPlaces
<1>4. PICK order \in [1..Len(kept) -> I] :
        /\ \A k, l \in 1..Len(kept) : k < l => order[k] < order[l]
        /\ \A k \in 1..Len(kept) : kept[k] = s[order[k]]
  BY <1>3 DEF PlacesOf
<1>5. ~Contains(kept, e)
  BY <1>2, <1>4 DEF Contains
<1>6. ASSUME IsInjective(s), NEW k \in 1..Len(kept), NEW l \in 1..Len(kept), kept[k] = kept[l]
      PROVE  k = l
  <2>1. order[k] = order[l] /\ order[k] \in Int /\ order[l] \in Int
    BY <1>2, <1>4, <1>6 DEF IsInjective
  <2>2. k \in Int /\ l \in Int
    OBVIOUS
  <2> QED
    BY <1>4, <2>1, <2>2
<1>7. DOMAIN kept = 1..Len(kept)
  BY <1>3
<1>8. IsInjective(s) => IsInjective(kept)
  BY <1>6, <1>7 DEF IsInjective
<1> QED
  BY <1>3, <1>5, <1>8 DEF kept

\* a form changes the cards of a profile
LEMMA ChangedIsGood ==
    ASSUME NEW x \in GoodProfiles, NEW cards \in Seq(Things),
           IsInjective(x.cards) => IsInjective(cards)
    PROVE  [x EXCEPT !.cards = cards] \in GoodProfiles
BY DEF GoodProfiles, ProfileIsConsistent

LEMMA MadeIsGood ==
    ASSUME NEW cards \in Seq(Things), NEW imported \in BOOLEAN,
           imported \/ IsInjective(cards)
    PROVE  Profile(cards, imported) \in GoodProfiles
BY DEF GoodProfiles, ProfileIsConsistent, Profile

LEMMA BaseIsGood ==
    ASSUME ProfileTypeOK, NEW p \in Popups
    PROVE  Base(p) \in GoodProfiles
<1>1. popups[p].profile \in SUBSET GoodProfiles
  BY DEF ProfileTypeOK, PopupStates
<1>2. Profile(<<>>, FALSE) \in GoodProfiles
  <2>1. IsInjective(<<>>) /\ <<>> \in Seq(Things)
    BY DEF IsInjective
  <2> QED
    BY <2>1, MadeIsGood
<1>3. CASE popups[p].profile = {}
  BY <1>2, <1>3 DEF Base
<1>4. CASE popups[p].profile # {}
  <2>1. Base(p) \in popups[p].profile
    BY <1>4 DEF Base
  <2> QED
    BY <1>1, <2>1
<1> QED
  BY <1>3, <1>4
-----------------------------------------------------------------------------
\* a step that changes neither the log nor what popups have to put back
LEMMA QuietForTheLog ==
    ASSUME LogIsSomewhere, NothingBeforeTheFirst, UNCHANGED <<events, logged>>,
           overwritten => overwritten',
           \A q \in Popups :
            /\ popups'[q].step = "cleared" <=> popups[q].step = "cleared"
            /\ popups[q].step = "cleared" => popups'[q].keep = popups[q].keep
            /\ popups'[q].keep = popups[q].keep \/ popups'[q].keep = <<>>
    PROVE  LogIsSomewhere' /\ NothingBeforeTheFirst'
<1>1. \A q \in Popups : Holds(q) => Holds(q)'
  BY DEF Holds
<1>2. LastEvents(logged)' = LastEvents(logged)
  BY DEF LastEvents
<1>3. LogIsSomewhere'
  BY <1>1, <1>2 DEF LogIsSomewhere
<1>4. NothingBeforeTheFirst'
  BY <1>2 DEF NothingBeforeTheFirst
<1> QED
  BY <1>3, <1>4

\* a form writes a profile
LEMMA WritesStep ==
    ASSUME ProfileInv, NEW p \in Popups, NEW x \in GoodProfiles, NEW onboards \in BOOLEAN,
           Writes(p, x, onboards)
    PROVE  ProfileInv'
<1> USE DEF ProfileInv
<1> DEFINE write == [profile |-> x, onboards |-> onboards]
<1>1. /\ popups' = popups \/ (x.parses /\ popups' = [popups EXCEPT ![p].writes = Append(@, write)])
      /\ UNCHANGED <<stored, events, logging, logged, overwritten>>
  BY DEF Writes
<1>2. x.parses => write \in ProfileWrites
  BY DEF ProfileWrites
<1> HIDE DEF write
<1>3. /\ popups' \in [Popups -> PopupStates]
      /\ \A q \in Popups :
            /\ popups'[q].step = popups[q].step /\ popups'[q].keep = popups[q].keep
            /\ popups'[q].current = popups[q].current
            /\ popups'[q].profile = popups[q].profile
  <2>1. CASE popups' = popups
    BY <2>1 DEF ProfileTypeOK
  <2>2. CASE x.parses /\ popups' = [popups EXCEPT ![p].writes = Append(@, write)]
    <3>1. popups[p].writes \in Seq(ProfileWrites) /\ popups[p] \in PopupStates
      BY DEF ProfileTypeOK, PopupStates
    <3>2. Append(popups[p].writes, write) \in Seq(ProfileWrites)
      BY <1>2, <2>2, <3>1
    <3> DEFINE written == Append(popups[p].writes, write)
    <3>3. popups' = [popups EXCEPT ![p] = [popups[p] EXCEPT !.writes = written]]
      BY <2>2
    <3> HIDE DEF written
    <3>4. [popups[p] EXCEPT !.writes = written] \in PopupStates
      BY <3>1, <3>2 DEF PopupStates, written
    <3> QED
      BY <3>1, <3>3, <3>4 DEF ProfileTypeOK, PopupStates
  <2> QED
    BY <1>1, <2>1, <2>2
<1>4. ProfileTypeOK'
  BY <1>1, <1>3 DEF ProfileTypeOK
<1>5. CurrentIsShown'
  BY <1>1, <1>3 DEF CurrentIsShown
<1> QED
  BY <1>1, <1>3, <1>4, <1>5, QuietForTheLog

\* every form starts from the profile its popup has
LEMMA FormsStep ==
    ASSUME ProfileInv, NEW p \in Popups,
           \/ HandleOnboardingComplete(p) \/ HandleImport(p)
           \/ \E c \in Cards : HandleAddCard(p, c)
           \/ \E v \in Vouchers : HandleAddVoucher(p, v)
           \/ \E c \in Cards \cup Vouchers : HandleRemoveCard(p, c)
           \/ HandleUpdateSpend(p) \/ HandleUpdateValuation(p)
           \/ \E m \in Memberships : HandleAddMembership(p, m) \/ HandleRemoveMembership(p, m)
    PROVE  ProfileInv'
<1>1. Base(p) \in GoodProfiles /\ Base(p).cards \in Seq(Things)
  BY BaseIsGood DEF ProfileInv, GoodProfiles
<1>2. SUFFICES \E x \in GoodProfiles, onboards \in BOOLEAN : Writes(p, x, onboards)
  BY WritesStep
<1>3. CASE HandleOnboardingComplete(p)
  <2>1. PICK cards \in SUBSET Cards : Writes(p, Profile(SetToSeq(cards), FALSE), TRUE)
    BY <1>3 DEF HandleOnboardingComplete
  <2>2. IsFiniteSet(cards)
    BY ProfileAssumption, FS_Subset
  <2>3. SetToSeq(cards) \in Seq(cards) /\ IsInjective(SetToSeq(cards))
    BY <2>2, SetToSeqProperties
  <2>4. SetToSeq(cards) \in Seq(Things)
    BY <2>3 DEF Things
  <2> QED
    BY <2>1, <2>3, <2>4, MadeIsGood
<1>4. CASE HandleImport(p)
  <2>1. CASE \E cards \in SeqOf(Cards, MaxCards) : Writes(p, Profile(cards, TRUE), FALSE)
    <3>1. PICK cards \in SeqOf(Cards, MaxCards) : Writes(p, Profile(cards, TRUE), FALSE)
      BY <2>1
    <3>2. cards \in Seq(Things)
      <4>1. PICK m \in 0..MaxCards : cards \in [1..m -> Cards]
        BY <3>1 DEF SeqOf
      <4>2. MaxCards \in Nat
        BY ProfileAssumption
      <4> QED
        BY <4>1, <4>2 DEF Things
    <3> QED
      BY <3>1, <3>2, MadeIsGood
  <2>2. CASE Writes(p, CorruptProfile, FALSE)
    <3>1. CorruptProfile \in GoodProfiles
      BY DEF CorruptProfile, GoodProfiles
    <3> QED
      BY <2>2, <3>1
  <2> QED
    BY <1>4, <2>1, <2>2 DEF HandleImport
<1>5. ASSUME NEW c \in Cards \cup Vouchers, ~Contains(Base(p).cards, c),
             Writes(p, [Base(p) EXCEPT !.cards = Append(@, c)], FALSE)
      PROVE  \E x \in GoodProfiles, onboards \in BOOLEAN : Writes(p, x, onboards)
  <2> DEFINE cards == Append(Base(p).cards, c)
  <2>1. c \in Things
    BY DEF Things
  <2>2. cards \in Seq(Things) /\ (IsInjective(Base(p).cards) => IsInjective(cards))
    <3>1. cards \in Seq(Things)
      BY <1>1, <2>1
    <3>2. /\ Len(cards) = Len(Base(p).cards) + 1 /\ cards[Len(Base(p).cards) + 1] = c
          /\ \A i \in 1..Len(Base(p).cards) : cards[i] = Base(p).cards[i]
      BY <1>1, <1>5, <2>1, AppendProperties
    <3> HIDE DEF cards
    <3>3. ASSUME IsInjective(Base(p).cards) PROVE IsInjective(cards)
      BY <1>1, <1>5, <2>1, <3>2, <3>3, <3>1, OneMoreIsInjective
    <3> QED
      BY <3>1, <3>3
  <2>3. [Base(p) EXCEPT !.cards = Append(@, c)] = [Base(p) EXCEPT !.cards = cards]
    OBVIOUS
  <2> HIDE DEF cards
  <2>4. [Base(p) EXCEPT !.cards = cards] \in GoodProfiles
    BY <1>1, <2>2, ChangedIsGood
  <2> QED
    BY <1>5, <2>3, <2>4
<1>6. ASSUME NEW c, Writes(p, [Base(p) EXCEPT !.cards = CardsWithout(@, c)], FALSE)
      PROVE  \E x \in GoodProfiles, onboards \in BOOLEAN : Writes(p, x, onboards)
  <2> DEFINE cards == CardsWithout(Base(p).cards, c)
  <2>1. cards \in Seq(Things) /\ (IsInjective(Base(p).cards) => IsInjective(cards))
    BY <1>1, CardsWithoutProperties
  <2>2. [Base(p) EXCEPT !.cards = CardsWithout(@, c)] = [Base(p) EXCEPT !.cards = cards]
    OBVIOUS
  <2> HIDE DEF cards
  <2>3. [Base(p) EXCEPT !.cards = cards] \in GoodProfiles
    BY <1>1, <2>1, ChangedIsGood
  <2> QED
    BY <1>6, <2>2, <2>3
<1>7. CASE \E c \in Cards : HandleAddCard(p, c)
  BY <1>5, <1>7 DEF HandleAddCard
<1>8. CASE \E v \in Vouchers : HandleAddVoucher(p, v)
  BY <1>5, <1>8 DEF HandleAddVoucher
<1>9. CASE \E c \in Cards \cup Vouchers : HandleRemoveCard(p, c)
  BY <1>6, <1>9 DEF HandleRemoveCard
<1>10. CASE HandleUpdateSpend(p) \/ HandleUpdateValuation(p)
  BY <1>1, <1>10 DEF HandleUpdateSpend, HandleUpdateValuation
<1>11. CASE \E m \in Memberships : HandleRemoveMembership(p, m)
  BY <1>6, <1>11 DEF HandleRemoveMembership
<1>12. CASE \E m \in Memberships : HandleAddMembership(p, m)
  <2>1. PICK m \in Memberships : HandleAddMembership(p, m)
    BY <1>12
  <2> DEFINE others == CardsWithout(Base(p).cards, m)
             cards == Append(others, m)
  <2>2. /\ others \in Seq(Things) /\ ~Contains(others, m)
        /\ IsInjective(Base(p).cards) => IsInjective(others)
    BY <1>1, CardsWithoutProperties
  <2>3. Writes(p, [Base(p) EXCEPT !.cards = cards], FALSE)
    BY <2>1 DEF HandleAddMembership
  <2>4. m \in Things
    BY DEF Things
  <2> HIDE DEF others
  <2>5. cards \in Seq(Things) /\ (IsInjective(Base(p).cards) => IsInjective(cards))
    <3>1. cards \in Seq(Things)
      BY <2>2, <2>4
    <3>2. /\ Len(cards) = Len(others) + 1 /\ cards[Len(others) + 1] = m
          /\ \A i \in 1..Len(others) : cards[i] = others[i]
      BY <2>2, <2>4, AppendProperties
    <3> HIDE DEF cards
    <3>3. ASSUME IsInjective(Base(p).cards) PROVE IsInjective(cards)
      BY <2>2, <2>4, <3>2, <3>3, <3>1, OneMoreIsInjective
    <3> QED
      BY <3>1, <3>3
  <2> HIDE DEF cards
  <2>6. [Base(p) EXCEPT !.cards = cards] \in GoodProfiles
    BY <1>1, <2>5, ChangedIsGood
  <2> QED
    BY <2>3, <2>6
<1> QED
  BY <1>3, <1>4, <1>7, <1>8, <1>9, <1>10, <1>11, <1>12
\* a popup is opened, loads its state, and is closed
LEMMA OpenPopupStep ==
    ASSUME ProfileInv, NEW p \in Popups, Open(p)
    PROVE  ProfileInv'
<1> USE DEF ProfileInv
<1>1. /\ popups' = [popups EXCEPT ![p] = [popups[p] EXCEPT !.step = "loading"]]
      /\ popups[p].step = "closed"
      /\ UNCHANGED <<stored, events, logging, logged, overwritten>>
  BY DEF Open
<1>2. /\ popups' \in [Popups -> PopupStates] /\ popups'[p].step = "loading"
      /\ \A q \in Popups : q # p => popups'[q] = popups[q]
      /\ popups'[p].keep = popups[p].keep
  BY <1>1, ZenonT(60) DEF ProfileTypeOK, PopupStates
<1>3. ProfileTypeOK'
  BY <1>1, <1>2 DEF ProfileTypeOK
<1>4. CurrentIsShown'
  BY <1>1, <1>2 DEF CurrentIsShown
<1>5. LogIsSomewhere' /\ NothingBeforeTheFirst'
  BY <1>1, <1>2, QuietForTheLog
<1> QED
  BY <1>3, <1>4, <1>5

LEMMA LoadStateStep ==
    ASSUME ProfileInv, NEW p \in Popups, LoadState(p)
    PROVE  ProfileInv'
<1> USE DEF ProfileInv
<1> DEFINE good == {x \in stored.profile : x.parses}
           onboarded == stored.onboarded /\ good = stored.profile
           step == Rendered(onboarded)
           loaded == [ClosedPopup EXCEPT !.step = step, !.current = TRUE,
                            !.onboarded = onboarded, !.profile = good]
           empty == [ClosedPopup EXCEPT !.step = "ready"]
<1>1. /\ popups' = [popups EXCEPT ![p] = loaded] \/ popups' = [popups EXCEPT ![p] = empty]
      /\ popups[p].step = "loading"
      /\ UNCHANGED <<stored, events, logging, logged, overwritten>>
  BY DEF LoadState
<1>2. good \in SUBSET GoodProfiles /\ onboarded \in BOOLEAN /\ stored.profile \in SUBSET GoodProfiles
  BY DEF ProfileTypeOK
<1>3. <<>> \in Seq(ProfileWrites) /\ <<>> \in Seq(Nat) /\ step \in {"crashed", "ready"}
  BY DEF Rendered
<1> HIDE DEF good, onboarded, step
<1>4. /\ loaded \in PopupStates /\ loaded.keep = <<>> /\ loaded.profile = good
      /\ loaded.step # "cleared"
  <2>1. loaded \in PopupStates
    BY <1>2, <1>3 DEF PopupStates, ClosedPopup
  <2>2. loaded.keep = <<>> /\ loaded.profile = good /\ loaded.step = step
    BY DEF ClosedPopup
  <2> HIDE DEF loaded
  <2> QED
    BY <1>3, <2>1, <2>2
<1>5. /\ empty \in PopupStates /\ empty.keep = <<>> /\ ~empty.current
      /\ empty.step # "cleared"
  BY <1>3 DEF PopupStates, ClosedPopup
<1> HIDE DEF loaded, empty
<1>6. /\ popups' \in [Popups -> PopupStates]
      /\ popups'[p] = loaded \/ popups'[p] = empty
      /\ \A q \in Popups : q # p => popups'[q] = popups[q]
  BY <1>1, <1>4, <1>5 DEF ProfileTypeOK
<1>7. ProfileTypeOK'
  BY <1>1, <1>6 DEF ProfileTypeOK
<1>8. CurrentIsShown'
  BY <1>1, <1>4, <1>5, <1>6 DEF CurrentIsShown, good
<1>9. LogIsSomewhere' /\ NothingBeforeTheFirst'
  BY <1>1, <1>4, <1>5, <1>6, QuietForTheLog
<1> QED
  BY <1>7, <1>8, <1>9

\* a step that ends what one popup held back, when the log lost nothing by it or
\* an event is known to be overwritten
LEMMA LetsGo ==
    ASSUME LogIsSomewhere, NothingBeforeTheFirst, NEW p \in Popups,
           UNCHANGED <<events, logged>>,
           overwritten' \/ (~overwritten /\ ~Holds(p)),
           \A q \in Popups : q # p =>
                popups'[q].step = popups[q].step /\ popups'[q].keep = popups[q].keep,
           popups'[p].step # "cleared",
           popups'[p].keep = popups[p].keep \/ popups'[p].keep = <<>>
    PROVE  LogIsSomewhere' /\ NothingBeforeTheFirst'
<1>1. LastEvents(logged)' = LastEvents(logged)
  BY DEF LastEvents
<1>2. \A q \in Popups : q # p => (Holds(q) => Holds(q)')
  BY DEF Holds
<1>3. LogIsSomewhere'
  <2> SUFFICES ASSUME ~overwritten' PROVE LogIsSomewhere'
    BY DEF LogIsSomewhere
  <2>1. CASE events = LastEvents(logged)
    BY <1>1, <2>1 DEF LogIsSomewhere
  <2>2. ASSUME events = <<>>, NEW q \in Popups,
               popups[q].step = "cleared", popups[q].keep = LastEvents(logged)
        PROVE  LogIsSomewhere'
    <3>1. CASE q = p
      BY <1>1, <2>2, <3>1 DEF LogIsSomewhere, Holds
    <3>2. CASE q # p
      BY <1>1, <2>2, <3>2 DEF LogIsSomewhere
    <3> QED
      BY <3>1, <3>2
  <2>3. CASE events # <<>> /\ \E q \in Popups : Holds(q)
    BY <1>2, <2>3 DEF LogIsSomewhere
  <2>4. CASE \E q, r \in Popups : q # r /\ Holds(q) /\ Holds(r)
    BY <1>2, <2>4 DEF LogIsSomewhere
  <2> QED
    BY <2>1, <2>2, <2>3, <2>4 DEF LogIsSomewhere
<1>4. NothingBeforeTheFirst'
  BY <1>1 DEF NothingBeforeTheFirst
<1> QED
  BY <1>3, <1>4

LEMMA CloseStep ==
    ASSUME ProfileInv, NEW p \in Popups, Close(p)
    PROVE  ProfileInv'
<1> USE DEF ProfileInv
<1>1. PICK n \in 0..Len(popups[p].writes) :
        /\ stored' = IF n = 0 THEN stored
                     ELSE [onboarded |-> stored.onboarded
                                \/ \E i \in 1..n : popups[p].writes[i].onboards,
                           profile |-> {popups[p].writes[n].profile}]
        /\ popups' = [q \in Popups |-> IF q = p THEN ClosedPopup
                        ELSE [popups[q] EXCEPT !.current = @ /\ n = 0]]
  BY DEF Close
<1>2. /\ overwritten' = (overwritten \/ (popups[p].step = "cleared" /\ popups[p].keep # <<>>))
      /\ UNCHANGED <<events, logging, logged>>
  BY DEF Close
<1>3. ClosedPopup \in PopupStates
  <2>1. <<>> \in Seq(ProfileWrites) /\ <<>> \in Seq(Nat)
    OBVIOUS
  <2> QED
    BY <2>1 DEF PopupStates, ClosedPopup
<1>4. ASSUME NEW q \in Popups, q # p
      PROVE  /\ popups'[q] \in PopupStates
             /\ popups'[q].step = popups[q].step /\ popups'[q].keep = popups[q].keep
             /\ popups'[q].profile = popups[q].profile
             /\ popups'[q].current => popups[q].current /\ n = 0
  <2> DEFINE still == popups[q].current /\ n = 0
  <2>1. popups'[q] = [popups[q] EXCEPT !.current = still]
    BY <1>1, <1>4
  <2>2. popups[q] \in PopupStates /\ still \in BOOLEAN
    BY DEF ProfileTypeOK
  <2>3. still => popups[q].current /\ n = 0
    OBVIOUS
  <2> HIDE DEF still
  <2> QED
    BY <2>1, <2>2, <2>3 DEF PopupStates
<1>5. popups' \in [Popups -> PopupStates] /\ popups'[p] = ClosedPopup
  BY <1>1, <1>3, <1>4
<1>6. /\ stored' \in [onboarded : BOOLEAN, profile : SUBSET GoodProfiles]
      /\ stored'.onboarded => stored'.profile # {}
      /\ n = 0 => stored' = stored
  <2>1. CASE n = 0
    BY <1>1, <2>1 DEF ProfileTypeOK
  <2>2. CASE n # 0
    <3>1. popups[p].writes \in Seq(ProfileWrites)
      BY DEF ProfileTypeOK, PopupStates
    <3>2. n \in 1..Len(popups[p].writes)
      BY <2>2, <3>1
    <3>3. popups[p].writes[n] \in ProfileWrites
      BY <3>1, <3>2
    <3>4. {popups[p].writes[n].profile} \in SUBSET GoodProfiles
      BY <3>3 DEF ProfileWrites
    <3> DEFINE some == stored.onboarded \/ \E i \in 1..n : popups[p].writes[i].onboards
               saved == {popups[p].writes[n].profile}
    <3>5. some \in BOOLEAN
      OBVIOUS
    <3>6. stored' = [onboarded |-> some, profile |-> saved] /\ saved # {}
      BY <1>1, <2>2
    <3> HIDE DEF some, saved
    <3> QED
      BY <2>2, <3>4, <3>5, <3>6 DEF saved
  <2> QED
    BY <2>1, <2>2
<1>7. overwritten' \in BOOLEAN
  BY <1>2
<1>8. ProfileTypeOK'
  BY <1>2, <1>5, <1>6, <1>7 DEF ProfileTypeOK
<1>9. CurrentIsShown'
  <2>1. ASSUME NEW q \in Popups, popups'[q].step = "ready", popups'[q].current
        PROVE  popups'[q].profile = {x \in stored'.profile : x.parses}
    <3>1. q # p
      BY <1>5, <2>1 DEF ClosedPopup
    <3> QED
      BY <1>4, <1>6, <2>1, <3>1 DEF CurrentIsShown
  <2> QED
    BY <2>1 DEF CurrentIsShown
<1>10. popups'[p].step # "cleared" /\ popups'[p].keep = <<>>
  BY <1>5 DEF ClosedPopup
<1>11. overwritten' \/ (~overwritten /\ ~Holds(p))
  BY <1>2 DEF Holds
<1>12. LogIsSomewhere' /\ NothingBeforeTheFirst'
  BY <1>2, <1>4, <1>10, <1>11, LetsGo
<1> QED
  BY <1>8, <1>9, <1>12
\* a write is made, or fails
LEMMA UpdateProfileStep ==
    ASSUME ProfileInv, NEW p \in Popups, HandleUpdateProfile(p)
    PROVE  ProfileInv'
<1> USE DEF ProfileInv
<1> DEFINE write == Head(popups[p].writes)
           rest == Tail(popups[p].writes)
           onboarded == popups[p].onboarded \/ write.onboards
           some == stored.onboarded \/ write.onboards
           step == Rendered(onboarded)
           shown == {write.profile}
           taken_over == [popups[p] EXCEPT !.writes = rest, !.current = TRUE,
                            !.profile = shown, !.onboarded = onboarded, !.step = step]
<1>1. /\ popups[p].step = "ready" /\ popups[p].writes # <<>>
      /\ UNCHANGED <<events, logging, logged, overwritten>>
  BY DEF HandleUpdateProfile, Ready
<1>2. popups[p] \in PopupStates /\ popups[p].writes \in Seq(ProfileWrites)
  BY DEF ProfileTypeOK, PopupStates
<1>3. write \in ProfileWrites /\ rest \in Seq(ProfileWrites)
  BY <1>1, <1>2, HeadTailProperties
<1>4. CASE /\ stored' = [onboarded |-> some, profile |-> shown]
           /\ popups' = [q \in Popups |->
                IF q = p THEN taken_over ELSE [popups[q] EXCEPT !.current = FALSE]]
  <2>1. /\ shown \in SUBSET GoodProfiles /\ shown # {} /\ \A x \in shown : x.parses
        /\ onboarded \in BOOLEAN /\ some \in BOOLEAN
    BY <1>3 DEF ProfileWrites
  <2>2. step \in {"crashed", "ready"}
    BY DEF Rendered
  <2> HIDE DEF rest, onboarded, some, step, shown, write
  <2>3. taken_over \in PopupStates
    BY <1>2, <1>3, <2>1, <2>2 DEF PopupStates
  <2>4. /\ taken_over.keep = popups[p].keep /\ taken_over.profile = shown
        /\ taken_over.step = step
    BY <1>2 DEF PopupStates
  <2> HIDE DEF taken_over
  <2>5. /\ popups'[p] = taken_over
        /\ \A q \in Popups : q # p =>
            /\ popups'[q] \in PopupStates /\ ~popups'[q].current
            /\ popups'[q].step = popups[q].step /\ popups'[q].keep = popups[q].keep
    BY <1>4 DEF ProfileTypeOK, PopupStates
  <2>6. popups' \in [Popups -> PopupStates]
    BY <1>4, <2>3, <2>5
  <2>7. /\ stored' \in [onboarded : BOOLEAN, profile : SUBSET GoodProfiles]
        /\ stored'.profile = shown
    BY <1>4, <2>1
  <2>8. ProfileTypeOK'
    BY <1>1, <2>1, <2>6, <2>7 DEF ProfileTypeOK
  <2>9. CurrentIsShown'
    BY <2>1, <2>4, <2>5, <2>7 DEF CurrentIsShown
  <2>10. LogIsSomewhere' /\ NothingBeforeTheFirst'
    BY <1>1, <2>2, <2>4, <2>5, QuietForTheLog
  <2> QED
    BY <2>8, <2>9, <2>10
<1>5. CASE /\ popups' = [popups EXCEPT ![p].writes = Tail(@)]
           /\ UNCHANGED stored
  <2>1. popups' = [popups EXCEPT ![p] = [popups[p] EXCEPT !.writes = rest]]
    BY <1>5
  <2> HIDE DEF rest
  <2>2. /\ popups' \in [Popups -> PopupStates]
        /\ \A q \in Popups :
            /\ popups'[q].step = popups[q].step /\ popups'[q].keep = popups[q].keep
            /\ popups'[q].current = popups[q].current
            /\ popups'[q].profile = popups[q].profile
    <3>1. [popups[p] EXCEPT !.writes = rest] \in PopupStates
      BY <1>2, <1>3 DEF PopupStates
    <3> QED
      BY <1>2, <2>1, <3>1 DEF ProfileTypeOK, PopupStates
  <2>3. ProfileTypeOK'
    BY <1>1, <1>5, <2>2 DEF ProfileTypeOK
  <2>4. CurrentIsShown'
    BY <1>5, <2>2 DEF CurrentIsShown
  <2>5. LogIsSomewhere' /\ NothingBeforeTheFirst'
    BY <1>1, <2>2, QuietForTheLog
  <2> QED
    BY <2>3, <2>4, <2>5
<1> QED
  BY <1>4, <1>5 DEF HandleUpdateProfile

\* the reset: the log is read ...
LEMMA ResetReadsStep ==
    ASSUME ProfileInv, NEW p \in Popups, popups[p].step = "ready",
           popups' = [popups EXCEPT ![p].step = "resetting", ![p].keep = events],
           UNCHANGED <<stored, events, logging, logged, overwritten>>
    PROVE  ProfileInv'
<1> USE DEF ProfileInv
<1>1. /\ popups' \in [Popups -> PopupStates]
      /\ popups'[p].step = "resetting" /\ popups'[p].keep = events
      /\ \A q \in Popups : q # p => popups'[q] = popups[q]
  BY ZenonT(60) DEF ProfileTypeOK, PopupStates
<1>2. ProfileTypeOK'
  BY <1>1 DEF ProfileTypeOK
<1>3. CurrentIsShown'
  BY <1>1 DEF CurrentIsShown
<1>4. LastEvents(logged)' = LastEvents(logged)
  BY DEF LastEvents
<1>5. \A q \in Popups : /\ popups[q].step = "cleared" => q # p /\ popups'[q] = popups[q]
                        /\ Holds(q) => Holds(q)'
  BY <1>1 DEF Holds
<1>6. LogIsSomewhere'
  BY <1>4, <1>5 DEF LogIsSomewhere
<1>7. NothingBeforeTheFirst'
  BY <1>1, <1>4 DEF NothingBeforeTheFirst
<1> QED
  BY <1>2, <1>3, <1>6, <1>7

\* ... storage is cleared ...
LEMMA ResetClearsStep ==
    ASSUME ProfileInv, NEW p \in Popups, popups[p].step = "resetting",
           stored' = [onboarded |-> FALSE, profile |-> {}], events' = <<>>,
           popups' = [q \in Popups |-> IF q = p THEN [popups[p] EXCEPT !.step = "cleared"]
                                       ELSE [popups[q] EXCEPT !.current = FALSE]],
           overwritten' = (overwritten \/ events # popups[p].keep),
           UNCHANGED <<logging, logged>>
    PROVE  ProfileInv'
<1> USE DEF ProfileInv
<1>1. /\ popups' \in [Popups -> PopupStates]
      /\ popups'[p].step = "cleared" /\ popups'[p].keep = popups[p].keep
      /\ \A q \in Popups : q # p =>
            /\ ~popups'[q].current /\ popups'[q].step = popups[q].step
            /\ popups'[q].keep = popups[q].keep
  BY ZenonT(60) DEF ProfileTypeOK, PopupStates
<1>2. ProfileTypeOK'
  BY <1>1 DEF ProfileTypeOK
<1>3. CurrentIsShown'
  BY <1>1 DEF CurrentIsShown
<1>4. LastEvents(logged)' = LastEvents(logged)
  BY DEF LastEvents
<1>5. \A q \in Popups : /\ popups[q].step = "cleared" => q # p
                        /\ Holds(q) => Holds(q)'
  BY <1>1 DEF Holds
<1>6. LogIsSomewhere'
  <2> SUFFICES ASSUME ~overwritten' PROVE LogIsSomewhere'
    BY DEF LogIsSomewhere
  <2>1. ~overwritten /\ popups'[p].keep = events
    BY <1>1
  <2>2. CASE events = LastEvents(logged)
    BY <1>1, <1>4, <2>1, <2>2 DEF LogIsSomewhere
  <2>3. CASE events = <<>> /\ \E q \in Popups :
            popups[q].step = "cleared" /\ popups[q].keep = LastEvents(logged)
    BY <1>1, <1>4, <1>5, <2>3 DEF LogIsSomewhere
  <2>4. CASE events # <<>> /\ \E q \in Popups : Holds(q)
    <3>1. PICK q \in Popups : Holds(q)
      BY <2>4
    <3>2. q # p /\ Holds(q)' /\ Holds(p)'
      BY <1>1, <1>5, <2>1, <2>4, <3>1 DEF Holds
    <3> QED
      BY <3>2 DEF LogIsSomewhere
  <2>5. CASE \E q, r \in Popups : q # r /\ Holds(q) /\ Holds(r)
    BY <1>5, <2>5 DEF LogIsSomewhere
  <2> QED
    BY <2>1, <2>2, <2>3, <2>4, <2>5 DEF LogIsSomewhere
<1>7. NothingBeforeTheFirst'
  BY <1>1, <1>4 DEF NothingBeforeTheFirst
<1> QED
  BY <1>2, <1>3, <1>6, <1>7

\* ... and the log is put back
LEMMA ResetRestoresStep ==
    ASSUME ProfileInv, NEW p \in Popups, popups[p].step = "cleared",
           events' = IF popups[p].keep = <<>> THEN events ELSE popups[p].keep,
           popups' = [popups EXCEPT ![p] = [ClosedPopup EXCEPT !.step = "loading"]],
           overwritten' = (overwritten \/ (events # <<>> /\ popups[p].keep # <<>>)),
           UNCHANGED <<stored, logging, logged>>
    PROVE  ProfileInv'
<1> USE DEF ProfileInv
<1>1. /\ popups' \in [Popups -> PopupStates] /\ popups'[p].step = "loading"
      /\ popups'[p].keep = <<>>
      /\ \A q \in Popups : q # p => popups'[q] = popups[q]
  <2> DEFINE reloaded == [ClosedPopup EXCEPT !.step = "loading"]
  <2>1. <<>> \in Seq(ProfileWrites) /\ <<>> \in Seq(Nat)
    OBVIOUS
  <2>2. reloaded \in PopupStates /\ reloaded.step = "loading" /\ reloaded.keep = <<>>
    BY <2>1 DEF ClosedPopup, PopupStates
  <2> HIDE DEF reloaded
  <2> QED
    BY <2>2 DEF ProfileTypeOK, reloaded
<1>2. events' \in Seq(Nat)
  BY DEF ProfileTypeOK, PopupStates
<1>3. ProfileTypeOK'
  BY <1>1, <1>2 DEF ProfileTypeOK
<1>4. CurrentIsShown'
  BY <1>1 DEF CurrentIsShown
<1>5. LastEvents(logged)' = LastEvents(logged)
  BY DEF LastEvents
<1>6. \A q \in Popups : q # p => (Holds(q) => Holds(q)')
  BY <1>1 DEF Holds
<1>7. CASE popups[p].keep = <<>>
  <2>1. events' = events /\ ~Holds(p)
    BY <1>7 DEF Holds
  <2>2. overwritten' \/ (~overwritten /\ ~Holds(p))
    BY <2>1
  <2>3. LogIsSomewhere' /\ NothingBeforeTheFirst'
    BY <1>1, <2>1, <2>2, LetsGo
  <2> QED
    BY <1>3, <1>4, <2>3
<1>8. CASE popups[p].keep # <<>>
  <2>1. events' = popups[p].keep /\ LastEvents(logged) # <<>>
    BY <1>8 DEF NothingBeforeTheFirst
  <2>2. LogIsSomewhere'
    <3> SUFFICES ASSUME ~overwritten' PROVE LogIsSomewhere'
      BY DEF LogIsSomewhere
    <3>1. ~overwritten /\ events = <<>>
      BY <1>8
    <3>2. ASSUME NEW q \in Popups,
                 popups[q].step = "cleared", popups[q].keep = LastEvents(logged)
          PROVE  LogIsSomewhere'
      <4>1. CASE q = p
        BY <1>5, <2>1, <3>2, <4>1 DEF LogIsSomewhere
      <4>2. CASE q # p
        BY <1>6, <1>8, <2>1, <3>2, <4>2 DEF LogIsSomewhere, Holds
      <4> QED
        BY <4>1, <4>2
    <3>3. ASSUME NEW q \in Popups, NEW r \in Popups, q # r, Holds(q), Holds(r)
          PROVE  LogIsSomewhere'
      BY <1>6, <1>8, <2>1, <3>3 DEF LogIsSomewhere
    <3> QED
      BY <2>1, <3>1, <3>2, <3>3 DEF LogIsSomewhere
  <2>3. NothingBeforeTheFirst'
    BY <1>5, <2>1 DEF NothingBeforeTheFirst
  <2> QED
    BY <1>3, <1>4, <2>2, <2>3
<1> QED
  BY <1>7, <1>8

\* a call of the reset fails
LEMMA ResetFailsStep ==
    ASSUME ProfileInv, NEW p \in Popups, popups[p].step \in {"resetting", "cleared"},
           popups' = [popups EXCEPT ![p].step = "ready", ![p].current = FALSE],
           overwritten' = (overwritten \/ popups[p].step = "cleared"),
           UNCHANGED <<stored, events, logging, logged>>
    PROVE  ProfileInv'
<1> USE DEF ProfileInv
<1>1. /\ popups' \in [Popups -> PopupStates] /\ popups'[p].step = "ready"
      /\ ~popups'[p].current /\ popups'[p].keep = popups[p].keep
      /\ \A q \in Popups : q # p => popups'[q] = popups[q]
  BY ZenonT(60) DEF ProfileTypeOK, PopupStates
<1>2. ProfileTypeOK'
  BY <1>1 DEF ProfileTypeOK
<1>3. CurrentIsShown'
  BY <1>1 DEF CurrentIsShown
<1>4. overwritten' \/ (~overwritten /\ ~Holds(p))
  BY DEF Holds
<1>5. LogIsSomewhere' /\ NothingBeforeTheFirst'
  BY <1>1, <1>4, LetsGo
<1> QED
  BY <1>2, <1>3, <1>5

LEMMA ResetStep ==
    ASSUME ProfileInv, NEW p \in Popups, HandleReset(p)
    PROVE  ProfileInv'
BY ResetReadsStep, ResetClearsStep, ResetRestoresStep, ResetFailsStep DEF HandleReset, Ready
\* the log's last events
LEMMA LastEventsProperties ==
    ASSUME NEW s \in Seq(Nat)
    PROVE  /\ LastEvents(s) \in Seq(Nat)
           /\ Len(LastEvents(s)) = IF Len(s) <= MaxEvents THEN Len(s) ELSE MaxEvents
           /\ \A i \in 1..Len(LastEvents(s)) :
                LastEvents(s)[i] = s[i + (Len(s) - Len(LastEvents(s)))]
<1>1. MaxEvents \in Nat
  BY ProfileAssumption
<1>2. CASE Len(s) <= MaxEvents
  BY <1>2 DEF LastEvents
<1>3. CASE ~(Len(s) <= MaxEvents)
  <2> DEFINE t == SubSeq(s, Len(s) - MaxEvents + 1, Len(s))
  <2>1. t \in Seq(Nat) /\ Len(t) = MaxEvents
        /\ \A i \in 1..MaxEvents : t[i] = s[i + (Len(s) - MaxEvents)]
    BY <1>1, <1>3
  <2>2. LastEvents(s) = t
    BY <1>3 DEF LastEvents
  <2> HIDE DEF t
  <2> QED
    BY <1>3, <2>1, <2>2
<1> QED
  BY <1>2, <1>3

\* nothing is lost by forgetting the older ones before the next is added
LEMMA LastEventsAppend ==
    ASSUME NEW s \in Seq(Nat), NEW e \in Nat
    PROVE  LastEvents(Append(LastEvents(s), e)) = LastEvents(Append(s, e))
<1> DEFINE l == LastEvents(s)
           t == Append(l, e)
           u == Append(s, e)
<1>0. MaxEvents \in Nat
  BY ProfileAssumption
<1>1. /\ l \in Seq(Nat) /\ Len(l) = IF Len(s) <= MaxEvents THEN Len(s) ELSE MaxEvents
      /\ \A i \in 1..Len(l) : l[i] = s[i + (Len(s) - Len(l))]
  BY LastEventsProperties
<1> HIDE DEF l
<1>2. /\ t \in Seq(Nat) /\ Len(t) = Len(l) + 1
      /\ \A i \in 1..Len(t) : t[i] = IF i <= Len(l) THEN l[i] ELSE e
  BY <1>1, AppendProperties
<1>3. /\ u \in Seq(Nat) /\ Len(u) = Len(s) + 1
      /\ \A i \in 1..Len(u) : u[i] = IF i <= Len(s) THEN s[i] ELSE e
  BY AppendProperties
<1> HIDE DEF t, u
<1>4. /\ LastEvents(t) \in Seq(Nat)
      /\ Len(LastEvents(t)) = IF Len(t) <= MaxEvents THEN Len(t) ELSE MaxEvents
      /\ \A i \in 1..Len(LastEvents(t)) :
            LastEvents(t)[i] = t[i + (Len(t) - Len(LastEvents(t)))]
  BY <1>2, LastEventsProperties
<1>5. /\ LastEvents(u) \in Seq(Nat)
      /\ Len(LastEvents(u)) = IF Len(u) <= MaxEvents THEN Len(u) ELSE MaxEvents
      /\ \A i \in 1..Len(LastEvents(u)) :
            LastEvents(u)[i] = u[i + (Len(u) - Len(LastEvents(u)))]
  BY <1>3, LastEventsProperties
<1> DEFINE lt == LastEvents(t)
           lu == LastEvents(u)
<1>6. Len(lt) = Len(lu) /\ lt \in Seq(Nat) /\ lu \in Seq(Nat)
  BY <1>0, <1>1, <1>2, <1>3, <1>4, <1>5
<1> DEFINE S == Len(s)
           L == Len(l)
           T == Len(t)
           U == Len(u)
           N == Len(lt)
<1>lengths.
    /\ S \in Nat /\ L \in Nat /\ T = L + 1 /\ U = S + 1 /\ L <= S /\ N <= T /\ N \in Nat
    /\ (L = S /\ N = T) \/ (L < S /\ N = L) \/ (L = S /\ N = L)
    /\ T - N = U - N - (S - L)
  <2>1. S \in Nat /\ L = IF S <= MaxEvents THEN S ELSE MaxEvents
    BY <1>1
  <2>2. T = L + 1 /\ U = S + 1
    BY <1>2, <1>3
  <2>3. N = IF T <= MaxEvents THEN T ELSE MaxEvents
    BY <1>4
  <2> HIDE DEF S, L, T, U, N
  <2> QED
    BY <1>0, <2>1, <2>2, <2>3
<1>7. ASSUME NEW i \in 1..Len(lt) PROVE lt[i] = lu[i]
  <2> DEFINE j == i + (Len(t) - Len(lt))
             k == i + (Len(u) - Len(lu))
  <2>1. j \in 1..Len(t) /\ k \in 1..Len(u) /\ k = j + (Len(s) - Len(l))
    <3>1. j = i + (T - N) /\ k = i + (U - N) /\ i \in 1..N
      BY <1>6
    <3> HIDE DEF j, k, S, L, T, U, N
    <3>2. j \in 1..T /\ k \in 1..U /\ k = j + (S - L)
      BY <1>lengths, <3>1
    <3> QED
      BY <3>2 DEF S, L, T, U
  <2>2. lt[i] = t[j] /\ lu[i] = u[k]
    BY <1>4, <1>5, <1>6
  <2> HIDE DEF j, k, lt, lu
  <2>3. t[j] = u[k]
    <3>1. CASE j <= Len(l)
      <4>1. j \in 1..Len(l) /\ k <= Len(s) /\ k = j + (Len(s) - Len(l))
        BY <1>1, <1>2, <2>1, <3>1
      <4>2. u[k] = s[k]
        BY <1>3, <2>1, <4>1
      <4>3. t[j] = l[j]
        BY <1>2, <2>1, <3>1
      <4>4. l[j] = s[j + (Len(s) - Len(l))]
        BY <1>1, <4>1
      <4> QED
        BY <4>1, <4>2, <4>3, <4>4
    <3>2. CASE ~(j <= Len(l))
      <4>1. ~(k <= Len(s))
        BY <1>1, <1>2, <2>1, <3>2
      <4> QED
        BY <1>2, <1>3, <2>1, <3>2, <4>1
    <3> QED
      BY <3>1, <3>2
  <2> QED
    BY <2>2, <2>3
<1> HIDE DEF lt, lu
<1>8. lt = lu
  BY <1>6, <1>7, SeqEqual
<1> QED
  BY <1>8 DEF lt, lu, l, t, u

\* an event is logged
LEMMA LogStep ==
    ASSUME ProfileInv, LogSecurityEvent
    PROVE  ProfileInv'
<1> USE DEF ProfileInv
<1>1. UNCHANGED <<stored, popups>>
  BY DEF LogSecurityEvent
<1>2. CurrentIsShown'
  BY <1>1 DEF CurrentIsShown
<1>3. \A q \in Popups : /\ Holds(q)' <=> Holds(q)
                        /\ popups'[q].step = popups[q].step /\ popups'[q].keep = popups[q].keep
  BY <1>1 DEF Holds
<1>4. events \in Seq(Nat) /\ logged \in Seq(Nat) /\ logging \in Seq(Seq(Nat))
  BY DEF ProfileTypeOK
<1>5. CASE logging' = Append(logging, events) /\ UNCHANGED <<events, logged, overwritten>>
  <2>1. ProfileTypeOK'
    BY <1>1, <1>4, <1>5 DEF ProfileTypeOK
  <2>2. LogIsSomewhere' /\ NothingBeforeTheFirst'
    BY <1>3, <1>5, QuietForTheLog
  <2> QED
    BY <1>2, <2>1, <2>2
<1>6. CASE logging # <<>> /\ logging' = Tail(logging) /\ UNCHANGED <<events, logged, overwritten>>
  <2>1. ProfileTypeOK'
    BY <1>1, <1>4, <1>6, HeadTailProperties DEF ProfileTypeOK
  <2>2. LogIsSomewhere' /\ NothingBeforeTheFirst'
    BY <1>3, <1>6, QuietForTheLog
  <2> QED
    BY <1>2, <2>1, <2>2
<1>7. CASE /\ logging # <<>> /\ logging' = Tail(logging)
           /\ events' = LastEvents(Append(Head(logging), Len(logged) + 1))
           /\ logged' = Append(logged, Len(logged) + 1)
           /\ overwritten' = (overwritten \/ events # Head(logging))
  <2> DEFINE read == Head(logging)
             e == Len(logged) + 1
             found == Append(read, e)
  <2>1. read \in Seq(Nat) /\ logging' \in Seq(Seq(Nat)) /\ e \in Nat
    BY <1>4, <1>7, HeadTailProperties
  <2> HIDE DEF read, e
  <2>2. found \in Seq(Nat) /\ Len(found) = Len(read) + 1
    BY <2>1
  <2>3. logged' = Append(logged, e) /\ logged' \in Seq(Nat) /\ Len(logged') = Len(logged) + 1
    BY <1>4, <1>7, <2>1 DEF e
  <2>4. events' = LastEvents(found)
    BY <1>7 DEF read, e
  <2> HIDE DEF found
  <2>5. events' \in Seq(Nat) /\ Len(events') = IF Len(found) <= MaxEvents THEN Len(found) ELSE MaxEvents
    BY <2>2, <2>4, LastEventsProperties
  <2>6. ProfileTypeOK'
    <3>1. overwritten' \in BOOLEAN
      BY <1>7
    <3> QED
      BY <1>1, <2>1, <2>3, <2>5, <3>1 DEF ProfileTypeOK
  <2>7. MaxEvents \in Nat /\ (MaxEvents = 0 => LastEvents(logged) = <<>> /\ events' = <<>>)
    <3>1. MaxEvents = 0 => Len(LastEvents(logged)) = 0 /\ LastEvents(logged) \in Seq(Nat)
      BY <1>4, LastEventsProperties
    <3>2. MaxEvents = 0 => Len(events') = 0
      BY <2>1, <2>2, <2>5
    <3> QED
      BY <2>5, <3>1, <3>2, ProfileAssumption
  <2>8. MaxEvents # 0 => events' # <<>> /\ LastEvents(logged') # <<>>
    <3>1. MaxEvents # 0 => Len(events') # 0
      BY <2>1, <2>2, <2>5, <2>7
    <3>2. MaxEvents # 0 => Len(LastEvents(logged')) # 0
      <4>1. Len(LastEvents(logged')) = IF Len(logged') <= MaxEvents THEN Len(logged') ELSE MaxEvents
        BY <2>3, LastEventsProperties
      <4> QED
        BY <1>4, <2>3, <2>7, <4>1
    <3> QED
      BY <3>1, <3>2
  <2>9. NothingBeforeTheFirst'
    BY <1>3, <2>7, <2>8 DEF NothingBeforeTheFirst
  <2>10. LogIsSomewhere'
    <3> SUFFICES ASSUME ~overwritten' PROVE LogIsSomewhere'
      BY DEF LogIsSomewhere
    <3>1. ~overwritten /\ events = read
      BY <1>7 DEF read
    <3>2. CASE events = LastEvents(logged)
      <4>1. events' = LastEvents(Append(LastEvents(logged), e))
        BY <2>4, <3>1, <3>2 DEF found
      <4>2. events' = LastEvents(Append(logged, e))
        BY <1>4, <2>1, <4>1, LastEventsAppend
      <4>3. events' = LastEvents(logged')
        BY <2>3, <4>2
      <4>4. LastEvents(logged)' = LastEvents(logged')
        BY DEF LastEvents
      <4> QED
        BY <4>3, <4>4 DEF LogIsSomewhere
    <3>3. CASE MaxEvents # 0 /\ \E q \in Popups : Holds(q)
      BY <1>3, <2>8, <3>3 DEF LogIsSomewhere
    <3>4. CASE \E q, r \in Popups : q # r /\ Holds(q) /\ Holds(r)
      BY <1>3, <3>4 DEF LogIsSomewhere
    <3>5. MaxEvents = 0 => \A q \in Popups : ~Holds(q)
      BY <2>7 DEF NothingBeforeTheFirst, Holds
    <3> QED
      BY <3>1, <3>2, <3>3, <3>4, <3>5 DEF LogIsSomewhere, Holds
  <2> QED
    BY <1>2, <2>6, <2>9, <2>10
<1> QED
  BY <1>5, <1>6, <1>7 DEF LogSecurityEvent

(***************************************************************************)
(* The inductive invariant of the profile store: whatever is shown, under  *)
(* way or stored is a good profile, and no event is lost unnoticed.        *)
(***************************************************************************)
THEOREM ProfileInvariance == ProfileSpec => []ProfileInv
<1>1. ProfileInit => ProfileInv
  <2> SUFFICES ASSUME ProfileInit PROVE ProfileInv
    OBVIOUS
  <2>1. /\ events = <<>> /\ logged = <<>> /\ logging = <<>> /\ overwritten = FALSE
        /\ \A p \in Popups : popups[p] = ClosedPopup
    BY DEF ProfileInit
  <2>2. popups \in [Popups -> PopupStates]
    <3>1. <<>> \in Seq(ProfileWrites) /\ <<>> \in Seq(Nat)
      OBVIOUS
    <3>2. ClosedPopup \in PopupStates
      BY <3>1 DEF PopupStates, ClosedPopup
    <3> HIDE DEF PopupStates
    <3> QED
      BY <3>2 DEF ProfileInit
  <2>3. CorruptProfile \in GoodProfiles /\ Profile(<<>>, FALSE) \in GoodProfiles
    <3>1. IsInjective(<<>>) /\ <<>> \in Seq(Things)
      BY DEF IsInjective
    <3> QED
      BY <3>1, MadeIsGood DEF CorruptProfile, GoodProfiles
  <2>4. /\ stored \in [onboarded : BOOLEAN, profile : SUBSET GoodProfiles]
        /\ stored.onboarded => stored.profile # {}
    <3> DEFINE made == Profile(<<>>, FALSE)
    <3>1. stored \in {[onboarded |-> FALSE, profile |-> {}],
                      [onboarded |-> TRUE, profile |-> {CorruptProfile}],
                      [onboarded |-> TRUE, profile |-> {made}]}
      BY DEF ProfileInit
    <3>2. made \in GoodProfiles /\ CorruptProfile \in GoodProfiles
      BY <2>3
    <3> HIDE DEF made
    <3>3. CASE stored = [onboarded |-> FALSE, profile |-> {}]
      BY <3>3
    <3>4. CASE stored = [onboarded |-> TRUE, profile |-> {CorruptProfile}]
      BY <3>2, <3>4
    <3>5. CASE stored = [onboarded |-> TRUE, profile |-> {made}]
      BY <3>2, <3>5
    <3> QED
      BY <3>1, <3>3, <3>4, <3>5
  <2>5. ProfileTypeOK
    <3>1. events \in Seq(Nat) /\ logged \in Seq(Nat) /\ logging \in Seq(Seq(Nat))
      BY <2>1
    <3>2. overwritten \in BOOLEAN
      BY <2>1
    <3> QED
      BY <2>2, <2>4, <3>1, <3>2 DEF ProfileTypeOK
  <2>6. CurrentIsShown
    BY <2>1 DEF CurrentIsShown, ClosedPopup
  <2>7. LastEvents(logged) = <<>>
    BY <2>1, ProfileAssumption DEF LastEvents
  <2>8. \A p \in Popups : popups[p].keep = <<>>
    BY <2>1 DEF ClosedPopup
  <2> QED
    BY <2>1, <2>5, <2>6, <2>7, <2>8 DEF ProfileInv, LogIsSomewhere, NothingBeforeTheFirst
<1>2. ProfileInv /\ [ProfileNext]_profileVars => ProfileInv'
  <2> SUFFICES ASSUME ProfileInv, [ProfileNext]_profileVars PROVE ProfileInv'
    OBVIOUS
  <2>1. CASE LogSecurityEvent
    BY <2>1, LogStep
  <2>2. ASSUME NEW p \in Popups, Open(p) \/ LoadState(p) \/ Close(p) PROVE ProfileInv'
    BY <2>2, OpenPopupStep, LoadStateStep, CloseStep
  <2>3. ASSUME NEW p \in Popups, HandleUpdateProfile(p) \/ HandleReset(p) PROVE ProfileInv'
    BY <2>3, UpdateProfileStep, ResetStep
  <2>4. ASSUME NEW p \in Popups,
               \/ HandleOnboardingComplete(p) \/ HandleImport(p)
               \/ \E c \in Cards : HandleAddCard(p, c)
               \/ \E v \in Vouchers : HandleAddVoucher(p, v)
               \/ \E c \in Cards \cup Vouchers : HandleRemoveCard(p, c)
               \/ HandleUpdateSpend(p) \/ HandleUpdateValuation(p)
               \/ \E m \in Memberships :
                    HandleAddMembership(p, m) \/ HandleRemoveMembership(p, m)
        PROVE  ProfileInv'
    BY <2>4, FormsStep
  <2>5. CASE UNCHANGED profileVars
    <3>1. UNCHANGED <<stored, events, popups, logging, logged, overwritten>>
      BY <2>5 DEF profileVars
    <3>2. ProfileTypeOK' /\ CurrentIsShown'
      BY <3>1 DEF ProfileInv, ProfileTypeOK, CurrentIsShown
    <3>3. LogIsSomewhere' /\ NothingBeforeTheFirst'
      BY <3>1, QuietForTheLog DEF ProfileInv
    <3> QED
      BY <3>2, <3>3 DEF ProfileInv
  <2> QED
    BY <2>1, <2>2, <2>3, <2>4, <2>5 DEF ProfileNext
<1> QED
  BY <1>1, <1>2, PTL DEF ProfileSpec

\* no popup goes to its dashboard without a profile that parses
DashboardHasProfile ==
    \A p \in Popups : popups[p].onboarded => \E x \in popups[p].profile : x.parses

\* a step after which every popup shows what it showed before
LEMMA DashboardsStay ==
    ASSUME DashboardHasProfile,
           \A q \in Popups : /\ popups'[q].onboarded = popups[q].onboarded
                             /\ popups'[q].profile = popups[q].profile
    PROVE  DashboardHasProfile'
BY DEF DashboardHasProfile

LEMMA FormsKeepDashboards ==
    ASSUME ProfileInv, DashboardHasProfile, NEW p \in Popups, NEW x, NEW onboards,
           Writes(p, x, onboards)
    PROVE  DashboardHasProfile'
<1> DEFINE written == Append(popups[p].writes, [profile |-> x, onboards |-> onboards])
           after == [popups[p] EXCEPT !.writes = written]
<1>1. popups' = popups \/ popups' = [popups EXCEPT ![p] = after]
  BY DEF Writes
<1> HIDE DEF written
<1>2. popups \in [Popups -> PopupStates] /\ popups[p] \in PopupStates
  BY DEF ProfileInv, ProfileTypeOK
<1>3. after.onboarded = popups[p].onboarded /\ after.profile = popups[p].profile
  BY <1>2 DEF PopupStates
<1> HIDE DEF after
<1>4. \A q \in Popups : popups'[q] = popups[q] \/ (q = p /\ popups'[q] = after)
  BY <1>1, <1>2
<1>5. \A q \in Popups : /\ popups'[q].onboarded = popups[q].onboarded
                        /\ popups'[q].profile = popups[q].profile
  BY <1>3, <1>4
<1> QED
  BY <1>5, DashboardsStay

LEMMA LoadingKeepsDashboards ==
    ASSUME ProfileInv, DashboardHasProfile, NEW p \in Popups, LoadState(p)
    PROVE  DashboardHasProfile'
<1> DEFINE good == {x \in stored.profile : x.parses}
           onboarded == stored.onboarded /\ good = stored.profile
           step == Rendered(onboarded)
           loaded == [ClosedPopup EXCEPT !.step = step, !.current = TRUE,
                            !.onboarded = onboarded, !.profile = good]
           empty == [ClosedPopup EXCEPT !.step = "ready"]
<1>1. popups' = [popups EXCEPT ![p] = loaded] \/ popups' = [popups EXCEPT ![p] = empty]
  BY DEF LoadState
<1>2. onboarded => \E x \in good : x.parses
  BY DEF ProfileInv, ProfileTypeOK
<1> HIDE DEF good, onboarded, step
<1>3. loaded.onboarded = onboarded /\ loaded.profile = good /\ ~empty.onboarded
  BY DEF ClosedPopup
<1> HIDE DEF loaded, empty
<1>4. /\ popups'[p] = loaded \/ popups'[p] = empty
      /\ \A q \in Popups : q # p => popups'[q] = popups[q]
  BY <1>1 DEF ProfileInv, ProfileTypeOK
<1> QED
  BY <1>2, <1>3, <1>4 DEF DashboardHasProfile

LEMMA ClosingKeepsDashboards ==
    ASSUME ProfileInv, DashboardHasProfile, NEW p \in Popups, Close(p)
    PROVE  DashboardHasProfile'
<1>1. PICK n \in 0..Len(popups[p].writes) :
        popups' = [q \in Popups |-> IF q = p THEN ClosedPopup
                                    ELSE [popups[q] EXCEPT !.current = @ /\ n = 0]]
  BY DEF Close
<1>2. ~popups'[p].onboarded
  BY <1>1 DEF ClosedPopup
<1>3. ASSUME NEW q \in Popups, q # p
      PROVE  /\ popups'[q].onboarded = popups[q].onboarded
             /\ popups'[q].profile = popups[q].profile
  <2> DEFINE still == popups[q].current /\ n = 0
  <2>1. popups'[q] = [popups[q] EXCEPT !.current = still] /\ popups[q] \in PopupStates
    BY <1>1, <1>3 DEF ProfileInv, ProfileTypeOK
  <2> HIDE DEF still
  <2> QED
    BY <2>1 DEF PopupStates
<1> QED
  BY <1>2, <1>3 DEF DashboardHasProfile

LEMMA WritingKeepsDashboards ==
    ASSUME ProfileInv, DashboardHasProfile, NEW p \in Popups, HandleUpdateProfile(p)
    PROVE  DashboardHasProfile'
<1> DEFINE write == Head(popups[p].writes)
           rest == Tail(popups[p].writes)
           onboarded == popups[p].onboarded \/ write.onboards
           step == Rendered(onboarded)
           shown == {write.profile}
           taken_over == [popups[p] EXCEPT !.writes = rest, !.current = TRUE,
                            !.profile = shown, !.onboarded = onboarded, !.step = step]
<1>1. /\ popups[p] \in PopupStates /\ popups[p].writes \in Seq(ProfileWrites)
      /\ popups[p].writes # <<>> /\ popups \in [Popups -> PopupStates]
  BY DEF HandleUpdateProfile, ProfileInv, ProfileTypeOK, PopupStates
<1>2. \E x \in shown : x.parses
  <2>1. write \in ProfileWrites
    BY <1>1, HeadTailProperties
  <2> QED
    BY <2>1 DEF ProfileWrites
<1>3. \/ popups' = [q \in Popups |->
                IF q = p THEN taken_over ELSE [popups[q] EXCEPT !.current = FALSE]]
      \/ popups' = [popups EXCEPT ![p] = [popups[p] EXCEPT !.writes = rest]]
  BY DEF HandleUpdateProfile
<1> HIDE DEF rest, onboarded, step, shown, write
<1>4. taken_over.profile = shown
  BY <1>1 DEF PopupStates
<1> HIDE DEF taken_over
<1>5. CASE popups' = [q \in Popups |->
                IF q = p THEN taken_over ELSE [popups[q] EXCEPT !.current = FALSE]]
  <2>1. \A q \in Popups : q # p => /\ popups'[q].onboarded = popups[q].onboarded
                                  /\ popups'[q].profile = popups[q].profile
    BY <1>1, <1>5 DEF PopupStates
  <2>2. popups'[p] = taken_over
    BY <1>5
  <2> QED
    BY <1>2, <1>4, <2>1, <2>2 DEF DashboardHasProfile
<1>6. CASE popups' = [popups EXCEPT ![p] = [popups[p] EXCEPT !.writes = rest]]
  <2>1. \A q \in Popups : /\ popups'[q].onboarded = popups[q].onboarded
                          /\ popups'[q].profile = popups[q].profile
    BY <1>1, <1>6 DEF PopupStates
  <2> QED
    BY <2>1, DashboardsStay
<1> QED
  BY <1>3, <1>5, <1>6

LEMMA ResettingKeepsDashboards ==
    ASSUME ProfileInv, DashboardHasProfile, NEW p \in Popups, HandleReset(p)
    PROVE  DashboardHasProfile'
<1>1. popups \in [Popups -> PopupStates]
  BY DEF ProfileInv, ProfileTypeOK
<1>2. CASE popups' = [popups EXCEPT ![p].step = "resetting", ![p].keep = events]
  <2>1. \A q \in Popups : /\ popups'[q].onboarded = popups[q].onboarded
                          /\ popups'[q].profile = popups[q].profile
    BY <1>1, <1>2, ZenonT(60) DEF PopupStates
  <2> QED
    BY <2>1, DashboardsStay
<1>3. CASE popups' = [q \in Popups |-> IF q = p THEN [popups[p] EXCEPT !.step = "cleared"]
                                       ELSE [popups[q] EXCEPT !.current = FALSE]]
  <2>1. \A q \in Popups : /\ popups'[q].onboarded = popups[q].onboarded
                          /\ popups'[q].profile = popups[q].profile
    BY <1>1, <1>3, ZenonT(60) DEF PopupStates
  <2> QED
    BY <2>1, DashboardsStay
<1>4. CASE popups' = [popups EXCEPT ![p] = [ClosedPopup EXCEPT !.step = "loading"]]
  <2> DEFINE reloaded == [ClosedPopup EXCEPT !.step = "loading"]
  <2>1. ~reloaded.onboarded
    BY DEF ClosedPopup
  <2> HIDE DEF reloaded
  <2>2. popups'[p] = reloaded /\ \A q \in Popups : q # p => popups'[q] = popups[q]
    BY <1>1, <1>4 DEF reloaded
  <2> QED
    BY <2>1, <2>2 DEF DashboardHasProfile
<1>5. CASE popups' = [popups EXCEPT ![p].step = "ready", ![p].current = FALSE]
  <2>1. \A q \in Popups : /\ popups'[q].onboarded = popups[q].onboarded
                          /\ popups'[q].profile = popups[q].profile
    BY <1>1, <1>5, ZenonT(60) DEF PopupStates
  <2> QED
    BY <2>1, DashboardsStay
<1> QED
  BY <1>2, <1>3, <1>4, <1>5 DEF HandleReset

(***************************************************************************)
(* The popup that was the last to read or write the profile shows what is  *)
(* stored, whichever of its overlapping writes failed, and no dashboard is *)
(* shown without a profile that parses, also when loading failed           *)
(* (loadState and handleUpdateProfile of popup/App.tsx).                   *)
(***************************************************************************)
THEOREM PopupsShowWhatIsSaved == ProfileSpec => []ShownIsSaved
<1>1. ProfileInit => DashboardHasProfile
  BY DEF ProfileInit, DashboardHasProfile, ClosedPopup
<1>2. ProfileInv /\ DashboardHasProfile /\ [ProfileNext]_profileVars => DashboardHasProfile'
  <2> SUFFICES ASSUME ProfileInv, DashboardHasProfile, [ProfileNext]_profileVars
               PROVE  DashboardHasProfile'
    OBVIOUS
  <2>1. CASE LogSecurityEvent \/ UNCHANGED profileVars
    <3>1. popups' = popups
      BY <2>1 DEF LogSecurityEvent, profileVars
    <3> QED
      BY <3>1, DashboardsStay
  <2>2. ASSUME NEW p \in Popups, Open(p) PROVE DashboardHasProfile'
    <3>1. popups' = [popups EXCEPT ![p].step = "loading"] /\ popups \in [Popups -> PopupStates]
      BY <2>2 DEF Open, ProfileInv, ProfileTypeOK
    <3>2. \A q \in Popups : /\ popups'[q].onboarded = popups[q].onboarded
                            /\ popups'[q].profile = popups[q].profile
      BY <3>1, ZenonT(60) DEF PopupStates
    <3> QED
      BY <3>2, DashboardsStay
  <2>3. ASSUME NEW p \in Popups,
               LoadState(p) \/ Close(p) \/ HandleUpdateProfile(p) \/ HandleReset(p)
        PROVE  DashboardHasProfile'
    BY <2>3, LoadingKeepsDashboards, ClosingKeepsDashboards, WritingKeepsDashboards,
       ResettingKeepsDashboards
  <2>4. ASSUME NEW p \in Popups,
               \/ HandleOnboardingComplete(p) \/ HandleImport(p)
               \/ \E c \in Cards : HandleAddCard(p, c)
               \/ \E v \in Vouchers : HandleAddVoucher(p, v)
               \/ \E c \in Cards \cup Vouchers : HandleRemoveCard(p, c)
               \/ HandleUpdateSpend(p) \/ HandleUpdateValuation(p)
               \/ \E m \in Memberships :
                    HandleAddMembership(p, m) \/ HandleRemoveMembership(p, m)
        PROVE  DashboardHasProfile'
    <3>1. \E x, onboards : Writes(p, x, onboards)
      BY <2>4 DEF HandleOnboardingComplete, HandleImport, HandleAddCard, HandleAddVoucher,
                  HandleRemoveCard, HandleUpdateSpend, HandleUpdateValuation,
                  HandleAddMembership, HandleRemoveMembership
    <3> QED
      BY <3>1, FormsKeepDashboards
  <2> QED
    BY <2>1, <2>2, <2>3, <2>4 DEF ProfileNext
<1>3. ProfileInv /\ DashboardHasProfile => ShownIsSaved
  BY DEF ProfileInv, CurrentIsShown, DashboardHasProfile, ShownIsSaved, Ready
<1> QED
  BY ProfileInvariance, <1>1, <1>2, <1>3, PTL DEF ProfileSpec

(***************************************************************************)
(* What the popup's forms store is what the worker accepts, and onboarding *)
(* is complete only with a profile.                                        *)
(***************************************************************************)
THEOREM FormsStoreUsableProfiles == ProfileSpec => []StoredIsUsable
<1>1. ProfileInv => StoredIsUsable
  BY DEF ProfileInv, ProfileTypeOK, GoodProfiles, StoredIsUsable, WorkerAccepts
<1> QED
  BY ProfileInvariance, <1>1, PTL

(***************************************************************************)
(* The log of security events survives resets, failures and concurrent     *)
(* writers, unless one has overwritten what it did not read                *)
(* (logSecurityEvent, and the reset of Diagnostics.tsx).                   *)
(***************************************************************************)
THEOREM SecurityEventsSurvive == ProfileSpec => []EventsSurvive
<1>1. ProfileInv => EventsSurvive
  BY DEF ProfileInv, LogIsSomewhere, Holds, EventsSurvive
<1> QED
  BY ProfileInvariance, <1>1, PTL

-----------------------------------------------------------------------------
(* Explanations: any number of clicks, popups and calls, whatever the      *)
(* order the storage and the service answer in                             *)

Dialogs == [open : BOOLEAN, life : Nat, best : BOOLEAN,
            apiKey : {"none", "malformed", "valid"}, loading : BOOLEAN,
            explanation : BOOLEAN, error : BOOLEAN, clicked : BOOLEAN, blank : BOOLEAN,
            hung : BOOLEAN]

Counts == [count : Nat, windowStart : Nat]

Explains == [id : Nat, step : {"limiter", "storage", "decide", "service"}, now : Nat,
             read : SUBSET Counts]

Calls == [id : Nat, life : Nat, at : Nat]

\* the calls that a limiter in memory has let through: those that have left, and
\* those of this popup that have yet to read or to write the count in storage
Admitted ==
    departed \cup {[id |-> c.id, life |-> dialog.life, at |-> c.now] :
                    c \in {c \in explains : c.step \in {"storage", "decide"}}}

ExplainTypeOK ==
    /\ savedKey \in {"none", "malformed", "valid"}
    /\ dialog \in Dialogs
    /\ explains \in SUBSET Explains /\ IsFiniteSet(explains)
    /\ memory \in SUBSET [id : Nat, at : Nat] /\ IsFiniteSet(memory)
    /\ aiRateLimit \in SUBSET Counts
    /\ explainTime \in Nat /\ asked \in Nat
    /\ departed \in SUBSET Calls /\ IsFiniteSet(Admitted)

NothingToAsk(d) == d.apiKey = "valid" /\ ~d.best

Answered(d) == d.explanation \/ d.error \/ d.blank

\* a dialog that loads, or has no answer to a click about something, has a call
\* under way
SomeCallRemains ==
    ~dialog.hung /\ explains = {} =>
        /\ ~dialog.loading
        /\ dialog.clicked => Answered(dialog) \/ NothingToAsk(dialog)

SameWindow(calls, d) ==
    {e \in calls : e.life = d.life /\ e.at \in d.at..(d.at + Window - 1)}

Paced(calls) == \A d \in calls : Cardinality(SameWindow(calls, d)) <= MaxRequests

\* the memory of a popup has its calls that still count
MemoryCounts ==
    /\ \A d \in departed : d.life <= dialog.life
    /\ \A e \in Admitted : e.life = dialog.life /\ explainTime - e.at < Window =>
        [id |-> e.id, at |-> e.at] \in memory

ExplainInv == ExplainTypeOK /\ SomeCallRemains /\ MemoryCounts /\ Paced(Admitted)

\* fewer calls are no closer to each other
LEMMA FewerArePaced ==
    ASSUME NEW calls, IsFiniteSet(calls), Paced(calls), NEW some \in SUBSET calls
    PROVE  Paced(some) /\ IsFiniteSet(some)
<1>1. ASSUME NEW d \in some PROVE Cardinality(SameWindow(some, d)) <= MaxRequests
  <2>1. /\ SameWindow(calls, d) \in SUBSET calls
        /\ SameWindow(some, d) \in SUBSET SameWindow(calls, d)
    BY DEF SameWindow
  <2>2. IsFiniteSet(SameWindow(calls, d))
    BY <2>1, FS_Subset
  <2>3. /\ Cardinality(SameWindow(some, d)) <= Cardinality(SameWindow(calls, d))
        /\ IsFiniteSet(SameWindow(some, d))
    BY <2>1, <2>2, FS_Subset
  <2>4. Cardinality(SameWindow(calls, d)) <= MaxRequests
    BY DEF Paced
  <2>5. /\ Cardinality(SameWindow(some, d)) \in Nat /\ Cardinality(SameWindow(calls, d)) \in Nat
        /\ MaxRequests \in Nat
    BY <2>2, <2>3, FS_CardinalityType, ExplainAssumption
  <2> QED
    BY <2>3, <2>4, <2>5
<1>2. IsFiniteSet(some)
  BY FS_Subset
<1> QED
  BY <1>1, <1>2 DEF Paced

\* one that the limiter lets through, when its memory has those that count
LEMMA OneMoreIsPaced ==
    ASSUME NEW calls \in SUBSET Calls, IsFiniteSet(calls), Paced(calls),
           NEW times \in SUBSET [id : Nat, at : Nat], IsFiniteSet(times), ~FullMemory(times),
           explainTime \in Nat, NEW new \in Calls, new.at = explainTime,
           \A e \in calls : e.life = new.life /\ explainTime - e.at < Window =>
                [id |-> e.id, at |-> e.at] \in times
    PROVE  Paced(calls \cup {new})
<1>1. MaxRequests \in Nat \ {0} /\ Window \in Nat \ {0}
  BY ExplainAssumption
<1> DEFINE recent == {e \in calls : e.life = new.life /\ explainTime - e.at < Window}
           stamp == [e \in recent |-> [id |-> e.id, at |-> e.at]]
<1>2. recent \in SUBSET calls /\ IsFiniteSet(recent) /\ Cardinality(recent) \in Nat
  <2>1. recent \in SUBSET calls
    OBVIOUS
  <2> HIDE DEF recent
  <2> QED
    BY <2>1, FS_Subset, FS_CardinalityType
<1>3. /\ InWindow(times) \in SUBSET times /\ IsFiniteSet(InWindow(times))
      /\ Cardinality(InWindow(times)) \in Nat /\ Cardinality(InWindow(times)) < MaxRequests
  <2>1. InWindow(times) \in SUBSET times
    BY DEF InWindow
  <2>2. IsFiniteSet(InWindow(times)) /\ Cardinality(InWindow(times)) \in Nat
    BY <2>1, FS_Subset, FS_CardinalityType
  <2> QED
    BY <1>1, <2>1, <2>2 DEF FullMemory
<1>4. stamp \in Injection(recent, InWindow(times))
  <2>1. \A e \in recent : stamp[e] = [id |-> e.id, at |-> e.at] /\ stamp[e] \in InWindow(times)
    BY DEF InWindow
  <2>2. ASSUME NEW e \in recent, NEW f \in recent, stamp[e] = stamp[f] PROVE e = f
    BY <2>2 DEF Calls
  <2>3. stamp \in [recent -> InWindow(times)]
    BY <2>1
  <2> HIDE DEF stamp, recent
  <2> QED
    BY <2>2, <2>3 DEF Injection, IsInjective
<1>5. Cardinality(recent) <= Cardinality(InWindow(times))
  <2> HIDE DEF stamp, recent
  <2> QED
    BY <1>2, <1>3, <1>4, FS_Injection
<1>6. IsFiniteSet(recent \cup {new}) /\ Cardinality(recent \cup {new}) <= MaxRequests
      /\ Cardinality(recent \cup {new}) \in Nat
  <2> HIDE DEF recent
  <2>0. IsFiniteSet(recent)
    BY <1>2
  <2>1. /\ IsFiniteSet(recent \cup {new})
        /\ \/ Cardinality(recent \cup {new}) = Cardinality(recent)
           \/ Cardinality(recent \cup {new}) = Cardinality(recent) + 1
    BY <2>0, FS_AddElement
  <2>2. Cardinality(recent \cup {new}) \in Nat
    BY <2>1, FS_CardinalityType
  <2> QED
    BY <1>1, <1>2, <1>3, <1>5, <2>1, <2>2
<1>7. ASSUME NEW d \in calls \cup {new}
      PROVE  Cardinality(SameWindow(calls \cup {new}, d)) <= MaxRequests
  <2> DEFINE same == SameWindow(calls \cup {new}, d)
  <2>1. CASE new \in same
    <3>1. same \in SUBSET (recent \cup {new})
      BY <1>1, <2>1 DEF SameWindow, Calls
    <3> HIDE DEF same, recent
    <3>2. Cardinality(same) <= Cardinality(recent \cup {new}) /\ Cardinality(same) \in Nat
      BY <1>6, <3>1, FS_Subset, FS_CardinalityType
    <3> QED
      BY <1>1, <1>6, <3>2 DEF same
  <2>2. CASE new \notin same
    <3>1. d \in calls
      BY <1>1, <2>2 DEF SameWindow, Calls
    <3>2. same = SameWindow(calls, d)
      BY <2>2 DEF SameWindow
    <3> QED
      BY <3>1, <3>2 DEF Paced
  <2> QED
    BY <2>1, <2>2
<1> QED
  BY <1>7 DEF Paced
\* a step that lets no call through, and forgets none that counts
LEMMA NoneAdmitted ==
    ASSUME ExplainInv, Admitted' \in SUBSET Admitted, departed' \in SUBSET Calls,
           \/ memory' = memory /\ dialog'.life = dialog.life
           \/ memory' = InWindow(memory) /\ dialog'.life = dialog.life
           \/ departed' = departed /\ dialog'.life = dialog.life + 1 /\ explains' = {},
           departed' \in SUBSET departed \/ \A d \in departed' : d.life <= dialog'.life,
           explainTime' \in {explainTime, explainTime + 1}
    PROVE  MemoryCounts' /\ Paced(Admitted)' /\ IsFiniteSet(Admitted')
<1> USE DEF ExplainInv
<1>1. Paced(Admitted') /\ IsFiniteSet(Admitted')
  BY FewerArePaced DEF ExplainTypeOK
<1>2. /\ \A e \in Admitted : e \in Calls
      /\ explainTime \in Nat /\ Window \in Nat \ {0} /\ dialog.life \in Nat
  BY ExplainAssumption DEF ExplainTypeOK, Admitted, Explains, Calls, Dialogs
<1>3. \A d \in departed' : d.life <= dialog'.life
  BY <1>2 DEF MemoryCounts, ExplainTypeOK, Calls
<1>4. ASSUME NEW e \in Admitted', e.life = dialog'.life, explainTime' - e.at < Window
      PROVE  [id |-> e.id, at |-> e.at] \in memory'
  <2>1. e \in Admitted /\ explainTime - e.at < Window
    BY <1>2, <1>4 DEF Calls
  <2>2. CASE dialog'.life = dialog.life
    <3>1. [id |-> e.id, at |-> e.at] \in memory
      BY <1>4, <2>1, <2>2 DEF MemoryCounts
    <3>2. [id |-> e.id, at |-> e.at] \in InWindow(memory)
      BY <2>1, <3>1 DEF InWindow
    <3> QED
      BY <1>2, <2>2, <3>1, <3>2
  <2>3. CASE departed' = departed /\ dialog'.life = dialog.life + 1 /\ explains' = {}
    <3>1. e \in departed
      BY <1>4, <2>3 DEF Admitted
    <3> QED
      BY <1>2, <1>4, <2>3, <3>1 DEF MemoryCounts, ExplainTypeOK, Calls
  <2> QED
    BY <1>2, <2>2, <2>3
<1>5. Paced(Admitted)'
  BY <1>1 DEF Paced, SameWindow
<1>6. MemoryCounts'
  BY <1>3, <1>4 DEF MemoryCounts
<1> QED
  BY <1>1, <1>5, <1>6

LEMMA DashboardStep ==
    ASSUME ExplainInv, OpenDashboard \/ KeyArrives \/ CloseDashboard \/ HandleExplainClick
    PROVE  ExplainInv'
<1> USE DEF ExplainInv
<1>1. CASE OpenDashboard \/ KeyArrives
  <2>opened. ASSUME OpenDashboard
             PROVE  /\ dialog' \in Dialogs /\ dialog'.life = dialog.life
                    /\ ~dialog'.loading /\ ~dialog'.clicked
    <3> DEFINE closed == ClosedDashboard(dialog.life)
    <3>1. /\ closed \in Dialogs /\ closed.life = dialog.life
          /\ ~closed.loading /\ ~closed.clicked
      BY DEF ExplainTypeOK, Dialogs, ClosedDashboard
    <3> HIDE DEF closed
    <3>2. PICK best \in BOOLEAN : dialog' = [closed EXCEPT !.open = TRUE, !.best = best]
      BY <2>opened, Zenon DEF OpenDashboard, closed
    <3> QED
      BY <3>1, <3>2 DEF Dialogs
  <2>1. /\ UNCHANGED <<savedKey, explains, memory, aiRateLimit, explainTime, departed, asked>>
        /\ dialog' \in Dialogs /\ dialog'.life = dialog.life
    <3>1. CASE OpenDashboard
      BY <2>opened, <3>1, Zenon DEF OpenDashboard
    <3>2. CASE KeyArrives
      BY <3>2 DEF KeyArrives, ExplainTypeOK, Dialogs
    <3> QED
      BY <1>1, <3>1, <3>2
  <2>2. Admitted' = Admitted
    BY <2>1 DEF Admitted
  <2>3. ExplainTypeOK'
    BY <2>1, <2>2 DEF ExplainTypeOK
  <2>4. SomeCallRemains'
    <3>1. CASE OpenDashboard
      BY <2>opened, <3>1 DEF SomeCallRemains
    <3>2. CASE KeyArrives
      BY <3>2 DEF KeyArrives, SomeCallRemains, ExplainTypeOK, Dialogs, NothingToAsk, Answered
    <3> QED
      BY <1>1, <3>1, <3>2
  <2>5. MemoryCounts' /\ Paced(Admitted)'
    BY <2>1, <2>2, NoneAdmitted DEF ExplainTypeOK
  <2> QED
    BY <2>3, <2>4, <2>5
<1>2. CASE CloseDashboard
  <2>1. /\ dialog' = ClosedDashboard(dialog.life + 1) /\ explains' = {} /\ memory' = {}
        /\ UNCHANGED <<savedKey, aiRateLimit, explainTime, departed, asked>>
    BY <1>2 DEF CloseDashboard
  <2>2. dialog' \in Dialogs /\ dialog'.life = dialog.life + 1
    BY <2>1 DEF ExplainTypeOK, Dialogs, ClosedDashboard
  <2>3. Admitted' \in SUBSET Admitted
    BY <2>1 DEF Admitted
  <2>4. \A d \in departed' : d.life <= dialog'.life
    BY <2>1, <2>2 DEF MemoryCounts, ExplainTypeOK, Calls, Dialogs
  <2>5. MemoryCounts' /\ Paced(Admitted)' /\ IsFiniteSet(Admitted')
    BY <2>1, <2>2, <2>3, <2>4, NoneAdmitted DEF ExplainTypeOK
  <2>6. ExplainTypeOK'
    <3>1. IsFiniteSet({})
      BY FS_EmptySet
    <3> QED
      BY <2>1, <2>2, <2>5, <3>1 DEF ExplainTypeOK
  <2>7. SomeCallRemains'
    BY <2>1 DEF SomeCallRemains, ClosedDashboard
  <2> QED
    BY <2>5, <2>6, <2>7
<1>3. CASE HandleExplainClick
  <2> DEFINE found == dialog.apiKey # "none"
             cleared == [dialog EXCEPT !.explanation = FALSE, !.error = FALSE,
                                       !.clicked = found, !.blank = FALSE]
             call == [id |-> asked, step |-> "limiter", now |-> 0, read |-> {}]
  <2>cleared.
        /\ cleared \in Dialogs /\ cleared.life = dialog.life /\ cleared.hung = dialog.hung
        /\ cleared.clicked = found /\ cleared.loading = dialog.loading
        /\ cleared.apiKey = dialog.apiKey /\ cleared.best = dialog.best
    BY DEF ExplainTypeOK, Dialogs
  <2>branch.
        \/ /\ dialog.apiKey = "none" /\ dialog' = cleared
           /\ explains' = explains /\ asked' = asked
        \/ /\ dialog' = [cleared EXCEPT !.error = TRUE]
           /\ explains' = explains /\ asked' = asked
        \/ /\ dialog.apiKey = "valid" /\ ~dialog.best
           /\ dialog' = [cleared EXCEPT !.loading = FALSE]
           /\ explains' = explains /\ asked' = asked
        \/ /\ dialog' = [cleared EXCEPT !.loading = TRUE]
           /\ explains' = explains \cup {call} /\ asked' = asked + 1
    BY <1>3 DEF HandleExplainClick
  <2>1. UNCHANGED <<savedKey, memory, aiRateLimit, explainTime, departed>>
    BY <1>3 DEF HandleExplainClick
  <2>2. /\ dialog' \in Dialogs /\ dialog'.life = dialog.life
        /\ asked' \in Nat
        /\ \/ explains' = explains
           \/ explains' = explains \cup {[id |-> asked, step |-> "limiter", now |-> 0, read |-> {}]}
    <3> HIDE DEF cleared
    <3>1. dialog' \in Dialogs /\ dialog'.life = dialog.life
      BY <2>cleared, <2>branch DEF Dialogs
    <3>2. asked' \in Nat
      BY <2>branch DEF ExplainTypeOK
    <3> QED
      BY <2>branch, <3>1, <3>2
  <2>3. Admitted' = Admitted
    BY <2>1, <2>2 DEF Admitted
  <2>4. explains' \in SUBSET Explains /\ IsFiniteSet(explains')
    <3>1. call \in Explains
      BY DEF ExplainTypeOK, Explains
    <3>2. explains' = explains \/ explains' = explains \cup {call}
      BY <2>2
    <3> HIDE DEF call
    <3> QED
      BY <3>1, <3>2, FS_AddElement DEF ExplainTypeOK
  <2>5. ExplainTypeOK'
    BY <2>1, <2>2, <2>3, <2>4 DEF ExplainTypeOK
  <2>6. SomeCallRemains'
    <3>1. CASE dialog.apiKey = "none" /\ dialog' = cleared /\ explains' = explains
      <4>1. ~dialog'.clicked /\ dialog'.loading = dialog.loading /\ dialog'.hung = dialog.hung
        BY <2>cleared, <3>1
      <4> QED
        BY <3>1, <4>1 DEF SomeCallRemains
    <3>2. CASE dialog' = [cleared EXCEPT !.error = TRUE] /\ explains' = explains
      <4>1. dialog'.error /\ dialog'.loading = dialog.loading /\ dialog'.hung = dialog.hung
        BY <2>cleared, <3>2 DEF Dialogs
      <4> QED
        BY <3>2, <4>1 DEF SomeCallRemains, Answered
    <3>3. CASE /\ dialog.apiKey = "valid" /\ ~dialog.best
               /\ dialog' = [cleared EXCEPT !.loading = FALSE]
      <4>1. ~dialog'.loading /\ dialog'.apiKey = "valid" /\ ~dialog'.best
        BY <2>cleared, <3>3 DEF Dialogs
      <4> QED
        BY <4>1 DEF SomeCallRemains, NothingToAsk
    <3>4. CASE explains' = explains \cup {call}
      BY <3>4 DEF SomeCallRemains
    <3> QED
      BY <2>branch, <3>1, <3>2, <3>3, <3>4
  <2>7. MemoryCounts' /\ Paced(Admitted)'
    BY <2>1, <2>2, <2>3, NoneAdmitted DEF ExplainTypeOK
  <2> QED
    BY <2>5, <2>6, <2>7
<1> QED
  BY <1>1, <1>2, <1>3
\* whichever call ends, the dialog shows it
LEMMA SettleEffect ==
    ASSUME ExplainTypeOK, NEW outcome \in Outcomes, Settle(outcome)
    PROVE  /\ dialog' \in Dialogs /\ dialog'.life = dialog.life /\ ~dialog'.loading
           /\ Answered(dialog')
<1>1. CASE outcome = "text"
  BY <1>1 DEF ExplainTypeOK, Settle, Shown, Dialogs, Answered
<1>2. CASE outcome = "blank"
  BY <1>2 DEF ExplainTypeOK, Settle, Shown, Dialogs, Answered
<1>3. CASE outcome = "failure"
  BY <1>3 DEF ExplainTypeOK, Settle, Shown, Dialogs, Answered
<1> QED
  BY <1>1, <1>2, <1>3 DEF Outcomes

\* a call ends
LEMMA CallEnds ==
    ASSUME ExplainTypeOK, NEW call \in explains, explains' = explains \ {call}
    PROVE  explains' \in SUBSET Explains /\ IsFiniteSet(explains')
BY FS_RemoveElement DEF ExplainTypeOK

\* a call goes on
LEMMA CallGoesOn ==
    ASSUME ExplainTypeOK, NEW call \in explains, NEW next \in Explains,
           explains' = (explains \ {call}) \cup {next}
    PROVE  /\ explains' \in SUBSET Explains /\ IsFiniteSet(explains') /\ explains' # {}
<1>1. IsFiniteSet(explains \ {call})
  BY FS_RemoveElement DEF ExplainTypeOK
<1> DEFINE others == explains \ {call}
<1> HIDE DEF others
<1>2. IsFiniteSet(others) => IsFiniteSet(others \cup {next})
  BY FS_AddElement
<1> QED
  BY <1>1, <1>2 DEF ExplainTypeOK, others

LEMMA AskLimiterStep ==
    ASSUME ExplainInv, NEW call \in explains, AskLimiter(call)
    PROVE  ExplainInv'
<1> USE DEF ExplainInv
<1>1. /\ UNCHANGED <<savedKey, aiRateLimit, explainTime, departed, asked>>
      /\ call.step = "limiter" /\ call \in Explains
      /\ InWindow(memory) \in SUBSET memory
  BY DEF AskLimiter, ExplainTypeOK, InWindow
<1>2. IsFiniteSet(InWindow(memory))
  BY <1>1, FS_Subset DEF ExplainTypeOK
<1>3. CASE Settle("failure") /\ explains' = explains \ {call} /\ memory' = InWindow(memory)
  <2>1. /\ dialog' \in Dialogs /\ dialog'.life = dialog.life /\ ~dialog'.loading
        /\ Answered(dialog')
    BY <1>3, SettleEffect DEF Outcomes
  <2>2. explains' \in SUBSET Explains /\ IsFiniteSet(explains')
    BY <1>3, CallEnds
  <2>3. Admitted' \in SUBSET Admitted
    BY <1>1, <1>3, <2>1 DEF Admitted
  <2>4. MemoryCounts' /\ Paced(Admitted)' /\ IsFiniteSet(Admitted')
    BY <1>1, <1>3, <2>1, <2>3, NoneAdmitted DEF ExplainTypeOK
  <2>5. ExplainTypeOK'
    BY <1>1, <1>2, <1>3, <2>1, <2>2, <2>4 DEF ExplainTypeOK
  <2>6. SomeCallRemains'
    BY <2>1 DEF SomeCallRemains
  <2> QED
    BY <2>4, <2>5, <2>6
<1> DEFINE stamp == [id |-> call.id, at |-> explainTime]
           next == [call EXCEPT !.step = "storage", !.now = explainTime]
<1>4. CASE /\ ~FullMemory(memory) /\ memory' = InWindow(memory) \cup {stamp}
           /\ explains' = (explains \ {call}) \cup {next}
           /\ UNCHANGED dialog
  <2> DEFINE new == [id |-> call.id, life |-> dialog.life, at |-> explainTime]
  <2>1. /\ next \in Explains /\ next.step = "storage" /\ next.now = explainTime
        /\ next.id = call.id
    BY <1>1 DEF ExplainTypeOK, Explains
  <2>2. stamp \in [id : Nat, at : Nat] /\ new \in Calls /\ new.life = dialog.life
        /\ new.at = explainTime /\ stamp = [id |-> new.id, at |-> new.at]
    BY <1>1 DEF ExplainTypeOK, Explains, Dialogs, Calls
  <2> HIDE DEF next
  <2>3. explains' \in SUBSET Explains /\ IsFiniteSet(explains') /\ explains' # {}
    BY <1>4, <2>1, CallGoesOn
  <2>4. Admitted' = Admitted \cup {new}
    <3>1. {c \in explains' : c.step \in {"storage", "decide"}} =
            {c \in explains : c.step \in {"storage", "decide"}} \cup {next}
      BY <1>1, <1>4, <2>1
    <3> QED
      BY <1>1, <1>4, <2>1, <3>1 DEF Admitted
  <2>5. /\ Admitted \in SUBSET Calls /\ IsFiniteSet(Admitted) /\ Paced(Admitted)
        /\ explainTime \in Nat
    BY DEF ExplainTypeOK, Admitted, Explains, Calls, Dialogs
  <2>6. Paced(Admitted \cup {new})
    <3>1. \A e \in Admitted : e.life = new.life /\ explainTime - e.at < Window =>
            [id |-> e.id, at |-> e.at] \in memory
      BY <2>2 DEF MemoryCounts
    <3> HIDE DEF new
    <3> QED
      BY <1>4, <2>2, <2>5, <3>1, OneMoreIsPaced DEF ExplainTypeOK
  <2>7. IsFiniteSet(Admitted \cup {new})
    BY <2>5, FS_AddElement
  <2> HIDE DEF new, stamp
  <2>8. Paced(Admitted)' /\ IsFiniteSet(Admitted')
    BY <1>1, <1>4, <2>4, <2>6, <2>7 DEF Paced, SameWindow
  <2>9. MemoryCounts'
    <3>1. ASSUME NEW e \in Admitted', e.life = dialog.life, explainTime - e.at < Window
          PROVE  [id |-> e.id, at |-> e.at] \in memory'
      <4>1. CASE e \in Admitted
        <5>1. [id |-> e.id, at |-> e.at] \in memory
          BY <3>1, <4>1 DEF MemoryCounts
        <5>2. [id |-> e.id, at |-> e.at] \in InWindow(memory)
          BY <3>1, <5>1 DEF InWindow
        <5> QED
          BY <1>4, <5>2
      <4>2. CASE e = new
        BY <1>4, <2>2, <4>2
      <4> QED
        BY <2>4, <4>1, <4>2
    <3> QED
      BY <1>1, <1>4, <3>1 DEF MemoryCounts
  <2>10. memory' \in SUBSET [id : Nat, at : Nat] /\ IsFiniteSet(memory')
    BY <1>1, <1>2, <1>4, <2>2, FS_AddElement DEF ExplainTypeOK
  <2>11. ExplainTypeOK'
    BY <1>1, <1>4, <2>3, <2>8, <2>10 DEF ExplainTypeOK
  <2>12. SomeCallRemains'
    BY <2>3 DEF SomeCallRemains
  <2> QED
    BY <2>8, <2>9, <2>11, <2>12
<1> QED
  BY <1>3, <1>4 DEF AskLimiter

LEMMA StorageReadStep ==
    ASSUME ExplainInv, NEW call \in explains, StorageIsRead(call) \/ StorageFails(call)
    PROVE  ExplainInv'
<1> USE DEF ExplainInv
<1>1. /\ UNCHANGED <<savedKey, memory, aiRateLimit, explainTime, departed, asked>>
      /\ call.step = "storage" /\ call \in Explains
  BY DEF StorageIsRead, StorageFails, ExplainTypeOK
<1>2. CASE StorageIsRead(call)
  <2> DEFINE next == [call EXCEPT !.step = "decide", !.read = aiRateLimit]
  <2>1. /\ next \in Explains /\ next.step = "decide" /\ next.now = call.now
        /\ next.id = call.id
    BY <1>1 DEF ExplainTypeOK, Explains
  <2>2. explains' = (explains \ {call}) \cup {next} /\ dialog' = dialog
    BY <1>2 DEF StorageIsRead
  <2> HIDE DEF next
  <2>3. explains' \in SUBSET Explains /\ IsFiniteSet(explains') /\ explains' # {}
    BY <2>1, <2>2, CallGoesOn
  <2>4. Admitted' \in SUBSET Admitted
    BY <1>1, <2>1, <2>2 DEF Admitted
  <2>5. MemoryCounts' /\ Paced(Admitted)' /\ IsFiniteSet(Admitted')
    BY <1>1, <2>2, <2>4, NoneAdmitted DEF ExplainTypeOK
  <2>6. ExplainTypeOK'
    BY <1>1, <2>2, <2>3, <2>5 DEF ExplainTypeOK
  <2>7. SomeCallRemains'
    BY <2>3 DEF SomeCallRemains
  <2> QED
    BY <2>5, <2>6, <2>7
<1>3. CASE StorageFails(call)
  <2>1. /\ dialog' \in Dialogs /\ dialog'.life = dialog.life /\ dialog'.hung
        /\ explains' = explains \ {call}
    BY <1>3 DEF StorageFails, ExplainTypeOK, Dialogs
  <2>2. explains' \in SUBSET Explains /\ IsFiniteSet(explains')
    BY <2>1, CallEnds
  <2>3. Admitted' \in SUBSET Admitted
    BY <1>1, <2>1 DEF Admitted
  <2>4. MemoryCounts' /\ Paced(Admitted)' /\ IsFiniteSet(Admitted')
    BY <1>1, <2>1, <2>3, NoneAdmitted DEF ExplainTypeOK
  <2>5. ExplainTypeOK'
    BY <1>1, <2>1, <2>2, <2>4 DEF ExplainTypeOK
  <2>6. SomeCallRemains'
    BY <2>1 DEF SomeCallRemains
  <2> QED
    BY <2>4, <2>5, <2>6
<1> QED
  BY <1>2, <1>3

LEMMA DecideStep ==
    ASSUME ExplainInv, NEW call \in explains, DecideExplain(call)
    PROVE  ExplainInv'
<1> USE DEF ExplainInv
<1> DEFINE counted == {d \in call.read : call.now - d.windowStart <= Window}
           left == [id |-> call.id, life |-> dialog.life, at |-> call.now]
           next == [call EXCEPT !.step = "service"]
<1>1. /\ UNCHANGED <<savedKey, memory, explainTime, asked>>
      /\ call.step = "decide" /\ call \in Explains
  BY DEF DecideExplain, ExplainTypeOK
<1>2. left \in Calls /\ left \in Admitted /\ left.life = dialog.life
  BY <1>1 DEF ExplainTypeOK, Explains, Dialogs, Calls, Admitted
<1>3. CASE Settle("failure") /\ explains' = explains \ {call} /\ UNCHANGED <<aiRateLimit, departed>>
  <2>1. /\ dialog' \in Dialogs /\ dialog'.life = dialog.life /\ ~dialog'.loading
        /\ Answered(dialog')
    BY <1>3, SettleEffect DEF Outcomes
  <2>2. explains' \in SUBSET Explains /\ IsFiniteSet(explains')
    BY <1>3, CallEnds
  <2>3. Admitted' \in SUBSET Admitted
    BY <1>3, <2>1 DEF Admitted
  <2>4. MemoryCounts' /\ Paced(Admitted)' /\ IsFiniteSet(Admitted')
    BY <1>1, <1>3, <2>1, <2>3, NoneAdmitted DEF ExplainTypeOK
  <2>5. ExplainTypeOK'
    BY <1>1, <1>3, <2>1, <2>2, <2>4 DEF ExplainTypeOK
  <2>6. SomeCallRemains'
    BY <2>1 DEF SomeCallRemains
  <2> QED
    BY <2>4, <2>5, <2>6
<1>4. CASE /\ aiRateLimit' = IF counted = {} THEN {[count |-> 1, windowStart |-> call.now]}
                             ELSE {[d EXCEPT !.count = @ + 1] : d \in counted}
           /\ explains' = To(call, "service") /\ departed' = departed \cup {left}
           /\ UNCHANGED dialog
  <2>1. next \in Explains /\ next.step = "service"
    BY <1>1 DEF Explains
  <2>2. explains' = (explains \ {call}) \cup {next}
    BY <1>4 DEF To
  <2>3. aiRateLimit' \in SUBSET Counts
    <3>1. counted \in SUBSET Counts /\ call.now \in Nat
      BY <1>1 DEF Explains
    <3> HIDE DEF counted
    <3>2. CASE counted = {}
      BY <1>4, <3>1, <3>2 DEF Counts
    <3>3. CASE counted # {}
      <4>1. \A d \in counted : [d EXCEPT !.count = @ + 1] \in Counts
        BY <3>1 DEF Counts
      <4> QED
        BY <1>4, <3>3, <4>1
    <3> QED
      BY <3>2, <3>3
  <2> HIDE DEF next
  <2>4. explains' \in SUBSET Explains /\ IsFiniteSet(explains') /\ explains' # {}
    BY <2>1, <2>2, CallGoesOn
  <2>5. Admitted' \in SUBSET Admitted
    <3>1. {c \in explains' : c.step \in {"storage", "decide"}} \in
            SUBSET {c \in explains : c.step \in {"storage", "decide"}}
      BY <2>1, <2>2
    <3> QED
      BY <1>2, <1>4, <3>1 DEF Admitted
  <2>6. departed' \in SUBSET Calls /\ \A d \in departed' : d.life <= dialog'.life
    BY <1>2, <1>4 DEF ExplainTypeOK, MemoryCounts, Dialogs
  <2>7. MemoryCounts' /\ Paced(Admitted)' /\ IsFiniteSet(Admitted')
    BY <1>1, <1>4, <2>5, <2>6, NoneAdmitted
  <2>8. ExplainTypeOK'
    BY <1>1, <1>4, <2>3, <2>4, <2>6, <2>7 DEF ExplainTypeOK
  <2>9. SomeCallRemains'
    BY <2>4 DEF SomeCallRemains
  <2> QED
    BY <2>7, <2>8, <2>9
<1> QED
  BY <1>3, <1>4 DEF DecideExplain

LEMMA AnswerStep ==
    ASSUME ExplainInv, NEW call \in explains, NEW outcome \in Outcomes,
           ServiceAnswers(call, outcome)
    PROVE  ExplainInv'
<1> USE DEF ExplainInv
<1>1. /\ UNCHANGED <<savedKey, memory, aiRateLimit, explainTime, departed, asked>>
      /\ Settle(outcome) /\ explains' = explains \ {call}
  BY DEF ServiceAnswers
<1>2. /\ dialog' \in Dialogs /\ dialog'.life = dialog.life /\ ~dialog'.loading
      /\ Answered(dialog')
  BY <1>1, SettleEffect
<1>3. explains' \in SUBSET Explains /\ IsFiniteSet(explains')
  BY <1>1, CallEnds
<1>4. Admitted' \in SUBSET Admitted
  BY <1>1, <1>2 DEF Admitted
<1>5. MemoryCounts' /\ Paced(Admitted)' /\ IsFiniteSet(Admitted')
  BY <1>1, <1>2, <1>4, NoneAdmitted DEF ExplainTypeOK
<1>6. ExplainTypeOK'
  BY <1>1, <1>2, <1>3, <1>5 DEF ExplainTypeOK
<1>7. SomeCallRemains'
  BY <1>2 DEF SomeCallRemains
<1> QED
  BY <1>5, <1>6, <1>7

(***************************************************************************)
(* The inductive invariant of the explanations: what the limiter lets      *)
(* through stays in its memory for as long as it counts.                   *)
(***************************************************************************)
THEOREM ExplainInvariance == ExplainSpec => []ExplainInv
<1>1. ExplainInit => ExplainInv
  <2> SUFFICES ASSUME ExplainInit PROVE ExplainInv
    OBVIOUS
  <2>1. Admitted = {} /\ IsFiniteSet({})
    BY FS_EmptySet DEF ExplainInit, Admitted
  <2>2. ExplainTypeOK
    BY <2>1 DEF ExplainInit, ExplainTypeOK, Dialogs, ClosedDashboard
  <2>3. SomeCallRemains /\ MemoryCounts /\ Paced(Admitted)
    BY <2>1 DEF ExplainInit, SomeCallRemains, MemoryCounts, Paced, ClosedDashboard
  <2> QED
    BY <2>2, <2>3 DEF ExplainInv
<1>2. ExplainInv /\ [ExplainNext]_explainVars => ExplainInv'
  <2> SUFFICES ASSUME ExplainInv, [ExplainNext]_explainVars PROVE ExplainInv'
    OBVIOUS
  <2>1. CASE OpenDashboard \/ KeyArrives \/ CloseDashboard \/ HandleExplainClick
    BY <2>1, DashboardStep
  <2>2. ASSUME NEW call \in explains,
               \/ AskLimiter(call) \/ StorageIsRead(call) \/ StorageFails(call)
               \/ DecideExplain(call)
               \/ \E outcome \in Outcomes : ServiceAnswers(call, outcome)
        PROVE  ExplainInv'
    BY <2>2, AskLimiterStep, StorageReadStep, DecideStep, AnswerStep
  <2>3. CASE ExplainTick \/ UNCHANGED explainVars
    <3>1. /\ UNCHANGED <<savedKey, dialog, explains, memory, aiRateLimit, departed, asked>>
          /\ explainTime' \in {explainTime, explainTime + 1}
      BY <2>3 DEF ExplainTick, explainVars
    <3>2. Admitted' = Admitted
      BY <3>1 DEF Admitted
    <3>3. MemoryCounts' /\ Paced(Admitted)' /\ IsFiniteSet(Admitted')
      BY <3>1, <3>2, NoneAdmitted DEF ExplainInv, ExplainTypeOK
    <3>4. ExplainTypeOK' /\ SomeCallRemains'
      BY <3>1, <3>3 DEF ExplainInv, ExplainTypeOK, SomeCallRemains
    <3> QED
      BY <3>3, <3>4 DEF ExplainInv
  <2> QED
    BY <2>1, <2>2, <2>3 DEF ExplainNext
<1> QED
  BY <1>1, <1>2, PTL DEF ExplainSpec

(***************************************************************************)
(* When the calls are over, the dialog loads no more and shows a text or   *)
(* an error, but for a blank last answer or no best strategy to ask about  *)
(* (handleExplainClick of popup/Dashboard.tsx).                            *)
(***************************************************************************)
THEOREM DialogsAnswer == ExplainSpec => []QuietDialogAnswers
<1>1. ExplainInv => QuietDialogAnswers
  BY DEF ExplainInv, SomeCallRemains, Answered, NothingToAsk, QuietDialogAnswers
<1> QED
  BY ExplainInvariance, <1>1, PTL

(***************************************************************************)
(* No popup is admitted more than MaxRequests calls of the paid service in *)
(* a window (isRateLimited of popup/ai-explain.ts).                        *)
(***************************************************************************)
THEOREM PopupsArePaced == ExplainSpec => []CallsArePaced
<1>1. ExplainInv => CallsArePaced
  <2> SUFFICES ASSUME ExplainInv, NEW d \in departed
               PROVE  Cardinality({e \in departed : e.life = d.life
                            /\ e.at \in d.at..(d.at + Window - 1)}) <= MaxRequests
    BY DEF CallsArePaced
  <2>1. Paced(departed)
    BY FewerArePaced DEF ExplainInv, ExplainTypeOK, Admitted
  <2> QED
    BY <2>1 DEF Paced, SameWindow
<1> QED
  BY ExplainInvariance, <1>1, PTL

-----------------------------------------------------------------------------
(* The reports                                                             *)

Row == [at : Nat, random : Nat, merchantId : ShopIds, strategy : StrategyIds,
        benefit : Nat, savings : Nat]

\* finitely many rows, whose ids tell them apart
ReportsInv ==
    /\ rows \subseteq Row /\ IsFiniteSet(rows) /\ reportTime \in Nat
    /\ \A r, s \in rows : r.at = s.at /\ r.random = s.random => r = s

LEMMA ReportsStart == ReportsInit => ReportsInv
<1> SUFFICES ASSUME ReportsInit PROVE ReportsInv
  OBVIOUS
<1>1. rows = {} /\ reportTime = 0
  BY DEF ReportsInit
<1> QED
  BY <1>1, FS_EmptySet DEF ReportsInv

LEMMA ReportsStep == ReportsInv /\ [ReportsNext]_reportVars => ReportsInv'
<1> SUFFICES ASSUME ReportsInv, [ReportsNext]_reportVars PROVE ReportsInv'
  OBVIOUS
<1>1. ASSUME NEW shop \in ShopIds, NEW p \in Purchases, NEW s \in StrategyIds,
             RecordSavings(shop, p, s)
      PROVE  ReportsInv'
  <2>1. PICK random \in 1..MaxRows :
            /\ \A r \in rows : r.at # reportTime \/ r.random # random
            /\ rows' = rows \cup {[at |-> reportTime, random |-> random, merchantId |-> shop,
                                   strategy |-> s, benefit |-> p.benefit,
                                   savings |-> p.total - p.benefit]}
    BY <1>1 DEF RecordSavings
  <2>2. UNCHANGED reportTime
    BY <1>1 DEF RecordSavings
  <2> DEFINE row == [at |-> reportTime, random |-> random, merchantId |-> shop,
                     strategy |-> s, benefit |-> p.benefit, savings |-> p.total - p.benefit]
  <2>3. row \in Row /\ row.at = reportTime /\ row.random = random
    BY ReportsAssumption DEF ReportsInv, Row
  <2>4. rows' = rows \cup {row} /\ \A r \in rows : r.at # row.at \/ r.random # row.random
    BY <2>1, <2>3
  <2>5. IsFiniteSet(rows')
    BY <2>4, FS_AddElement DEF ReportsInv
  <2> HIDE DEF row
  <2> QED
    BY <2>2, <2>3, <2>4, <2>5 DEF ReportsInv
<1>2. CASE ReportTick
  BY <1>2 DEF ReportTick, ReportsInv
<1>3. CASE UNCHANGED reportVars
  BY <1>3 DEF reportVars, ReportsInv
<1> QED
  BY <1>1, <1>2, <1>3 DEF ReportsNext

(***************************************************************************)
(* Whatever is recorded and when, the rows are well formed and no two have *)
(* one id.                                                                 *)
(***************************************************************************)
THEOREM ReportsInvariance == ReportsSpec => []ReportsInv
BY ReportsStart, ReportsStep, PTL DEF ReportsSpec

\* a list of some rows, each one once
Enumerates(list, n, found) ==
    /\ n \in Nat /\ list \in [1..n -> found]
    /\ \A k, l \in 1..n : list[k] = list[l] => k = l
    /\ \A r \in found : \E k \in 1..n : list[k] = r

\* what an index gives is a list of what is found, by age
LEMMA ListedByAge ==
    ASSUME ReportsInv, NEW found \in SUBSET rows
    PROVE  /\ Enumerates(OldestFirst(found), Cardinality(found), found)
           /\ \A k, l \in 1..Cardinality(found) :
                k < l => Older(OldestFirst(found)[k], OldestFirst(found)[l])
<1> DEFINE before == {pair \in found \X found : Older(pair[1], pair[2])}
           list == InOrder(found, before)
<1>1. IsFiniteSet(found)
  BY FS_Subset DEF ReportsInv
<1>2. \A a, b \in found : <<a, b>> \in before <=> Older(a, b)
  OBVIOUS
<1>3. /\ \A a \in found : a \in rows /\ a.at \in Nat /\ a.random \in Nat
      /\ \A a, b \in found : a.at = b.at /\ a.random = b.random => a = b
  BY DEF ReportsInv, Row
<1> HIDE DEF before
<1>4. Orders(before, found)
  <2>1. \A a \in found : ~Older(a, a)
    BY <1>3 DEF Older
  <2>2. \A a, b \in found : a # b => Older(a, b) \/ Older(b, a)
    BY <1>3 DEF Older
  <2>3. \A a, b, c \in found : Older(a, b) /\ Older(b, c) => Older(a, c)
    BY <1>3 DEF Older
  <2> QED
    BY <1>2, <2>1, <2>2, <2>3 DEF Orders
<1>5. /\ Cardinality(found) \in Nat /\ list \in [1..Cardinality(found) -> found]
      /\ \A k, l \in 1..Cardinality(found) : list[k] = list[l] => k = l
      /\ \A i \in found : \E k \in 1..Cardinality(found) : list[k] = i
      /\ \A k, l \in 1..Cardinality(found) : k < l => <<list[k], list[l]>> \in before
  BY <1>1, <1>4, PlacesInOrder
<1>6. OldestFirst(found) = list
  BY DEF OldestFirst, before
<1> HIDE DEF list
<1>7. \A k, l \in 1..Cardinality(found) : k < l => Older(list[k], list[l])
  BY <1>2, <1>5
<1> QED
  BY <1>5, <1>6, <1>7 DEF Enumerates

Saved == [r \in rows |-> r.savings]

LEMMA SavedFacts ==
    ASSUME ReportsInv
    PROVE  /\ IsFiniteSet(rows) /\ Saved \in [rows -> Nat]
           /\ \A S \in SUBSET rows : SumOver(Saved, S) \in Nat /\ IsFiniteSet(S)
<1>1. IsFiniteSet(rows) /\ Saved \in [rows -> Nat]
  BY DEF ReportsInv, Saved, Row
<1> QED
  BY <1>1, SumOfFacts, FS_Subset

\* the total of a list is the sum over its rows
LEMMA ListTotal ==
    ASSUME ReportsInv, NEW found \in SUBSET rows, NEW n, NEW list, Enumerates(list, n, found)
    PROVE  CalculateTotalSaved(list) = SumOver(Saved, found)
<1> DEFINE e == [i \in DOMAIN list |-> list[i].savings]
<1>1. n \in Nat /\ list \in [1..n -> rows] /\ DOMAIN list = 1..n
  BY DEF Enumerates
<1>2. e = AmountsAt(Saved, list, 1..n)
  BY <1>1 DEF Saved, AmountsAt
<1>3. CalculateTotalSaved(list) = SumOver(e, 1..n)
  <2>1. DOMAIN e = 1..n
    BY <1>1
  <2>2. CalculateTotalSaved(list) = Total(e)
    BY DEF CalculateTotalSaved
  <2> HIDE DEF e
  <2> QED
    BY <2>1, <2>2, TotalIsSum
<1>4. SumOver(AmountsAt(Saved, list, 1..n), 1..n) = SumOver(Saved, ElementsAt(list, 1..n))
  <2>1. IsFiniteSet(1..n)
    BY <1>1, FS_Interval
  <2>2. \A p, q \in 1..n : list[p] = list[q] => p = q
    BY DEF Enumerates
  <2>3. IsFiniteSet(rows) /\ Saved \in [rows -> Nat]
    BY SavedFacts
  <2> QED
    BY <1>1, <2>1, <2>2, <2>3, SumOfImage
<1>5. ElementsAt(list, 1..n) = found
  BY DEF Enumerates, ElementsAt
<1> HIDE DEF e
<1> QED
  BY <1>2, <1>3, <1>4, <1>5

\* a list whose elements are in another, in the same order
InOrderOf(part, list, n) ==
    \A k, l \in 1..Len(part) : k < l =>
        \E i, j \in 1..n : i < j /\ part[k] = list[i] /\ part[l] = list[j]

\* what is kept of a list is a list of what is kept, in the same order
LEMMA KeptIsList ==
    ASSUME ReportsInv, NEW found \in SUBSET rows, NEW n, NEW list, Enumerates(list, n, found),
           NEW I \in SUBSET (1..n)
    PROVE  /\ Enumerates(Kept(list, I), Len(Kept(list, I)), ElementsAt(list, I))
           /\ InOrderOf(Kept(list, I), list, n)
<1> DEFINE kept == Kept(list, I)
           m == Len(Kept(list, I))
           image == {list[i] : i \in I}
<1>1. /\ n \in Nat /\ list \in Seq(rows) /\ DOMAIN list = 1..n
      /\ \A k, l \in 1..n : list[k] = list[l] => k = l
  BY DEF Enumerates
<1>2. kept \in Seq(rows) /\ \E order : PlacesOf(order, kept, list, I)
  BY <1>1, KeptPlaces
<1>3. m \in Nat /\ DOMAIN kept = 1..m
  BY <1>2
<1> HIDE DEF kept, m
<1>4. PICK order \in [1..m -> I] :
        /\ \A k, l \in 1..m : k < l => order[k] < order[l]
        /\ \A i \in I : \E k \in 1..m : order[k] = i
        /\ \A k \in 1..m : kept[k] = list[order[k]]
  BY <1>2 DEF PlacesOf, m, kept
<1>5. \A k \in 1..m : order[k] \in I /\ order[k] \in 1..n
  BY <1>1, <1>4
<1>6. kept \in [1..m -> image]
  <2>1. kept = [k \in 1..m |-> kept[k]]
    BY <1>2, <1>3
  <2>2. \A k \in 1..m : kept[k] \in image
    BY <1>4, <1>5
  <2> HIDE DEF image
  <2> QED
    BY <2>1, <2>2
<1>7. ASSUME NEW k \in 1..m, NEW l \in 1..m, kept[k] = kept[l] PROVE k = l
  <2>1. order[k] = order[l]
    BY <1>1, <1>4, <1>5, <1>7
  <2>2. ~(k < l) /\ ~(l < k)
    BY <1>4, <1>5, <2>1
  <2> QED
    BY <1>3, <2>2
<1>8. \A r \in image : \E k \in 1..m : kept[k] = r
  BY <1>4, <1>5
<1>9. \A k, l \in 1..m : k < l => \E i, j \in 1..n : i < j /\ kept[k] = list[i] /\ kept[l] = list[j]
  BY <1>4, <1>5
<1>10. Enumerates(kept, m, image)
  <2> HIDE DEF image
  <2> QED
    BY <1>3, <1>6, <1>7, <1>8 DEF Enumerates
<1> QED
  BY <1>9, <1>10 DEF kept, m, ElementsAt, InOrderOf

\* as are the first ones, the others, or those between two places
LEMMA PartIsList ==
    ASSUME ReportsInv, NEW found \in SUBSET rows, NEW n, NEW list, Enumerates(list, n, found),
           NEW from \in 1..n + 1, NEW to \in 0..n, from <= to + 1
    PROVE  /\ Enumerates(SubSeq(list, from, to), to - from + 1, ElementsAt(list, from..to))
           /\ \A k \in 1..to - from + 1 : SubSeq(list, from, to)[k] = list[from + k - 1]
           /\ DOMAIN SubSeq(list, from, to) = 1..to - from + 1
<1> DEFINE m == to - from + 1
           part == SubSeq(list, from, to)
           image == {list[i] : i \in from..to}
<1>1. /\ n \in Nat /\ list \in [1..n -> found]
      /\ \A k, l \in 1..n : list[k] = list[l] => k = l
  BY DEF Enumerates
<1>2. /\ m \in Nat /\ part = [k \in 1..m |-> list[from + k - 1]]
  BY <1>1
<1>3. \A k \in 1..m : from + k - 1 \in from..to /\ from + k - 1 \in 1..n
  BY <1>1
<1>4. part \in [1..m -> image]
  <2>1. \A k \in 1..m : list[from + k - 1] \in image
    BY <1>3
  <2> HIDE DEF part, image, m
  <2> QED
    BY <1>2, <2>1
<1>5. \A k, l \in 1..m : part[k] = part[l] => k = l
  <2> SUFFICES ASSUME NEW k \in 1..m, NEW l \in 1..m, part[k] = part[l] PROVE k = l
    OBVIOUS
  <2>1. from + k - 1 = from + l - 1
    <3>1. list[from + k - 1] = list[from + l - 1]
      BY <1>2
    <3> QED
      BY <1>1, <1>3, <3>1
  <2> QED
    BY <1>1, <2>1
<1>6. \A r \in image : \E k \in 1..m : part[k] = r
  <2> SUFFICES ASSUME NEW i \in from..to PROVE \E k \in 1..m : part[k] = list[i]
    OBVIOUS
  <2>1. i - from + 1 \in 1..m /\ from + (i - from + 1) - 1 = i
    BY <1>1
  <2> QED
    BY <1>2, <2>1
<1> HIDE DEF part, image, m
<1>7. Enumerates(part, m, image) /\ DOMAIN part = 1..m
  BY <1>2, <1>4, <1>5, <1>6 DEF Enumerates
<1> QED
  BY <1>2, <1>7 DEF part, image, m, ElementsAt

\* the list of all rows
LEMMA RowsListed ==
    ASSUME ReportsInv
    PROVE  /\ Enumerates(ListRows, Cardinality(rows), rows)
           /\ Cardinality(rows) \in Nat /\ Len(ListRows) = Cardinality(rows)
           /\ DOMAIN ListRows = 1..Cardinality(rows) /\ ListRows \in Seq(rows)
           /\ CalculateTotalSaved(ListRows) = SumOver(Saved, rows)
<1>1. Enumerates(ListRows, Cardinality(rows), rows)
  BY ListedByAge DEF ListRows
<1>2. CalculateTotalSaved(ListRows) = SumOver(Saved, rows)
  BY <1>1, ListTotal
<1> DEFINE n == Cardinality(rows)
           list == ListRows
<1> HIDE DEF n, list
<1>3. n \in Nat /\ list \in [1..n -> rows]
  BY <1>1 DEF Enumerates, n, list
<1>4. list \in Seq(rows) /\ DOMAIN list = 1..n
  BY <1>3
<1>5. Len(list) = n
  BY <1>3, <1>4
<1> QED
  BY <1>1, <1>2, <1>3, <1>4, <1>5 DEF n, list

\* the groups are of all rows, each in one
LEMMA GroupFacts ==
    ASSUME ReportsInv, NEW keyOf
    PROVE  LET G == GroupTotals(ListRows, keyOf)
           IN  /\ DOMAIN G = {keyOf[r] : r \in rows} /\ IsFiniteSet(DOMAIN G)
               /\ G \in [DOMAIN G -> Nat]
               /\ \A k \in DOMAIN G : G[k] = SumOver(Saved, {r \in rows : keyOf[r] = k})
               /\ Total(G) = SumOver(Saved, rows)
<1> DEFINE G == GroupTotals(ListRows, keyOf)
           n == Cardinality(rows)
           K == {keyOf[r] : r \in rows}
           Class(k) == {r \in rows : keyOf[r] = k}
           At(k) == {i \in DOMAIN ListRows : keyOf[ListRows[i]] = k}
<1>1. /\ Enumerates(ListRows, n, rows) /\ n \in Nat /\ DOMAIN ListRows = 1..n
  BY RowsListed
<1>0. rows \in SUBSET rows
  OBVIOUS
<1>2. /\ ListRows \in [1..n -> rows] /\ \A r \in rows : \E k \in 1..n : ListRows[k] = r
  BY <1>1 DEF Enumerates
<1>3. {keyOf[ListRows[i]] : i \in DOMAIN ListRows} = K
  BY <1>1, <1>2
<1>4. G = [k \in K |-> CalculateTotalSaved(Kept(ListRows, At(k)))]
  BY <1>3 DEF GroupTotals
<1>5. ASSUME NEW k \in K PROVE G[k] = SumOver(Saved, Class(k))
  <2> DEFINE I == At(k)
             image == ElementsAt(ListRows, I)
             kept == Kept(ListRows, I)
  <2>1. I \in SUBSET (1..n) /\ image = Class(k) /\ image \in SUBSET rows
    BY <1>1, <1>2 DEF ElementsAt
  <2>2. G[k] = CalculateTotalSaved(kept)
    BY <1>4
  <2> HIDE DEF G, I
  <2>3. Enumerates(kept, Len(kept), image)
    BY <1>1, <1>0, <2>1, KeptIsList
  <2> HIDE DEF image, kept
  <2>4. CalculateTotalSaved(kept) = SumOver(Saved, image)
    BY <2>1, <2>3, ListTotal
  <2> HIDE DEF Class
  <2> QED
    BY <2>1, <2>2, <2>4
<1>6. IsFiniteSet(rows) /\ Saved \in [rows -> Nat] /\ \A S \in SUBSET rows : SumOver(Saved, S) \in Nat
  BY SavedFacts
<1>7. DOMAIN G = K /\ G \in [K -> Nat]
  <2>1. \A k \in K : G[k] \in Nat
    BY <1>5, <1>6
  <2>2. G = [k \in K |-> G[k]]
    BY <1>4
  <2> HIDE DEF G, K
  <2> QED
    BY <2>1, <2>2
<1>8. IsFiniteSet(K)
  <2> DEFINE key == [r \in rows |-> keyOf[r]]
  <2>1. key \in Surjection(rows, K)
    BY DEF Surjection
  <2> QED
    BY <1>6, <2>1, FS_Surjection
<1>9. G = [k \in K |-> SumOver(Saved, Class(k))]
  <2>1. G = [k \in K |-> G[k]]
    BY <1>4
  <2> HIDE DEF G, K, Class
  <2> QED
    BY <1>5, <2>1
<1>10. SumOver(G, K) = SumOver(Saved, rows)
  <2> DEFINE part == [r \in rows |-> keyOf[r]]
             D == rows
             f == Saved
             parts == [k \in K |-> SumOver(f, {d \in D : part[d] = k})]
  <2>1. part \in [D -> K]
    OBVIOUS
  <2>2. G = parts
    <3>1. \A k \in K : Class(k) = {d \in D : part[d] = k}
      OBVIOUS
    <3> HIDE DEF G, K, Class, part
    <3> QED
      BY <1>9, <3>1
  <2>3. IsFiniteSet(D) /\ f \in [D -> Nat] /\ IsFiniteSet(K) /\ part \in [D -> K]
    BY <1>6, <1>8, <2>1
  <2> HIDE DEF part, D, f, K, G
  <2>4. SumOver([k \in K |-> SumOver(f, {d \in D : part[d] = k})], K) = SumOver(f, D)
    BY ONLY <2>3, SumOfParts
  <2>5. SumOver(parts, K) = SumOver(f, D)
    BY <2>4
  <2> HIDE DEF parts
  <2> QED
    BY <2>2, <2>5 DEF D, f
<1>11. Total(G) = SumOver(G, K)
  <2> HIDE DEF G, K
  <2> QED
    BY <1>7, TotalIsSum
<1> HIDE DEF G, K
<1>12. /\ DOMAIN G = K /\ IsFiniteSet(DOMAIN G) /\ G \in [DOMAIN G -> Nat]
       /\ \A k \in DOMAIN G : G[k] = SumOver(Saved, Class(k))
       /\ Total(G) = SumOver(Saved, rows)
  BY <1>5, <1>7, <1>8, <1>10, <1>11
<1> QED
  BY <1>12 DEF G, K

\* asked for one merchant, the statistics agree with the breakdown
LEMMA MerchantTotals ==
    ASSUME ReportsInv, NEW shop \in DOMAIN CalculateByMerchant(ListRows)
    PROVE  AggregateStats(shop).totalSavings = CalculateByMerchant(ListRows)[shop]
<1> DEFINE keyOf == [r \in rows |-> r.merchantId]
           G == GroupTotals(ListRows, keyOf)
           found == {r \in rows : r.merchantId = shop}
<1>1. CalculateByMerchant(ListRows) = G
  BY DEF CalculateByMerchant
<1>2. found = {r \in rows : keyOf[r] = shop} /\ found \in SUBSET rows
  OBVIOUS
<1>3. G[shop] = SumOver(Saved, found)
  <2> HIDE DEF keyOf, found
  <2>1. \A k \in DOMAIN G : G[k] = SumOver(Saved, {r \in rows : keyOf[r] = k})
    BY GroupFacts
  <2> HIDE DEF G
  <2> QED
    BY <1>1, <1>2, <2>1
<1>4. QueryByMerchant(shop) = OldestFirst(found)
  BY DEF QueryByMerchant
<1> HIDE DEF found, G
<1>5. Enumerates(OldestFirst(found), Cardinality(found), found)
  BY <1>2, ListedByAge
<1>6. CalculateTotalSaved(QueryByMerchant(shop)) = SumOver(Saved, found)
  BY <1>2, <1>4, <1>5, ListTotal
<1>7. AggregateStats(shop).totalSavings = CalculateTotalSaved(QueryByMerchant(shop))
  BY DEF AggregateStats
<1> QED
  BY <1>1, <1>3, <1>6, <1>7

\* the two halves
LEMMA HalvesAddUp ==
    ASSUME ReportsInv
    PROVE  CalculateTrend(ListRows).firstHalf + CalculateTrend(ListRows).secondHalf
                = SumOver(Saved, rows)
<1> DEFINE n == Cardinality(rows)
           m == Len(ListRows) \div 2
           A == ElementsAt(ListRows, 1..m)
           B == ElementsAt(ListRows, m + 1..n)
<1>1. /\ Enumerates(ListRows, n, rows) /\ n \in Nat /\ Len(ListRows) = n
  BY RowsListed
<1>0. rows \in SUBSET rows
  OBVIOUS
<1>2. m \in 0..n
  BY <1>1
<1>3. /\ CalculateTrend(ListRows).firstHalf = CalculateTotalSaved(SubSeq(ListRows, 1, m))
      /\ CalculateTrend(ListRows).secondHalf = CalculateTotalSaved(SubSeq(ListRows, m + 1, n))
  BY <1>1 DEF CalculateTrend
<1> HIDE DEF m, n
<1>4. A \in SUBSET rows /\ B \in SUBSET rows /\ A \cap B = {} /\ A \cup B = rows
  <2>1. /\ ListRows \in [1..n -> rows] /\ (\A k, l \in 1..n : ListRows[k] = ListRows[l] => k = l)
        /\ \A r \in rows : \E k \in 1..n : ListRows[k] = r
    BY <1>1 DEF Enumerates
  <2>2. \A k \in 1..m : k \in 1..n
    BY <1>1, <1>2
  <2>3. \A k \in m + 1..n : k \in 1..n /\ k \notin 1..m
    BY <1>1, <1>2
  <2>4. \A k \in 1..n : k \in 1..m \/ k \in m + 1..n
    BY <1>1, <1>2
  <2> QED
    BY <2>1, <2>2, <2>3, <2>4 DEF ElementsAt
<1>5. CalculateTotalSaved(SubSeq(ListRows, 1, m)) = SumOver(Saved, A)
  <2>1. 1 \in 1..n + 1 /\ 1 <= m + 1
    BY <1>1, <1>2
  <2>2. Enumerates(SubSeq(ListRows, 1, m), m - 1 + 1, A)
    BY <1>1, <1>0, <1>2, <2>1, PartIsList
  <2> HIDE DEF A
  <2> QED
    BY <1>4, <2>2, ListTotal
<1>6. CalculateTotalSaved(SubSeq(ListRows, m + 1, n)) = SumOver(Saved, B)
  <2>1. m + 1 \in 1..n + 1 /\ n \in 0..n /\ m + 1 <= n + 1
    BY <1>1, <1>2
  <2>2. Enumerates(SubSeq(ListRows, m + 1, n), n - (m + 1) + 1, B)
    BY <1>1, <1>0, <1>2, <2>1, PartIsList
  <2> HIDE DEF B
  <2> QED
    BY <1>4, <2>2, ListTotal
<1> HIDE DEF A, B
<1>7. SumOver(Saved, A \cup B) = SumOver(Saved, A) + SumOver(Saved, B)
  <2>1. IsFiniteSet(rows) /\ Saved \in [rows -> Nat]
    BY SavedFacts
  <2> QED
    BY <1>4, <2>1, SumOfUnion
<1> QED
  BY <1>3, <1>4, <1>5, <1>6, <1>7

\* the total is the least and the most so many times, or between
LEMMA AverageIsBetween ==
    ASSUME ReportsInv
    PROVE  /\ CalculateMinSavings(ListRows) * Len(ListRows) <= SumOver(Saved, rows)
           /\ SumOver(Saved, rows) <= CalculateMaxSavings(ListRows) * Len(ListRows)
<1> DEFINE n == Cardinality(rows)
           amounts == {ListRows[i].savings : i \in DOMAIN ListRows}
<1>1. /\ Enumerates(ListRows, n, rows) /\ n \in Nat /\ Len(ListRows) = n
      /\ DOMAIN ListRows = 1..n /\ IsFiniteSet(rows) /\ Saved \in [rows -> Nat]
      /\ ListRows \in Seq(rows)
  BY RowsListed, SavedFacts
<1>2. /\ ListRows \in [1..n -> rows] /\ \A r \in rows : \E k \in 1..n : ListRows[k] = r
  BY <1>1 DEF Enumerates
<1>3. amounts \in SUBSET Nat /\ \A r \in rows : Saved[r] \in amounts
  BY <1>1, <1>2 DEF Saved
<1>4. PICK most \in Nat : most = CalculateMaxSavings(ListRows) /\ \A a \in amounts : a <= most
  <2>1. \A a \in {0} \cup amounts : a <= SumOver(Saved, rows)
    <3>1. /\ \A S \in SUBSET rows : SumOver(Saved, S) \in Nat
          /\ \A r \in rows : SumOver(Saved, rows) = Saved[r] + SumOver(Saved, rows \ {r})
      BY <1>1, SumOfFacts
    <3>2. \A r \in rows : Saved[r] <= SumOver(Saved, rows)
      <4> SUFFICES ASSUME NEW r \in rows PROVE Saved[r] <= SumOver(Saved, rows)
        OBVIOUS
      <4>1. /\ SumOver(Saved, rows \ {r}) \in Nat /\ Saved[r] \in Nat
            /\ SumOver(Saved, rows) = Saved[r] + SumOver(Saved, rows \ {r})
        BY <1>1, <3>1
      <4> QED
        BY <4>1
    <3>3. \A i \in 1..n : ListRows[i].savings = Saved[ListRows[i]]
      BY <1>2 DEF Saved
    <3>4. SumOver(Saved, rows) \in Nat
      BY <3>1
    <3> QED
      BY <1>1, <1>2, <3>2, <3>3, <3>4
  <2>2. SumOver(Saved, rows) \in Nat /\ {0} \cup amounts \in SUBSET Nat /\ {0} \cup amounts # {}
    BY <1>3, SavedFacts
  <2> DEFINE S == {0} \cup amounts
  <2>3. CalculateMaxSavings(ListRows) = Max(S)
    BY DEF CalculateMaxSavings
  <2>4. \A a \in amounts : a \in S
    OBVIOUS
  <2> HIDE DEF amounts, S
  <2>5. S \in SUBSET Nat /\ S # {} /\ \A a \in S : a <= SumOver(Saved, rows)
    BY <2>1, <2>2 DEF S
  <2>6. Max(S) \in S /\ \A a \in S : Max(S) >= a
    BY <2>2, <2>5, MaxFacts
  <2> QED
    BY <2>3, <2>4, <2>5, <2>6
<1>5. PICK least \in Nat : least = CalculateMinSavings(ListRows) /\ \A a \in amounts : least <= a
  <2>1. CASE n = 0
    <3>1. ListRows = <<>>
      BY <1>1, <2>1
    <3>2. CalculateMinSavings(ListRows) = 0
      BY <3>1 DEF CalculateMinSavings
    <3> HIDE DEF amounts
    <3> QED
      BY <1>3, <3>2
  <2>2. CASE n # 0
    <3>1. ListRows # <<>> /\ amounts # {}
      BY <1>1, <2>2
    <3>2. CalculateMinSavings(ListRows) = Min(amounts)
      BY <3>1 DEF CalculateMinSavings
    <3> HIDE DEF amounts
    <3>3. PICK a \in amounts : \A b \in amounts : ~(b < a)
      BY <1>3, <3>1, LeastNumber
    <3>4. \A b \in amounts : a <= b
      BY <1>3, <3>3
    <3>5. Min(amounts) \in amounts /\ \A b \in amounts : Min(amounts) <= b
      BY <3>4 DEF Min
    <3> QED
      BY <1>3, <3>2, <3>5
  <2> QED
    BY <2>1, <2>2
<1> HIDE DEF amounts
<1>6. \A r \in rows : least <= Saved[r] /\ Saved[r] <= most
  BY <1>3, <1>4, <1>5
<1>7. least * n <= SumOver(Saved, rows) /\ SumOver(Saved, rows) <= most * n
  BY <1>1, <1>6, SumBounds
<1> QED
  BY <1>1, <1>4, <1>5, <1>7

ByStrategy == GroupTotals(ListRows, [r \in rows |-> r.strategy])

\* the strategies, those that saved most in front, ties by their first rows
LEMMA StrategiesRanked ==
    ASSUME ReportsInv, NEW limit \in Nat
    PROVE  LET c == Cardinality(DOMAIN ByStrategy)
               top == CalculateTopStrategies(ListRows, limit)
           IN  \E ranked \in [1..c -> DOMAIN ByStrategy] :
                /\ c \in Nat /\ c <= Len(ListRows)
                /\ \A k, l \in 1..c : ranked[k] = ranked[l] => k = l
                /\ \A s \in DOMAIN ByStrategy : \E k \in 1..c : ranked[k] = s
                /\ \A k, l \in 1..c : k < l => ByStrategy[ranked[l]] <= ByStrategy[ranked[k]]
                /\ DOMAIN top = 1..(IF limit < c THEN limit ELSE c)
                /\ \A k \in DOMAIN top : top[k].totalSavings = ByStrategy[ranked[k]]
<1> DEFINE totals == ByStrategy
           ids == DOMAIN totals
           c == Cardinality(ids)
           n == Cardinality(rows)
           Places(s) == {i \in DOMAIN ListRows : ListRows[i].strategy = s}
           First(s) == Min(Places(s))
           RanksHigher(s, t) ==
              totals[s] > totals[t] \/ (totals[s] = totals[t] /\ First(s) < First(t))
           before == {pair \in ids \X ids : RanksHigher(pair[1], pair[2])}
           ranked == InOrder(ids, before)
           m == IF limit < Len(ranked) THEN limit ELSE Len(ranked)
           chosen == SubSeq(ranked, 1, m)
           top == CalculateTopStrategies(ListRows, limit)
<1>1. top = [i \in DOMAIN chosen |->
                [strategyId |-> chosen[i], totalSavings |-> totals[chosen[i]]]]
  BY DEF CalculateTopStrategies, ByStrategy
<1>2. /\ Enumerates(ListRows, n, rows) /\ n \in Nat /\ Len(ListRows) = n
      /\ DOMAIN ListRows = 1..n
  BY RowsListed
<1>3. /\ ListRows \in [1..n -> rows] /\ \A r \in rows : \E k \in 1..n : ListRows[k] = r
  BY <1>2 DEF Enumerates
<1>4. /\ ids = {r.strategy : r \in rows} /\ IsFiniteSet(ids) /\ totals \in [ids -> Nat]
  <2> DEFINE keyOf == [r \in rows |-> r.strategy]
  <2>1. ids = {keyOf[r] : r \in rows} /\ IsFiniteSet(ids) /\ totals \in [ids -> Nat]
    <3> HIDE DEF keyOf
    <3>1. ByStrategy = GroupTotals(ListRows, keyOf)
      BY DEF ByStrategy, keyOf
    <3> QED
      BY <3>1, GroupFacts
  <2> QED
    BY <2>1
<1> HIDE DEF totals
<1>5. c \in Nat /\ c <= n
  <2> DEFINE name == [r \in rows |-> r.strategy]
  <2>1. name \in Surjection(rows, ids)
    BY <1>4 DEF Surjection
  <2>2. IsFiniteSet(rows)
    BY SavedFacts
  <2> QED
    BY <1>4, <2>1, <2>2, FS_Surjection, FS_CardinalityType
<1>6. \A s \in ids : First(s) \in Nat /\ First(s) \in 1..n /\ ListRows[First(s)].strategy = s
  <2> SUFFICES ASSUME NEW s \in ids
               PROVE  First(s) \in Nat /\ First(s) \in 1..n /\ ListRows[First(s)].strategy = s
    OBVIOUS
  <2>1. Places(s) \in SUBSET (1..n) /\ Places(s) # {}
    BY <1>2, <1>3, <1>4
  <2>2. Places(s) \in SUBSET Nat
    BY <2>1
  <2>3. First(s) \in Places(s)
    <3> DEFINE P == Places(s)
    <3> HIDE DEF P
    <3>1. PICK a \in P : \A b \in P : ~(b < a)
      BY <2>1, <2>2, LeastNumber DEF P
    <3>2. \A b \in P : a <= b
      BY <2>2, <3>1 DEF P
    <3>3. Min(P) \in P
      BY <3>2 DEF Min
    <3> QED
      BY <3>3 DEF P
  <2> QED
    BY <2>1, <2>3
<1>7. \A s, t \in ids : <<s, t>> \in before <=> RanksHigher(s, t)
  OBVIOUS
<1> HIDE DEF First, before, ids
<1>8. Orders(before, ids)
  <2>1. \A s \in ids : ~RanksHigher(s, s)
    BY <1>4, <1>6
  <2>2. \A s, t \in ids : s # t => RanksHigher(s, t) \/ RanksHigher(t, s)
    <3> SUFFICES ASSUME NEW s \in ids, NEW t \in ids, s # t
                 PROVE  RanksHigher(s, t) \/ RanksHigher(t, s)
      OBVIOUS
    <3>1. First(s) # First(t)
      BY <1>6
    <3> QED
      BY <1>4, <1>6, <3>1
  <2>3. \A s, t, u \in ids : RanksHigher(s, t) /\ RanksHigher(t, u) => RanksHigher(s, u)
    BY <1>4, <1>6
  <2> HIDE DEF RanksHigher
  <2> QED
    BY <1>7, <2>1, <2>2, <2>3 DEF Orders
<1>9. /\ ranked \in [1..c -> ids]
      /\ \A k, l \in 1..c : ranked[k] = ranked[l] => k = l
      /\ \A s \in ids : \E k \in 1..c : ranked[k] = s
      /\ \A k, l \in 1..c : k < l => <<ranked[k], ranked[l]>> \in before
  <2>1. IsFiniteSet(ids) /\ Orders(before, ids)
    BY <1>4, <1>8
  <2> QED
    BY ONLY <2>1, PlacesInOrder
<1> HIDE DEF ranked, c
<1>10. \A k, l \in 1..c : k < l => totals[ranked[l]] <= totals[ranked[k]]
  <2> SUFFICES ASSUME NEW k \in 1..c, NEW l \in 1..c, k < l
               PROVE  totals[ranked[l]] <= totals[ranked[k]]
    OBVIOUS
  <2>1. ranked[k] \in ids /\ ranked[l] \in ids /\ RanksHigher(ranked[k], ranked[l])
    BY <1>7, <1>9
  <2>2. totals[ranked[k]] \in Nat /\ totals[ranked[l]] \in Nat
    BY <1>4, <2>1
  <2> QED
    BY <2>1, <2>2
<1>11. Len(ranked) = c
  <2>1. ranked \in Seq(ids) /\ DOMAIN ranked = 1..c
    BY <1>5, <1>9
  <2> QED
    BY <1>5, <2>1
<1>12. m = (IF limit < c THEN limit ELSE c) /\ m \in 0..c
  BY <1>5, <1>11
<1> HIDE DEF m
<1>13. DOMAIN chosen = 1..m /\ \A k \in 1..m : chosen[k] = ranked[k]
  <2>1. chosen = [k \in 1..m |-> ranked[k]]
    BY <1>5, <1>9, <1>12
  <2> QED
    BY <2>1
<1> HIDE DEF chosen, top
<1>14. DOMAIN top = 1..m /\ \A k \in 1..m : top[k].totalSavings = totals[ranked[k]]
  BY <1>1, <1>13
<1> QED
  BY <1>2, <1>5, <1>9, <1>10, <1>12, <1>14 DEF c, ids, totals, top

\* the list without a limit adds up
LEMMA StrategiesAddUp ==
    ASSUME ReportsInv
    PROVE  LET all == CalculateTopStrategies(ListRows, Len(ListRows))
           IN  Total([i \in DOMAIN all |-> all[i].totalSavings]) = SumOver(Saved, rows)
<1> DEFINE all == CalculateTopStrategies(ListRows, Len(ListRows))
           e == [i \in DOMAIN all |-> all[i].totalSavings]
           c == Cardinality(DOMAIN ByStrategy)
           G == ByStrategy
           ids == DOMAIN ByStrategy
<1>1. Len(ListRows) \in Nat
  BY RowsListed
<1>2. PICK ranked \in [1..c -> ids] :
        /\ c \in Nat /\ c <= Len(ListRows)
        /\ \A k, l \in 1..c : ranked[k] = ranked[l] => k = l
        /\ \A s \in ids : \E k \in 1..c : ranked[k] = s
        /\ DOMAIN all = 1..(IF Len(ListRows) < c THEN Len(ListRows) ELSE c)
        /\ \A k \in DOMAIN all : all[k].totalSavings = G[ranked[k]]
  BY <1>1, StrategiesRanked
<1> HIDE DEF all, c, G, ids
<1>3. DOMAIN all = 1..c
  BY <1>1, <1>2
<1>4. IsFiniteSet(ids) /\ G \in [ids -> Nat] /\ DOMAIN G = ids /\ Total(G) = SumOver(Saved, rows)
  <2> DEFINE keyOf == [r \in rows |-> r.strategy]
  <2> HIDE DEF keyOf
  <2>1. ByStrategy = GroupTotals(ListRows, keyOf)
    BY DEF ByStrategy, keyOf
  <2> QED
    BY <2>1, GroupFacts DEF G, ids
<1>5. Total(e) = SumOver(AmountsAt(G, ranked, 1..c), 1..c)
  <2>1. e = AmountsAt(G, ranked, 1..c) /\ DOMAIN e = 1..c
    BY <1>2, <1>3 DEF AmountsAt
  <2> HIDE DEF e
  <2> QED
    BY <2>1, TotalIsSum
<1>6. SumOver(AmountsAt(G, ranked, 1..c), 1..c) = SumOver(G, ElementsAt(ranked, 1..c))
  <2>1. c \in Nat /\ ranked \in [1..c -> ids] /\ \A k, l \in 1..c : ranked[k] = ranked[l] => k = l
    BY <1>2
  <2>2. IsFiniteSet(1..c)
    BY <2>1, FS_Interval
  <2>3. IsFiniteSet(ids) /\ G \in [ids -> Nat]
    BY <1>4
  <2> QED
    BY ONLY <2>1, <2>2, <2>3, SumOfImage
<1>7. ElementsAt(ranked, 1..c) = ids
  BY <1>2 DEF ElementsAt
<1>8. SumOver(G, ids) = Total(G)
  BY <1>4, TotalIsSum
<1> HIDE DEF e
<1>9. Total(e) = SumOver(Saved, rows)
  BY <1>4, <1>5, <1>6, <1>7, <1>8
<1> QED
  BY <1>9 DEF e, all

\* who is cut off by a limit saved no more than who is listed
LEMMA TopIsMost ==
    ASSUME ReportsInv
    PROVE  LET all == CalculateTopStrategies(ListRows, Len(ListRows))
               top == CalculateTopStrategies(ListRows, 1)
           IN  \A i \in DOMAIN all, j \in DOMAIN top : all[i].totalSavings <= top[j].totalSavings
<1> DEFINE all == CalculateTopStrategies(ListRows, Len(ListRows))
           top == CalculateTopStrategies(ListRows, 1)
           c == Cardinality(DOMAIN ByStrategy)
           G == ByStrategy
           ids == DOMAIN ByStrategy
<1>1. Len(ListRows) \in Nat
  BY RowsListed
<1>2. PICK a \in [1..c -> ids] :
        /\ DOMAIN all = 1..(IF Len(ListRows) < c THEN Len(ListRows) ELSE c)
        /\ c \in Nat /\ c <= Len(ListRows)
        /\ \A k \in DOMAIN all : all[k].totalSavings = G[a[k]]
  BY <1>1, StrategiesRanked
<1>3. PICK b \in [1..c -> ids] :
        /\ \A s \in ids : \E k \in 1..c : b[k] = s
        /\ \A k, l \in 1..c : k < l => G[b[l]] <= G[b[k]]
        /\ DOMAIN top = 1..(IF 1 < c THEN 1 ELSE c)
        /\ \A k \in DOMAIN top : top[k].totalSavings = G[b[k]]
  BY StrategiesRanked
<1>4. G \in [ids -> Nat]
  <2> DEFINE keyOf == [r \in rows |-> r.strategy]
  <2> HIDE DEF keyOf
  <2>1. ByStrategy = GroupTotals(ListRows, keyOf)
    BY DEF ByStrategy, keyOf
  <2> QED
    BY <2>1, GroupFacts
<1> HIDE DEF all, top, c, G, ids
<1>5. ASSUME NEW i \in DOMAIN all, NEW j \in DOMAIN top
      PROVE  all[i].totalSavings <= top[j].totalSavings
  <2>1. j = 1 /\ 1 \in 1..c /\ i \in 1..c
    <3>1. /\ c \in Nat /\ DOMAIN all = 1..(IF Len(ListRows) < c THEN Len(ListRows) ELSE c)
          /\ DOMAIN top = 1..(IF 1 < c THEN 1 ELSE c) /\ c <= Len(ListRows)
      BY <1>2, <1>3
    <3>2. DOMAIN all = 1..c
      BY <1>1, <3>1
    <3>3. i \in 1..c /\ c >= 1
      BY <3>1, <3>2
    <3>4. DOMAIN top = 1..1
      <4>1. (IF 1 < c THEN 1 ELSE c) = 1
        BY <3>1, <3>3
      <4> QED
        BY <3>1, <4>1
    <3> QED
      BY <3>1, <3>3, <3>4
  <2>2. all[i].totalSavings = G[a[i]] /\ top[j].totalSavings = G[b[1]] /\ a[i] \in ids
    BY <1>2, <1>3, <2>1
  <2>3. PICK k \in 1..c : b[k] = a[i]
    BY <1>3, <2>2
  <2>4. CASE k = 1
    <3>1. G[b[1]] \in Nat
      BY <1>3, <1>4, <2>1
    <3> QED
      BY <2>2, <2>3, <2>4, <3>1
  <2>5. CASE k # 1
    <3>1. 1 < k
      BY <1>2, <2>5
    <3> QED
      BY <1>3, <2>1, <2>2, <2>3, <3>1
  <2> QED
    BY <2>4, <2>5
<1> QED
  BY <1>5 DEF all, top

LEMMA ReportsAddUpFollows == ReportsInv => ReportsAddUp
<1> SUFFICES ASSUME ReportsInv PROVE ReportsAddUp
  OBVIOUS
<1> DEFINE entries == ListRows
           total == CalculateTotalSaved(entries)
           all == CalculateTopStrategies(entries, Len(entries))
           top == CalculateTopStrategies(entries, 1)
<1>1. total = SumOver(Saved, rows)
  BY RowsListed
<1>2. \A keyOf : Total(GroupTotals(entries, keyOf)) = total
  BY <1>1, GroupFacts
<1>3. /\ Total(CalculateByMerchant(entries)) = total
      /\ Total(CalculateByDayOfWeek(entries)) = total
      /\ Total(CalculateByHour(entries)) = total
  BY <1>2 DEF CalculateByMerchant, CalculateByDayOfWeek, CalculateByHour
<1>4. \A s \in SavingsSummary : s.totalSaved = total
  <2> SUFFICES ASSUME NEW s \in SavingsSummary PROVE s.totalSaved = total
    OBVIOUS
  <2> DEFINE listed == [i \in DOMAIN ListRows |->
                            IF recordedIn = "own" THEN ListRows[i] ELSE NoEntry]
  <2>1. PICK list \in PackageList : /\ \A i \in DOMAIN list : list[i] # NoEntry
                                   /\ s.totalSaved = CalculateTotalSaved(list)
    BY DEF SavingsSummary
  <2>2. list = listed
    BY <2>1 DEF PackageList
  <2>3. ListRows = [i \in DOMAIN ListRows |-> ListRows[i]]
    <3>1. rows \in SUBSET rows
      OBVIOUS
    <3> QED
      BY <3>1, ListedByAge DEF ListRows, Enumerates
  <2>4. listed = ListRows
    BY <2>1, <2>2, <2>3
  <2> QED
    BY <2>1, <2>2, <2>4
<1>5. CalculateTrend(entries).firstHalf + CalculateTrend(entries).secondHalf = total
  BY <1>1, HalvesAddUp
<1>6. \A shop \in DOMAIN CalculateByMerchant(entries) :
        AggregateStats(shop).totalSavings = CalculateByMerchant(entries)[shop]
  BY MerchantTotals
<1>7. Total([i \in DOMAIN all |-> all[i].totalSavings]) = total
  BY <1>1, StrategiesAddUp
<1>8. \A i \in DOMAIN all, j \in DOMAIN top : all[i].totalSavings <= top[j].totalSavings
  BY TopIsMost
<1>9. /\ CalculateMinSavings(entries) * Len(entries) <= total
      /\ total <= CalculateMaxSavings(entries) * Len(entries)
  BY <1>1, AverageIsBetween
<1> HIDE DEF entries, total, all, top
<1> QED
  BY <1>3, <1>4, <1>5, <1>6, <1>7, <1>8, <1>9, Zenon DEF ReportsAddUp, entries, total, all, top

(***************************************************************************)
(* However many savings are recorded, at whatever times and of whichever   *)
(* merchants and strategies, all breakdowns of the savings package and of  *)
(* the storage package add up to one total (savings-calculator.ts,         *)
(* storage/src/savings-repository.ts).                                     *)
(***************************************************************************)
THEOREM BreakdownsAddUp == ReportsSpec => []ReportsAddUp
BY ReportsInvariance, ReportsAddUpFollows, PTL

-----------------------------------------------------------------------------
(* The queries                                                             *)

\* the rows that the index of a query gives
Found(filter) ==
    {r \in rows : /\ \A x \in filter.merchantId : r.merchantId = x
                  /\ filter.startDate # {} /\ filter.endDate # {} =>
                        /\ \A x \in filter.startDate : r.at >= x
                        /\ \A x \in filter.endDate : r.at <= x}

WithinAmounts(r, filter) ==
    /\ \A x \in filter.minSavings : r.savings >= x
    /\ \A x \in filter.maxSavings : r.savings <= x

LEMMA QueryIsOfFound ==
    ASSUME NEW filter \in Filters
    PROVE  LET list == OldestFirst(Found(filter))
           IN  SavingsQuery(filter) =
                Kept(list, {i \in DOMAIN list : WithinAmounts(list[i], filter)})
<1> DEFINE whole == filter.startDate # {} /\ filter.endDate # {}
           The(part) == CHOOSE x \in part : TRUE
           list == IF whole /\ filter.merchantId # {}
                   THEN QueryByMerchantAndDateRange(The(filter.merchantId),
                                                    The(filter.startDate), The(filter.endDate))
                   ELSE IF whole THEN QueryByDateRange(The(filter.startDate), The(filter.endDate))
                   ELSE IF filter.merchantId # {} THEN QueryByMerchant(The(filter.merchantId))
                   ELSE ListRows
<1>1. SavingsQuery(filter) = Kept(list, {i \in DOMAIN list : WithinAmounts(list[i], filter)})
  BY DEF SavingsQuery, WithinAmounts
<1>2. \A part \in {filter.merchantId, filter.startDate, filter.endDate} :
        part # {} => part = {The(part)}
  <2>1. \A T : \A part \in SomeOrNone(T) : part # {} => part = {The(part)}
    BY DEF SomeOrNone
  <2> HIDE DEF The
  <2>2. /\ filter.merchantId \in SomeOrNone(ShopIds)
        /\ filter.startDate \in SomeOrNone(0..MaxReportTime)
        /\ filter.endDate \in SomeOrNone(0..MaxReportTime)
    BY DEF Filters
  <2> QED
    BY <2>1, <2>2
<1> HIDE DEF The
<1>3. list = OldestFirst(Found(filter))
  <2>1. CASE whole /\ filter.merchantId # {}
    <3>1. Found(filter) = {r \in rows : /\ r.merchantId = The(filter.merchantId)
                                        /\ r.at >= The(filter.startDate)
                                        /\ r.at <= The(filter.endDate)}
      BY <1>2, <2>1 DEF Found
    <3> QED
      BY <2>1, <3>1 DEF QueryByMerchantAndDateRange
  <2>2. CASE whole /\ ~(filter.merchantId # {})
    <3>1. Found(filter) = {r \in rows : r.at >= The(filter.startDate)
                                        /\ r.at <= The(filter.endDate)}
      BY <1>2, <2>2 DEF Found
    <3> QED
      BY <2>2, <3>1 DEF QueryByDateRange
  <2>3. CASE ~whole /\ filter.merchantId # {}
    <3>1. Found(filter) = {r \in rows : r.merchantId = The(filter.merchantId)}
      BY <1>2, <2>3 DEF Found
    <3> QED
      BY <2>3, <3>1 DEF QueryByMerchant
  <2>4. CASE ~whole /\ ~(filter.merchantId # {})
    <3>1. Found(filter) = rows
      BY <2>4 DEF Found
    <3> QED
      BY <2>4, <3>1 DEF ListRows
  <2> QED
    BY <2>1, <2>2, <2>3, <2>4, Zenon
<1> HIDE DEF list
<1> QED
  BY <1>1, <1>3

\* a query gives the rows found that are within the amounts, each once
LEMMA QueryGivesMatches ==
    ASSUME ReportsInv, NEW filter \in Filters
    PROVE  /\ ToSet(SavingsQuery(filter)) = {r \in Found(filter) : WithinAmounts(r, filter)}
           /\ IsInjective(SavingsQuery(filter))
<1> DEFINE found == Found(filter)
           n == Cardinality(found)
           list == OldestFirst(found)
           I == {i \in DOMAIN list : WithinAmounts(list[i], filter)}
           kept == Kept(list, I)
           matches == {r \in found : WithinAmounts(r, filter)}
<1>1. SavingsQuery(filter) = kept
  BY QueryIsOfFound
<1>2. found \in SUBSET rows
  BY DEF Found
<1> HIDE DEF found
<1>3. Enumerates(list, n, found)
  BY <1>2, ListedByAge
<1> HIDE DEF list, n
<1>4. /\ list \in [1..n -> found] /\ \A r \in found : \E k \in 1..n : list[k] = r
  BY <1>3 DEF Enumerates
<1>5. I \in SUBSET (1..n) /\ ElementsAt(list, I) = matches
  BY <1>4 DEF ElementsAt
<1> HIDE DEF I
<1>6. Enumerates(kept, Len(kept), ElementsAt(list, I))
  BY <1>2, <1>3, <1>5, KeptIsList
<1> HIDE DEF kept, matches
<1>7. Enumerates(kept, Len(kept), matches)
  BY <1>5, <1>6
<1>8. DOMAIN kept = 1..Len(kept)
  BY <1>7 DEF Enumerates
<1>9. ToSet(kept) = matches
  BY <1>7, <1>8 DEF Enumerates, ToSet
<1>10. IsInjective(kept)
  BY <1>7, <1>8 DEF Enumerates, IsInjective
<1> QED
  BY <1>1, <1>9, <1>10 DEF matches, found

\* a list of the newest rows of a range: what it leaves out are older ones, for want
\* of room, and those that are out of the range
ShowsNewest(shown, start, end, limit) ==
    LET kept == ToSet(shown)
    IN  /\ \A i, j \in DOMAIN shown : i < j => shown[i].at >= shown[j].at
        /\ kept \subseteq rows
        /\ \A r \in rows \ kept :
              \/ limit # 0 /\ Len(shown) = limit /\ \A k \in kept : r.at <= k.at
              \/ \E x \in start : r.at < x
              \/ \E x \in end : x # 0 /\ r.at > x

\* the history: the newest of a range
LEMMA NewestShown ==
    ASSUME ReportsInv, NEW start \in SomeOrNone({0, MaxReportTime}),
           NEW end \in SomeOrNone({0, MaxReportTime}), NEW limit \in Nat
    PROVE  LET newest == NewestRows(start, end)
               shown == IF limit = 0 \/ Len(newest) <= limit THEN newest
                        ELSE SubSeq(newest, 1, limit)
           IN  ShowsNewest(shown, start, end, limit)
<1> DEFINE found == {r \in rows : /\ \A x \in start : x # 0 => r.at >= x
                                  /\ \A x \in end : x # 0 => r.at <= x}
           Newer(a, b) == a.at > b.at \/ (a.at = b.at /\ a.random < b.random)
           before == {pair \in found \X found : Newer(pair[1], pair[2])}
           newest == InOrder(found, before)
           n == Cardinality(found)
           m == IF limit = 0 \/ n <= limit THEN n ELSE limit
           shown == IF limit = 0 \/ Len(newest) <= limit THEN newest ELSE SubSeq(newest, 1, limit)
<1>1. newest = NewestRows(start, end)
  BY DEF NewestRows
<1>2. /\ found \in SUBSET rows /\ \A r \in rows : r.at \in Nat /\ r.random \in Nat
      /\ \A a, b \in found : a.at = b.at /\ a.random = b.random => a = b
  BY DEF ReportsInv, Row
<1>3. ASSUME NEW r \in rows, r \notin found
      PROVE  (\E x \in start : r.at < x) \/ \E x \in end : x # 0 /\ r.at > x
  <2>1. r.at \in Nat
    BY <1>2
  <2>2. (start \cup end) \in SUBSET Nat
    BY ReportsAssumption DEF SomeOrNone
  <2>3. (\E x \in start : ~(r.at >= x)) \/ \E x \in end : x # 0 /\ ~(r.at <= x)
    BY <1>3
  <2> QED
    BY <2>1, <2>2, <2>3
<1>4. IsFiniteSet(found)
  BY <1>2, FS_Subset DEF ReportsInv
<1>5. \A a, b \in found : <<a, b>> \in before <=> Newer(a, b)
  OBVIOUS
<1> HIDE DEF found, before
<1>6. Orders(before, found)
  <2>1. \A a \in found : ~Newer(a, a)
    BY <1>2
  <2>2. \A a, b \in found : a # b => Newer(a, b) \/ Newer(b, a)
    BY <1>2
  <2>3. \A a, b, c \in found : Newer(a, b) /\ Newer(b, c) => Newer(a, c)
    BY <1>2
  <2> HIDE DEF Newer
  <2> QED
    BY <1>5, <2>1, <2>2, <2>3 DEF Orders
<1>7. /\ n \in Nat /\ newest \in [1..n -> found]
      /\ \A i \in found : \E k \in 1..n : newest[k] = i
      /\ \A k, l \in 1..n : k < l => <<newest[k], newest[l]>> \in before
  BY ONLY <1>4, <1>6, PlacesInOrder
<1> HIDE DEF newest, n
<1>8. \A k, l \in 1..n : k < l => newest[k].at >= newest[l].at
  <2> SUFFICES ASSUME NEW k \in 1..n, NEW l \in 1..n, k < l
               PROVE  newest[k].at >= newest[l].at
    OBVIOUS
  <2>1. newest[k] \in found /\ newest[l] \in found /\ Newer(newest[k], newest[l])
    BY <1>5, <1>7
  <2>2. newest[k].at \in Nat /\ newest[l].at \in Nat
    BY <1>2, <2>1
  <2> QED
    BY <2>1, <2>2
<1>9. /\ m \in 0..n /\ DOMAIN shown = 1..m /\ \A k \in 1..m : shown[k] = newest[k]
      /\ Len(shown) = m
  <2>1. newest \in Seq(found) /\ DOMAIN newest = 1..n
    BY <1>7
  <2>2. Len(newest) = n
    BY <1>7, <2>1
  <2>3. CASE limit = 0 \/ n <= limit
    BY <1>7, <2>1, <2>2, <2>3
  <2>4. CASE ~(limit = 0 \/ n <= limit)
    <3>1. shown = SubSeq(newest, 1, limit) /\ m = limit
      BY <2>2, <2>4
    <3>2. limit \in 0..n
      BY <1>7, <2>4
    <3>3. SubSeq(newest, 1, limit) = [k \in 1..limit |-> newest[k]]
      BY <1>7, <2>1, <3>2
    <3> QED
      BY <3>1, <3>2, <3>3
  <2> QED
    BY <2>3, <2>4
<1> HIDE DEF shown, m
<1>10. \A i, j \in DOMAIN shown : i < j => shown[i].at >= shown[j].at
  BY <1>7, <1>8, <1>9
<1>11. ASSUME NEW r \in rows \ ToSet(shown), r \in found
       PROVE  limit # 0 /\ Len(shown) = limit /\ \A k \in ToSet(shown) : r.at <= k.at
  <2>1. PICK j \in 1..n : newest[j] = r
    BY <1>7, <1>11
  <2>2. j \notin 1..m
    <3>1. ASSUME j \in 1..m PROVE FALSE
      <4>1. shown[j] = r /\ j \in DOMAIN shown
        BY <1>9, <2>1, <3>1
      <4> QED
        BY <4>1 DEF ToSet
    <3> QED
      BY <3>1
  <2>3. m = limit /\ limit # 0
    BY <1>7, <2>2 DEF m
  <2>4. ASSUME NEW k \in ToSet(shown) PROVE r.at <= k.at
    <3>1. PICK i \in 1..m : k = newest[i]
      BY <1>9 DEF ToSet
    <3>2. i \in 1..n /\ i < j
      BY <1>7, <1>9, <2>2
    <3>3. newest[i].at >= newest[j].at /\ newest[i] \in found /\ newest[j] \in found
      BY <1>7, <1>8, <3>2
    <3> QED
      BY <1>2, <2>1, <3>1, <3>3
  <2> QED
    BY <1>9, <2>3, <2>4
<1>12. ToSet(shown) \subseteq rows
  BY <1>2, <1>7, <1>9 DEF ToSet
<1> QED
  BY <1>1, <1>3, <1>10, <1>11, <1>12, Zenon DEF ShowsNewest, shown

\* rows of the worker's are none that the savings package shows
LEMMA NothingShown ==
    ASSUME ReportsInv, recordedIn # "own", NEW start, NEW end, NEW limit \in Nat,
           NEW shown \in GetHistory(start, end, limit)
    PROVE  ToSet(shown) \cap rows = {}
<1> DEFINE list == [i \in DOMAIN ListRows |-> NoEntry]
           n == Cardinality(rows)
<1>1. /\ PackageList \subseteq {list}
      /\ shown = list \/ (~(Len(list) <= limit) /\ shown = SubSeq(list, 1, limit))
  BY DEF GetHistory, PackageList
<1>2. ListRows \in [1..n -> rows] /\ n \in Nat
  <2>1. rows \in SUBSET rows
    OBVIOUS
  <2> QED
    BY <2>1, ListedByAge DEF ListRows, Enumerates
<1>3. list \in Seq({NoEntry}) /\ list = [i \in 1..n |-> NoEntry] /\ Len(list) = n
  BY <1>2
<1> HIDE DEF list
<1>4. \A i \in DOMAIN shown : shown[i] = NoEntry
  <2>1. CASE shown = list
    BY <1>3, <2>1
  <2>2. CASE ~(Len(list) <= limit) /\ shown = SubSeq(list, 1, limit)
    <3>1. limit \in 0..n
      BY <1>2, <1>3, <2>2
    <3>2. SubSeq(list, 1, limit) = [k \in 1..limit |-> list[k]]
      BY <1>2, <1>3, <3>1
    <3>3. DOMAIN shown = 1..limit /\ \A k \in 1..limit : shown[k] = list[k] /\ k \in 1..n
      BY <1>2, <2>2, <3>1, <3>2
    <3>4. \A k \in 1..n : list[k] = NoEntry
      BY <1>3
    <3> QED
      BY <3>3, <3>4
  <2> QED
    BY <1>1, <2>1, <2>2
<1>5. NoEntry \notin rows
  <2>1. DOMAIN NoEntry = {"undefined"}
    BY DEF NoEntry
  <2>2. \A r \in Row : "at" \in DOMAIN r
    BY DEF Row
  <2>3. "at" # "undefined"
    OBVIOUS
  <2> QED
    BY <2>1, <2>2, <2>3 DEF ReportsInv
<1> QED
  BY <1>4, <1>5 DEF ToSet

LEMMA QueriesMatchFollows == ReportsInv => QueriesMatch
<1> SUFFICES ASSUME ReportsInv PROVE QueriesMatch
  OBVIOUS
<1>1. ASSUME NEW f \in Filters
      PROVE  LET whole == f.startDate # {} /\ f.endDate # {}
             IN  /\ ToSet(SavingsQuery(f)) =
                    {r \in rows : /\ \A x \in f.merchantId : r.merchantId = x
                                  /\ whole => /\ \A x \in f.startDate : r.at >= x
                                              /\ \A x \in f.endDate : r.at <= x
                                  /\ \A x \in f.minSavings : r.savings >= x
                                  /\ \A x \in f.maxSavings : r.savings <= x}
                 /\ IsInjective(SavingsQuery(f))
  <2>1. /\ ToSet(SavingsQuery(f)) = {r \in Found(f) : WithinAmounts(r, f)}
        /\ IsInjective(SavingsQuery(f))
    BY QueryGivesMatches
  <2> QED
    BY <2>1 DEF Found, WithinAmounts
<1>2. ASSUME NEW start \in SomeOrNone({0, MaxReportTime}),
             NEW end \in SomeOrNone({0, MaxReportTime}), NEW limit \in 0..MaxRows
      PROVE  \A shown \in GetHistory(start, end, limit) :
                LET kept == ToSet(shown)
                IN  IF recordedIn = "own"
                    THEN ShowsNewest(shown, start, end, limit)
                    ELSE kept \cap rows = {}
  <2>1. limit \in Nat
    BY ReportsAssumption
  <2>2. CASE recordedIn = "own"
    <3>1. ASSUME NEW shown \in GetHistory(start, end, limit)
          PROVE  shown = LET newest == NewestRows(start, end)
                         IN  IF limit = 0 \/ Len(newest) <= limit THEN newest
                             ELSE SubSeq(newest, 1, limit)
      BY <2>2 DEF GetHistory
    <3> QED
      BY <2>1, <2>2, <3>1, NewestShown
  <2>3. CASE recordedIn # "own"
    BY <2>1, <2>3, NothingShown
  <2> QED
    BY <2>2, <2>3
<1> QED
  BY <1>1, <1>2 DEF QueriesMatch, ShowsNewest

(***************************************************************************)
(* For any number of rows, a query finds what matches through whichever    *)
(* index it goes (storage/src/savings-repository.ts); the savings package  *)
(* shows the newest of its own rows of a range, up to the limit, and none  *)
(* of the worker's (savings/src/savings-repository.ts).                    *)
(***************************************************************************)
THEOREM QueriesFindMatches == ReportsSpec => []QueriesMatch
BY ReportsInvariance, QueriesMatchFollows, PTL
=============================================================================
