---------------------------- MODULE ApiKeyStore ----------------------------
(***************************************************************************)
(* The key of the explanation service (popup/api-key-store.ts): it is kept *)
(* in session storage, and in local storage, too, if the user lets the     *)
(* device remember it.  The settings view (popup/Settings.tsx) changes it  *)
(* with every keystroke, so changes overlap.                               *)
(*                                                                         *)
(* The calls to one storage area are served in the order they are issued,  *)
(* and a call of storeApiKey or revokeApiKey issues its second one when    *)
(* the first has been served: no change overtakes another.                 *)
(***************************************************************************)
EXTENDS Integers, Sequences, SequencesExt

CONSTANTS
    ApiKeys,         \* keys that are not empty
    MaxChangesOfKey, \* bound: changes under way
    MaxKeyFaults     \* bound: storage calls that fail, and restarts of the browser

NoKey == ""   \* the empty text

\* a text as it is typed: the key in it, perhaps with spaces around it; spaces
\* alone have no key in them
KeyTexts == [key : {NoKey} \cup ApiKeys, padded : BOOLEAN]
Text(key) == [key |-> key, padded |-> FALSE]
Trim(text) == text.key

ASSUME ApiKeyAssumption ==
    NoKey \notin ApiKeys /\ {MaxChangesOfKey, MaxKeyFaults} \subseteq Nat

VARIABLES
    keys,       \* the two storage areas
    settings,   \* the settings view: how far it has loaded, the text it shows
    keyTasks,   \* the changes under way, in the order they were made
    keyFaults,
    excused,    \* auxiliary: a storage call failed, or the view was used early
    revoked     \* auxiliary: a revocation was completed, and no key given since

keyVars == <<keys, settings, keyTasks, keyFaults, excused, revoked>>

NoView == [loading |-> "closed", key |-> Text(NoKey), remember |-> FALSE]

KeyInit ==
    /\ keys \in {[session |-> s, local |-> l, remember |-> l # NoKey] :
                    s \in {NoKey} \cup ApiKeys, l \in {NoKey} \cup ApiKeys}
    /\ keys.local # NoKey => keys.session \in {NoKey, keys.local}
    /\ settings = NoView /\ keyTasks = <<>>
    /\ keyFaults = 0 /\ excused = FALSE /\ revoked = FALSE

\* getApiKey: the session's, or the remembered one
GetApiKey ==
    IF keys.session # NoKey THEN keys.session
    ELSE IF keys.remember THEN keys.local ELSE NoKey

-----------------------------------------------------------------------------
(* The settings view                                                       *)

OpenSettings ==
    /\ settings.loading = "closed" /\ keyTasks = <<>>
    /\ settings' = [NoView EXCEPT !.loading = "key"]
    /\ excused' = FALSE
    /\ UNCHANGED <<keys, keyTasks, keyFaults, revoked>>

\* the view's effect: the key, if there is one, and then the flag
LoadSettings ==
    /\ \/ /\ settings.loading = "key"
          /\ settings' = [settings EXCEPT !.loading = "flag",
                            !.key = IF GetApiKey # NoKey THEN Text(GetApiKey) ELSE @]
       \/ /\ settings.loading = "flag"
          /\ settings' = [settings EXCEPT !.loading = "done", !.remember = keys.remember]
    /\ UNCHANGED <<keys, keyTasks, keyFaults, excused, revoked>>

Issue(kind, key, remember) ==
    /\ Len(keyTasks) < MaxChangesOfKey
    /\ keyTasks' = Append(keyTasks,
            [kind |-> kind, key |-> key, remember |-> remember, area |-> "session"])

\* before the view has loaded, or while a revocation is under way
Early ==
    \/ settings.loading # "done"
    \/ \E i \in DOMAIN keyTasks : keyTasks[i].kind = "revoke"

\* the view shows what was typed, and storeApiKey trims it
HandleUpdateApiKey(text) ==
    /\ settings.loading # "closed"
    /\ Issue("store", Trim(text), settings.remember)
    /\ settings' = [settings EXCEPT !.key = text]
    /\ excused' = (excused \/ Early) /\ revoked' = FALSE
    /\ UNCHANGED <<keys, keyFaults>>

\* stores the key in the text the view shows
HandleRememberToggle(remember) ==
    /\ settings.loading # "closed" /\ remember # settings.remember
    /\ Issue("store", Trim(settings.key), remember)
    /\ settings' = [settings EXCEPT !.remember = remember]
    /\ excused' = (excused \/ Early) /\ revoked' = FALSE
    /\ UNCHANGED <<keys, keyFaults>>

HandleRevokeApiKey ==
    /\ settings.loading # "closed"
    /\ Issue("revoke", NoKey, FALSE)
    /\ excused' = (excused \/ Early)
    /\ UNCHANGED <<keys, settings, keyFaults, revoked>>

CloseSettings ==
    /\ settings.loading # "closed"
    /\ settings' = NoView
    /\ UNCHANGED <<keys, keyTasks, keyFaults, excused, revoked>>

-----------------------------------------------------------------------------
\* no earlier change has this call, or the one before it, still to make
MayProceed(i) ==
    \A j \in 1..i - 1 : keyTasks[j].area = "local" /\ keyTasks[i].area = "session"

StoreSession(i) ==
    /\ keyTasks[i].area = "session"
    /\ keys' = [keys EXCEPT !.session = keyTasks[i].key]
    /\ keyTasks' = [keyTasks EXCEPT ![i].area = "local"]
    /\ UNCHANGED <<settings, revoked>>

\* mutant: what was remembered stays, unless it is replaced
StoreLocal_Keeps(i) ==
    /\ keyTasks[i].area = "local"
    /\ keys' = IF keyTasks[i].remember /\ keyTasks[i].key # NoKey
               THEN [keys EXCEPT !.local = keyTasks[i].key, !.remember = TRUE] ELSE keys
    /\ keyTasks' = RemoveAt(keyTasks, i)
    /\ UNCHANGED settings
    /\ revoked' = (keyTasks[i].kind = "revoke" /\ i = Len(keyTasks))

\* a key is remembered, or forgotten; a revocation that has come to its end
\* empties the view
StoreLocal(i) ==
    LET task == keyTasks[i]
    IN  /\ task.area = "local"
        /\ keys' = IF task.remember /\ task.key # NoKey
                   THEN [keys EXCEPT !.local = task.key, !.remember = TRUE]
                   ELSE [keys EXCEPT !.local = NoKey, !.remember = FALSE]
        /\ keyTasks' = RemoveAt(keyTasks, i)
        /\ settings' = IF task.kind = "revoke" /\ settings.loading # "closed"
                       THEN [settings EXCEPT !.key = Text(NoKey), !.remember = FALSE] ELSE settings
        /\ revoked' = (task.kind = "revoke" /\ i = Len(keyTasks))

KeyStep(i) ==
    /\ MayProceed(i)
    /\ StoreSession(i) \/ StoreLocal(i)
    /\ UNCHANGED <<keyFaults, excused>>

\* a call fails: the change ends there, and the view is left as it is
KeyStepFails(i) ==
    /\ keyFaults < MaxKeyFaults /\ keyFaults' = keyFaults + 1
    /\ MayProceed(i)
    /\ keyTasks' = RemoveAt(keyTasks, i) /\ excused' = TRUE
    /\ UNCHANGED <<keys, settings, revoked>>

\* session storage does not survive
KeyRestart ==
    /\ keyFaults < MaxKeyFaults /\ keyFaults' = keyFaults + 1
    /\ keys' = [keys EXCEPT !.session = NoKey]
    /\ settings' = NoView /\ keyTasks' = <<>>
    /\ UNCHANGED <<excused, revoked>>

KeyNext ==
    \/ OpenSettings \/ LoadSettings \/ HandleRevokeApiKey \/ CloseSettings \/ KeyRestart
    \/ \E text \in KeyTexts : HandleUpdateApiKey(text)
    \/ \E r \in BOOLEAN : HandleRememberToggle(r)
    \/ \E i \in DOMAIN keyTasks : KeyStep(i) \/ KeyStepFails(i)

KeySpec == KeyInit /\ [][KeyNext]_keyVars

-----------------------------------------------------------------------------
(***************************************************************************)
(* Changes may overlap, and yet, when none is under way, the text the view *)
(* shows is the key that is in use but for spaces around it (spaces alone  *)
(* when there is none), unless a storage call failed, the view was used    *)
(* before it had loaded (a toggle stores the empty key it still shows), or *)
(* it was used while a revocation was under way, which empties it          *)
(* afterwards; and a key that was revoked is in neither area.              *)
(***************************************************************************)
SettingsShowTheKey ==
    /\ settings.loading = "done" /\ keyTasks = <<>> /\ ~excused =>
          Trim(settings.key) = GetApiKey
    /\ revoked => keys = [session |-> NoKey, local |-> NoKey, remember |-> FALSE]
=============================================================================
