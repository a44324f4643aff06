---------------------------- MODULE ProfileStore ----------------------------
(***************************************************************************)
(* The user's profile and the log of security events in local storage: the *)
(* popup's handlers (popup/App.tsx, its forms, Diagnostics.tsx), and what  *)
(* the worker reads and writes of them (background/service-worker.ts).     *)
(*                                                                         *)
(* A form hands the whole profile it was rendered with, changed, to        *)
(* handleUpdateProfile; the popup takes it over when it is written, so     *)
(* several writes of one popup may be under way, and no popup is told of   *)
(* what another has written.  A profile is the cards, memberships and      *)
(* vouchers it has; amounts are left out.                                  *)
(***************************************************************************)
EXTENDS Collections, SequencesExt

CONSTANTS
    Popups,
    Cards,
    Memberships,    \* the programs one can be a member of
    Vouchers,       \* the ids vouchers get, each from the time it was added
    Renderings,     \* whether a component whose hooks change in number renders
                    \* all the same: what React does is FALSE
    MaxCards,       \* bound: cards and memberships of a profile
    MaxWrites,      \* bound: writes of one popup under way
    MaxEvents,      \* the log's length, 200 in the code
    MaxLogged,      \* bound: events logged
    MaxProfileFaults \* bound: storage calls that fail

ASSUME ProfileAssumption ==
    /\ Cards \cap Memberships = {} /\ Vouchers \cap (Cards \cup Memberships) = {}
    /\ IsFiniteSet(Cards) /\ Renderings \subseteq BOOLEAN
    /\ {MaxCards, MaxWrites, MaxEvents, MaxLogged, MaxProfileFaults} \subseteq Nat

VARIABLES
    renders,
    stored,         \* onboarding-completed and user-profile, if there is one
    events,         \* security-events
    popups,
    logging,        \* what each logSecurityEvent of the worker read that has yet to write
    logged,         \* auxiliary: the events whose write was made, in order
    overwritten,    \* auxiliary: a writer of the log did not know what it replaced
    profileFaults

profileVars == <<renders, stored, events, popups, logging, logged, overwritten, profileFaults>>

Profile(cards, imported) == [cards |-> cards, imported |-> imported, parses |-> TRUE]
CorruptProfile == [cards |-> <<>>, imported |-> FALSE, parses |-> FALSE]

ClosedPopup == [step |-> "closed", onboarded |-> FALSE, profile |-> {}, writes |-> <<>>,
                keep |-> <<>>, current |-> FALSE]

ProfileInit ==
    /\ renders \in Renderings
    /\ stored \in {[onboarded |-> FALSE, profile |-> {}],
                   [onboarded |-> TRUE, profile |-> {CorruptProfile}],
                   [onboarded |-> TRUE, profile |-> {Profile(<<>>, FALSE)}]}
    /\ events = <<>> /\ logged = <<>> /\ overwritten = FALSE
    /\ popups = [p \in Popups |-> ClosedPopup]
    /\ logging = <<>> /\ profileFaults = 0

MayFail == profileFaults < MaxProfileFaults

-----------------------------------------------------------------------------
(* Schemas                                                                 *)

\* validateProfileIntegrity: no id twice
ProfileIsConsistent(x) == IsInjective(x.cards)

\* loadUserProfile: the worker optimizes for this profile
WorkerAccepts(x) == x.parses /\ ProfileIsConsistent(x)

-----------------------------------------------------------------------------
(* Opening the popup                                                       *)

Open(p) ==
    /\ popups[p].step = "closed"
    /\ popups' = [popups EXCEPT ![p].step = "loading"]
    /\ UNCHANGED <<renders, stored, events, logging, logged, overwritten, profileFaults>>

\* an onboarded popup's render has a hook more than those before it
Rendered(onboarded) == IF onboarded /\ ~renders THEN "crashed" ELSE "ready"

\* loadState: a profile that does not parse counts as none, and so does one that
\* could not be read, whose user is asked for a profile once more
LoadState(p) ==
    /\ popups[p].step = "loading"
    /\ \/ /\ LET good == {x \in stored.profile : x.parses}
                 onboarded == stored.onboarded /\ good = stored.profile
             IN  popups' = [popups EXCEPT
                    ![p] = [ClosedPopup EXCEPT !.step = Rendered(onboarded), !.current = TRUE,
                                !.onboarded = onboarded, !.profile = good]]
          /\ UNCHANGED profileFaults
       \/ /\ MayFail /\ profileFaults' = profileFaults + 1
          /\ popups' = [popups EXCEPT ![p] = [ClosedPopup EXCEPT !.step = "ready"]]
    /\ UNCHANGED <<renders, stored, events, logging, logged, overwritten>>

\* writes that were issued are made, up to one of them
Close(p) ==
    /\ popups[p].step # "closed"
    /\ \E n \in 0..Len(popups[p].writes) :
        /\ stored' = IF n = 0 THEN stored
                     ELSE [onboarded |-> stored.onboarded
                                \/ \E i \in 1..n : popups[p].writes[i].onboards,
                           profile |-> {popups[p].writes[n].profile}]
        /\ popups' = [q \in Popups |-> IF q = p THEN ClosedPopup
                        ELSE [popups[q] EXCEPT !.current = @ /\ n = 0]]
    /\ overwritten' = (overwritten \/ (popups[p].step = "cleared" /\ popups[p].keep # <<>>))
    /\ UNCHANGED <<renders, events, logging, logged, profileFaults>>

-----------------------------------------------------------------------------
(* Changing the profile                                                    *)

Ready(p) == popups[p].step = "ready"

Base(p) == IF popups[p].profile = {} THEN Profile(<<>>, FALSE)
           ELSE CHOOSE x \in popups[p].profile : TRUE

\* a profile that parses is written
Writes(p, x, onboards) ==
    /\ Len(popups[p].writes) < MaxWrites
    /\ popups' = IF x.parses
                 THEN [popups EXCEPT ![p].writes =
                            Append(@, [profile |-> x, onboards |-> onboards])]
                 ELSE popups
    /\ UNCHANGED <<renders, stored, events, logging, logged, overwritten, profileFaults>>

\* the onboarding form: some of the templates, in their order
HandleOnboardingComplete(p) ==
    /\ Ready(p) /\ ~popups[p].onboarded
    /\ \E cards \in SUBSET Cards : Writes(p, Profile(SetToSeq(cards), FALSE), TRUE)

\* mutant: the catalog is not asked whether the card is there
HandleAddCard_Always(p, card) ==
    LET base == Base(p)
    IN  /\ Ready(p) /\ popups[p].onboarded
        /\ Len(base.cards) < MaxCards
        /\ Writes(p, [base EXCEPT !.cards = Append(@, card)], FALSE)

HandleAddCard(p, card) ==
    LET base == Base(p)
    IN  /\ Ready(p) /\ popups[p].onboarded
        /\ ~Contains(base.cards, card) /\ Len(base.cards) < MaxCards
        /\ Writes(p, [base EXCEPT !.cards = Append(@, card)], FALSE)

CardsWithout(cards, card) == Kept(cards, {i \in DOMAIN cards : cards[i] # card})

\* a voucher is removed in the same way
HandleRemoveCard(p, card) ==
    /\ Ready(p) /\ popups[p].onboarded
    /\ Writes(p, [Base(p) EXCEPT !.cards = CardsWithout(@, card)], FALSE)

\* handleUpdateSpend: an amount of one card, if the profile has it
HandleUpdateSpend(p) ==
    /\ Ready(p) /\ popups[p].onboarded
    /\ Writes(p, Base(p), FALSE)

\* the benefits view puts a membership in the place of that of its program
HandleAddMembership(p, m) ==
    LET others == CardsWithout(Base(p).cards, m)
    IN  /\ Ready(p) /\ popups[p].onboarded /\ Len(others) < MaxCards
        /\ Writes(p, [Base(p) EXCEPT !.cards = Append(others, m)], FALSE)

HandleRemoveMembership(p, m) ==
    /\ Ready(p) /\ popups[p].onboarded
    /\ Writes(p, [Base(p) EXCEPT !.cards = CardsWithout(@, m)], FALSE)

\* ... and a voucher with the rest, under an id that the profile has not
HandleAddVoucher(p, v) ==
    /\ Ready(p) /\ popups[p].onboarded
    /\ ~Contains(Base(p).cards, v) /\ Len(Base(p).cards) < MaxCards
    /\ Writes(p, [Base(p) EXCEPT !.cards = Append(@, v)], FALSE)

\* the settings view: a valuation that parses, or a preference
HandleUpdateValuation(p) ==
    /\ Ready(p) /\ popups[p].onboarded
    /\ Writes(p, Base(p), FALSE)

\* handleImport: whatever the text holds, perhaps a card twice, and success is
\* reported even when handleUpdateProfile refuses it
HandleImport(p) ==
    /\ Ready(p) /\ popups[p].onboarded
    /\ \/ \E cards \in SeqOf(Cards, MaxCards) : Writes(p, Profile(cards, TRUE), FALSE)
       \/ Writes(p, CorruptProfile, FALSE)

\* mutant: the popup takes the profile over although the write failed
HandleUpdateProfile_ShowsFirst(p) ==
    LET write == Head(popups[p].writes)
    IN  /\ Ready(p) /\ popups[p].writes # <<>>
        /\ \/ /\ stored' = [onboarded |-> stored.onboarded \/ write.onboards,
                            profile |-> {write.profile}]
              /\ UNCHANGED profileFaults
           \/ MayFail /\ profileFaults' = profileFaults + 1 /\ UNCHANGED stored
        /\ popups' = [q \in Popups |->
                IF q = p THEN [popups[p] EXCEPT !.writes = Tail(@), !.current = TRUE,
                                                !.profile = {write.profile}]
                ELSE [popups[q] EXCEPT !.current = FALSE]]
        /\ UNCHANGED <<renders, events, logging, logged, overwritten>>

\* the write is made and the popup takes it over, or it fails and nothing
\* changes; handleOnboardingComplete does the same
HandleUpdateProfile(p) ==
    LET write == Head(popups[p].writes)
        onboarded == popups[p].onboarded \/ write.onboards
    IN  /\ Ready(p) /\ popups[p].writes # <<>>
        /\ \/ /\ stored' = [onboarded |-> stored.onboarded \/ write.onboards,
                            profile |-> {write.profile}]
              /\ popups' = [q \in Popups |->
                    IF q = p
                    THEN [popups[p] EXCEPT !.writes = Tail(@), !.current = TRUE,
                            !.profile = {write.profile}, !.onboarded = onboarded,
                            !.step = Rendered(onboarded)]
                    ELSE [popups[q] EXCEPT !.current = FALSE]]
              /\ UNCHANGED profileFaults
           \/ /\ MayFail /\ profileFaults' = profileFaults + 1
              /\ popups' = [popups EXCEPT ![p].writes = Tail(@)]
              /\ UNCHANGED stored
        /\ UNCHANGED <<renders, events, logging, logged, overwritten>>

-----------------------------------------------------------------------------
(* Diagnostics: the reset keeps the log of security events                 *)

\* mutant: the log goes with the rest
HandleReset_Forgets(p) ==
    /\ Ready(p) /\ popups[p].onboarded /\ popups[p].writes = <<>>
    /\ stored' = [onboarded |-> FALSE, profile |-> {}] /\ events' = <<>>
    /\ popups' = [q \in Popups |-> IF q = p THEN [ClosedPopup EXCEPT !.step = "loading"]
                                   ELSE [popups[q] EXCEPT !.current = FALSE]]
    /\ UNCHANGED <<renders, logging, logged, overwritten, profileFaults>>

\* the log is read, storage cleared, the log put back, and the popup reloaded;
\* a call that fails ends it
HandleReset(p) ==
    /\ \/ /\ Ready(p) /\ popups[p].onboarded /\ popups[p].writes = <<>>
          /\ popups' = [popups EXCEPT ![p].step = "resetting", ![p].keep = events]
          /\ UNCHANGED <<stored, events, overwritten, profileFaults>>
       \/ /\ popups[p].step = "resetting"
          /\ stored' = [onboarded |-> FALSE, profile |-> {}] /\ events' = <<>>
          /\ popups' = [q \in Popups |-> IF q = p THEN [popups[p] EXCEPT !.step = "cleared"]
                                         ELSE [popups[q] EXCEPT !.current = FALSE]]
          /\ overwritten' = (overwritten \/ events # popups[p].keep)
          /\ UNCHANGED profileFaults
       \/ /\ popups[p].step = "cleared"
          /\ events' = IF popups[p].keep = <<>> THEN events ELSE popups[p].keep
          /\ popups' = [popups EXCEPT ![p] = [ClosedPopup EXCEPT !.step = "loading"]]
          /\ overwritten' = (overwritten \/ (events # <<>> /\ popups[p].keep # <<>>))
          /\ UNCHANGED <<stored, profileFaults>>
       \/ /\ MayFail /\ profileFaults' = profileFaults + 1
          /\ popups[p].step \in {"resetting", "cleared"}
          /\ popups' = [popups EXCEPT ![p].step = "ready", ![p].current = FALSE]
          /\ overwritten' = (overwritten \/ popups[p].step = "cleared")
          /\ UNCHANGED <<stored, events>>
    /\ UNCHANGED <<renders, logging, logged>>

-----------------------------------------------------------------------------
(* logSecurityEvent: the log is read, and written with one event more;     *)
(* calls overlap, and write in the order in which they have read           *)

LastEvents(s) == IF Len(s) <= MaxEvents THEN s ELSE SubSeq(s, Len(s) - MaxEvents + 1, Len(s))

LogSecurityEvent ==
    /\ \/ /\ Len(logged) + Len(logging) < MaxLogged
          /\ logging' = Append(logging, events)
          /\ UNCHANGED <<events, logged, overwritten, profileFaults>>
       \/ /\ logging # <<>> /\ logging' = Tail(logging)
          /\ events' = LastEvents(Append(Head(logging), Len(logged) + 1))
          /\ logged' = Append(logged, Len(logged) + 1)
          /\ overwritten' = (overwritten \/ events # Head(logging))
          /\ UNCHANGED profileFaults
       \/ /\ logging # <<>> /\ logging' = Tail(logging)
          /\ MayFail /\ profileFaults' = profileFaults + 1
          /\ UNCHANGED <<events, logged, overwritten>>
    /\ UNCHANGED <<renders, stored, popups>>

ProfileNext ==
    \/ LogSecurityEvent
    \/ \E p \in Popups :
        \/ Open(p) \/ LoadState(p) \/ Close(p)
        \/ HandleOnboardingComplete(p) \/ HandleUpdateProfile(p)
        \/ HandleImport(p) \/ HandleReset(p)
        \/ \E c \in Cards : HandleAddCard(p, c)
        \/ \E v \in Vouchers : HandleAddVoucher(p, v)
        \/ \E c \in Cards \cup Vouchers : HandleRemoveCard(p, c)
        \/ HandleUpdateSpend(p) \/ HandleUpdateValuation(p)
        \/ \E m \in Memberships : HandleAddMembership(p, m) \/ HandleRemoveMembership(p, m)

ProfileSpec == ProfileInit /\ [][ProfileNext]_profileVars

-----------------------------------------------------------------------------
(***************************************************************************)
(* However its own writes overlap and whichever of them fail, the popup    *)
(* that was the last to read or write it shows what is stored; one that    *)
(* another has written after may not, and one that could not read the      *)
(* profile shows none. And no dashboard ever shows the placeholder of a    *)
(* profile, whatever failed, was cut off or did not parse.                 *)
(***************************************************************************)
ShownIsSaved ==
    \A p \in Popups : Ready(p) =>
        /\ popups[p].current => popups[p].profile = {x \in stored.profile : x.parses}
        /\ popups[p].onboarded => \E x \in popups[p].profile : x.parses

(***************************************************************************)
(* Onboarding is never complete without a profile; and only an import, or  *)
(* what an earlier release left, makes the popup save a profile that the   *)
(* worker then refuses: none of the forms does, however stale the profile  *)
(* it started from.                                                        *)
(***************************************************************************)
StoredIsUsable ==
    /\ stored.onboarded => stored.profile # {}
    /\ \A x \in stored.profile : x.parses /\ ~x.imported => WorkerAccepts(x)

(***************************************************************************)
(* The log has the last events written, through resets, too, unless one    *)
(* writer of it overwrote what another had written after it read, or a     *)
(* reset was cut off after the clearing.                                   *)
(***************************************************************************)
EventsSurvive ==
    overwritten \/ (\E p \in Popups : popups[p].step = "cleared")
        \/ events = LastEvents(logged)
=============================================================================
