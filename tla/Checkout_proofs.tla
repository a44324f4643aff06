-------------------------- MODULE Checkout_proofs --------------------------
(***************************************************************************)
(* Proofs about Checkout, for any number of tabs and of overlapping        *)
(* passes, any contents of pages, any intervals and any number of faults.  *)
(***************************************************************************)
EXTENDS Checkout, TLAPS

\* the carts that can be seen, and what is recommended for them
Seen ==
    [tab : Tabs \cup {OtherTab}, change : Nat,
     merchantId : {ExtractCart(c).merchantId : c \in Contents} \cup {"other"},
     currency : {ExtractCart(c).currency : c \in Contents} \cup {"INR"},
     total : {ExtractCart(c).total : c \in Contents} \cup {MinorUnits(1)}]

Recommendations == [cart : Seen, at : Nat]

PassStates ==
    {NoPass} \cup [step : {"answered"}, left : Int]
             \cup [step : InWorker, cart : Seen, left : Int, stamp : Nat]

CheckoutTypes ==
    /\ now \in Nat
    /\ page \in [Tabs -> [change : Nat, content : Contents]]
    /\ pass \in [Tabs -> [Passes -> PassStates]]
    /\ session \in [Tabs -> SUBSET Recommendations]
    /\ cached \subseteq Recommendations
    /\ excuses \in [Tabs -> SUBSET {"unobserved", "empty", "throttled", "refused", "overlap"}]
    /\ popup \in {Closed} \cup
            [step : {"opened", "cached", "shown"}, tab : Tabs,
             fallback : SUBSET Recommendations, shown : SUBSET Recommendations]

\* the steps at which a request has not stored its recommendation yet
Asking == {"gate", "profile", "session"}

\* the recommendations for t that the popup has read, or may still read, first
ReadFirst(t) ==
    {r \in cached : r.cart.tab = t} \cup
    (IF popup.step = "cached" /\ popup.tab = t
     THEN {r \in popup.fallback : r.cart.tab = t} ELSE {})

\* nothing that is known of a tab is newer than what it shows
NothingNewer(t) ==
    /\ \A r \in session[t] : r.cart.tab = t
    /\ \A r \in session[t] \cup ReadFirst(t) : r.cart.change <= page[t].change
    /\ \A p \in Passes : pass[t][p].step \in InWorker =>
            pass[t][p].cart.tab = t /\ pass[t][p].cart.change <= page[t].change

\* requests that do not overlap are stored in the order of the changes
StoredInOrder(t) ==
    "overlap" \notin excuses[t] =>
        /\ \A p, q \in Passes :
            pass[t][p].step \in InWorker /\ pass[t][q].step \in InWorker => p = q
        /\ \A r \in session[t], f \in ReadFirst(t) : f.cart.change <= r.cart.change
        /\ \A p \in Passes : pass[t][p].step \in Asking =>
            \A r \in session[t] \cup ReadFirst(t) : r.cart.change <= pass[t][p].cart.change
        /\ \A p \in Passes : pass[t][p].step = "cache" =>
            \A r \in session[t] : r.cart.change = pass[t][p].cart.change

\* without an excuse, what the page shows is being asked for, or is stored
CurrentIsAsked(t) ==
    excuses[t] = {} =>
        /\ \A p \in Passes : pass[t][p].step \in Asking =>
                pass[t][p].cart.change = page[t].change
        /\ \/ \E p \in Passes : pass[t][p].step \in Asking
           \/ \E r \in session[t] : r.cart.change = page[t].change

PopupReads ==
    /\ popup.step = "opened" => popup.fallback = {}
    /\ popup.step = "cached" => popup.shown = popup.fallback

TabInv(t) == NothingNewer(t) /\ StoredInOrder(t) /\ CurrentIsAsked(t)

CheckoutInv ==
    /\ CheckoutTypes /\ PopupReads /\ PopupNeverGoesBack
    /\ \A t \in Tabs : TabInv(t)

-----------------------------------------------------------------------------
(* What passes and carts look like                                         *)

\* the cart taken from a page is one that can be seen
LEMMA CartIsSeen ==
    ASSUME CheckoutTypes, NEW t \in Tabs
    PROVE  /\ CartOf(t) \in Seen
           /\ CartOf(t).tab = t /\ CartOf(t).change = page[t].change
<1>1. page[t].content \in Contents /\ page[t].change \in Nat
  BY DEF CheckoutTypes
<1> QED
  BY <1>1 DEF CartOf, Seen

\* a request has a cart and a time
LEMMA RequestShape ==
    ASSUME CheckoutTypes, NEW t \in Tabs, NEW p \in Passes
    PROVE  /\ pass[t][p] \in PassStates
           /\ pass[t][p].step \in InWorker =>
                pass[t][p] \in [step : InWorker, cart : Seen, left : Int, stamp : Nat]
           /\ pass[t][p].step = "answered" => pass[t][p] \in [step : {"answered"}, left : Int]
BY DEF CheckoutTypes, PassStates, NoPass, InWorker

\* the changes that recommendations and requests are for are numbers
LEMMA ChangesAreNumbers ==
    ASSUME CheckoutTypes, NEW t \in Tabs
    PROVE  /\ page[t].change \in Nat
           /\ \A r \in session[t] \cup ReadFirst(t) : r.cart.change \in Nat
           /\ \A p \in Passes : pass[t][p].step \in InWorker => pass[t][p].cart.change \in Nat
<1>1. session[t] \subseteq Recommendations /\ page[t].change \in Nat
  BY DEF CheckoutTypes
<1>2. ReadFirst(t) \subseteq Recommendations
  <2>1. popup.step = "cached" => popup.fallback \subseteq Recommendations
    BY DEF CheckoutTypes, Closed
  <2> QED
    BY <2>1 DEF CheckoutTypes, ReadFirst
<1>3. \A r \in Recommendations : r.cart.change \in Nat
  BY DEF Recommendations, Seen
<1>4. \A p \in Passes : pass[t][p].step \in InWorker => pass[t][p].cart.change \in Nat
  BY RequestShape DEF Seen
<1> QED
  BY <1>1, <1>2, <1>3, <1>4

\* a request that goes on to another step keeps what it asks for
LEMMA GoesOn ==
    ASSUME CheckoutTypes, NEW t \in Tabs, NEW p \in Passes, NEW step \in InWorker,
           pass[t][p].step \in InWorker, Goes(t, p, step) \/ Stamped(t, p, step)
    PROVE  /\ pass' \in [Tabs -> [Passes -> PassStates]]
           /\ pass'[t][p].step = step /\ pass'[t][p].cart = pass[t][p].cart
           /\ \A u \in Tabs, q \in Passes : u # t \/ q # p => pass'[u][q] = pass[u][q]
<1>1. pass[t][p] \in [step : InWorker, cart : Seen, left : Int, stamp : Nat]
  BY RequestShape
<1>2. pass \in [Tabs -> [Passes -> PassStates]] /\ now \in Nat
  BY DEF CheckoutTypes
<1>3. PICK next \in [step : InWorker, cart : Seen, left : Int, stamp : Nat] :
        /\ next.step = step /\ next.cart = pass[t][p].cart
        /\ pass' = [pass EXCEPT ![t] = [pass[t] EXCEPT ![p] = next]]
  <2>1. CASE Goes(t, p, step)
    BY <1>1, <1>2, <2>1 DEF Goes
  <2>2. CASE Stamped(t, p, step)
    <3> DEFINE stepped == [pass EXCEPT ![t][p].step = step]
               next == [pass[t][p] EXCEPT !.step = step, !.stamp = now]
    <3>1. pass' = [stepped EXCEPT ![t][p].stamp = now]
      BY <2>2 DEF Stamped
    <3>2. stepped = [pass EXCEPT ![t] = [pass[t] EXCEPT ![p] = [pass[t][p] EXCEPT !.step = step]]]
      OBVIOUS
    <3>3. stepped[t][p] = [pass[t][p] EXCEPT !.step = step]
      BY <1>2
    <3>4. pass' = [stepped EXCEPT ![t] = [stepped[t] EXCEPT ![p] = next]]
      BY <3>1, <3>3
    <3>5. pass' = [pass EXCEPT ![t] = [pass[t] EXCEPT ![p] = next]]
      <4> HIDE DEF next
      <4> QED
        BY <1>2, <3>2, <3>4
    <3>6. /\ next \in [step : InWorker, cart : Seen, left : Int, stamp : Nat]
          /\ next.step = step /\ next.cart = pass[t][p].cart
      BY <1>1, <1>2
    <3> HIDE DEF next
    <3> QED
      BY <3>5, <3>6
  <2> QED
    BY <2>1, <2>2
<1>4. next \in PassStates
  BY DEF PassStates
<1> QED
  BY <1>2, <1>3, <1>4

\* an answer ends the request, and leaves the others alone
LEMMA AnswerEnds ==
    ASSUME CheckoutTypes, NEW t \in Tabs, NEW p \in Passes,
           pass[t][p].step \in InWorker, Answers(t, p)
    PROVE  /\ pass' \in [Tabs -> [Passes -> PassStates]]
           /\ pass'[t][p].step = "answered"
           /\ \A u \in Tabs, q \in Passes : u # t \/ q # p => pass'[u][q] = pass[u][q]
<1>1. pass[t][p] \in [step : InWorker, cart : Seen, left : Int, stamp : Nat]
  BY RequestShape
<1>2. pass \in [Tabs -> [Passes -> PassStates]]
  BY DEF CheckoutTypes
<1>3. Answered(pass[t][p]) \in PassStates /\ Answered(pass[t][p]).step = "answered"
  BY <1>1 DEF Answered, PassStates
<1>4. pass' = [pass EXCEPT ![t] = [pass[t] EXCEPT ![p] = Answered(pass[t][p])]]
  BY <1>2 DEF Answers
<1> HIDE DEF Answered
<1> QED
  BY <1>2, <1>3, <1>4

-----------------------------------------------------------------------------
(* What keeps the invariant of a tab                                       *)

\* whatever only ends requests, changes the page or gives excuses
LEMMA Narrows ==
    ASSUME CheckoutTypes, CheckoutTypes', NEW t \in Tabs, TabInv(t),
           page'[t].change >= page[t].change,
           session'[t] = session[t], ReadFirst(t)' \subseteq ReadFirst(t),
           "overlap" \in excuses[t] => "overlap" \in excuses'[t],
           \A p \in Passes : pass'[t][p].step \in InWorker =>
              /\ pass[t][p].step \in InWorker /\ pass'[t][p].cart = pass[t][p].cart
              /\ pass'[t][p].step \in Asking => pass[t][p].step \in Asking
              /\ pass'[t][p].step = "cache" => pass[t][p].step = "cache",
           excuses'[t] = {} =>
              /\ excuses[t] = {} /\ page'[t].change = page[t].change
              /\ \A p \in Passes : pass[t][p].step \in Asking => pass'[t][p].step \in Asking
    PROVE  TabInv(t)'
<1>1. page[t].change \in Nat /\ page'[t].change \in Nat
  BY DEF CheckoutTypes
<1>2. \A r \in session[t] \cup ReadFirst(t) : r.cart.change \in Nat
  BY ChangesAreNumbers
<1>3. \A p \in Passes : pass[t][p].step \in InWorker => pass[t][p].cart.change \in Nat
  BY ChangesAreNumbers
<1>4. Asking \subseteq InWorker /\ "cache" \in InWorker
  BY DEF Asking, InWorker
<1>5. NothingNewer(t)'
  BY <1>1, <1>2, <1>3 DEF TabInv, NothingNewer
<1>6. StoredInOrder(t)'
  BY <1>4 DEF TabInv, StoredInOrder
<1>7. CurrentIsAsked(t)'
  BY <1>4 DEF TabInv, CurrentIsAsked
<1> QED
  BY <1>5, <1>6, <1>7 DEF TabInv

\* a request for what the page shows now
LEMMA Asks ==
    ASSUME CheckoutTypes, CheckoutTypes', NEW t \in Tabs, TabInv(t), NEW p \in Passes,
           NEW cart, Sends(t, p, cart, pass'[t][p].left),
           cart.tab = t, cart.change = page'[t].change, page'[t].change >= page[t].change,
           session'[t] = session[t], ReadFirst(t)' \subseteq ReadFirst(t)
    PROVE  TabInv(t)'
<1> DEFINE others == \E q \in Passes \ {p} : pass[t][q].step \in InWorker
<1>1. page[t].change \in Nat /\ page'[t].change \in Nat
  BY DEF CheckoutTypes
<1>2. \A r \in session[t] \cup ReadFirst(t) : r.cart.change \in Nat
  BY ChangesAreNumbers
<1>3. \A q \in Passes : pass[t][q].step \in InWorker => pass[t][q].cart.change \in Nat
  BY ChangesAreNumbers
<1>4. Asking \subseteq InWorker /\ "cache" \in InWorker /\ "cache" \notin Asking
      /\ "gate" \in Asking
  BY DEF Asking, InWorker
<1>5. /\ pass'[t][p].step = "gate" /\ pass'[t][p].cart = cart
      /\ \A q \in Passes \ {p} : pass'[t][q] = pass[t][q]
  BY DEF Sends, CheckoutTypes
<1>6. excuses'[t] = IF others THEN {"overlap"} ELSE Lasting(t)
  BY DEF Sends, CheckoutTypes
<1>7. NothingNewer(t)'
  BY <1>1, <1>2, <1>3, <1>5 DEF TabInv, NothingNewer
<1>8. CASE others
  <2>1. excuses'[t] = {"overlap"}
    BY <1>6, <1>8
  <2> QED
    BY <1>7, <2>1 DEF TabInv, StoredInOrder, CurrentIsAsked
<1>9. CASE ~others
  <2>1. \A q \in Passes : pass'[t][q].step \in InWorker => q = p
    BY <1>5, <1>9
  <2>2. "overlap" \notin excuses'[t] => "overlap" \notin excuses[t]
    BY <1>6, <1>9 DEF Lasting
  <2>3. \A r \in session[t] \cup ReadFirst(t) : r.cart.change <= cart.change
    BY <1>1, <1>2 DEF TabInv, NothingNewer
  <2>4. StoredInOrder(t)'
    BY <1>4, <1>5, <2>1, <2>2, <2>3 DEF TabInv, StoredInOrder
  <2>5. CurrentIsAsked(t)'
    BY <1>4, <1>5, <2>1 DEF CurrentIsAsked
  <2> QED
    BY <1>7, <2>4, <2>5 DEF TabInv
<1> QED
  BY <1>8, <1>9

\* a tab that nothing happens to
LEMMA Undisturbed ==
    ASSUME CheckoutTypes, CheckoutTypes', NEW t \in Tabs, TabInv(t),
           page'[t] = page[t], session'[t] = session[t], excuses'[t] = excuses[t],
           \A p \in Passes : pass'[t][p] = pass[t][p],
           ReadFirst(t)' \subseteq ReadFirst(t)
    PROVE  TabInv(t)'
<1>1. page[t].change \in Nat
  BY DEF CheckoutTypes
<1> QED
  BY <1>1, Narrows

\* the popup, when it does nothing
LEMMA PopupStays ==
    ASSUME CheckoutTypes, PopupReads, PopupNeverGoesBack, popup' = popup,
           \A u \in Tabs : "overlap" \in excuses[u] => "overlap" \in excuses'[u]
    PROVE  PopupReads' /\ PopupNeverGoesBack'
<1>1. popup.step = "shown" => popup.tab \in Tabs
  BY DEF CheckoutTypes, Closed
<1> QED
  BY <1>1 DEF PopupReads, PopupNeverGoesBack

-----------------------------------------------------------------------------
(* The content script                                                      *)

\* sending touches one pass and one tab's excuses
LEMMA SendsEffect ==
    ASSUME CheckoutTypes, NEW t \in Tabs, NEW p \in Passes, NEW cart \in Seen,
           NEW left \in Int, Sends(t, p, cart, left)
    PROVE  /\ pass' \in [Tabs -> [Passes -> PassStates]]
           /\ excuses' \in [Tabs -> SUBSET {"unobserved", "empty", "throttled",
                                            "refused", "overlap"}]
           /\ pass'[t][p].left = left
           /\ \A u \in Tabs \ {t} : pass'[u] = pass[u] /\ excuses'[u] = excuses[u]
           /\ "overlap" \in excuses[t] => "overlap" \in excuses'[t]
<1> DEFINE request == [step |-> "gate", cart |-> cart, left |-> left, stamp |-> 0]
           sent == IF \E q \in Passes \ {p} : pass[t][q].step \in InWorker
                   THEN {"overlap"} ELSE Lasting(t)
<1>1. request \in PassStates /\ request.left = left
  BY DEF PassStates, InWorker
<1>2. /\ sent \in SUBSET {"unobserved", "empty", "throttled", "refused", "overlap"}
      /\ "overlap" \in excuses[t] => "overlap" \in sent
  BY DEF Lasting
<1>3. /\ pass' = [pass EXCEPT ![t] = [pass[t] EXCEPT ![p] = request]]
      /\ excuses' = [excuses EXCEPT ![t] = sent]
  BY DEF Sends
<1> HIDE DEF request, sent
<1> QED
  BY <1>1, <1>2, <1>3 DEF CheckoutTypes

\* a pass that takes the page as it is, or as it has just become
LEMMA CallbackStep ==
    ASSUME CheckoutInv, NEW t \in Tabs, NEW b \in Passes, NEW cart \in Seen,
           NEW left \in Int, Callback(t, b, cart, left),
           cart.tab = t, cart.change = page'[t].change,
           page' \in [Tabs -> [change : Nat, content : Contents]],
           page'[t].change >= page[t].change,
           \A u \in Tabs \ {t} : page'[u] = page[u],
           UNCHANGED <<now, session, cached, popup>>
    PROVE  CheckoutInv'
<1> USE DEF CheckoutInv
<1>1. ReadFirst(t)' = ReadFirst(t) /\ \A u \in Tabs : ReadFirst(u)' = ReadFirst(u)
  BY DEF ReadFirst
<1>2. CASE Sends(t, b, cart, left)
  <2>1. CheckoutTypes'
    BY <1>2, SendsEffect DEF CheckoutTypes
  <2>2. TabInv(t)'
    BY <1>1, <1>2, <2>1, SendsEffect, Asks
  <2>3. \A u \in Tabs \ {t} : TabInv(u)'
    BY <1>1, <1>2, <2>1, SendsEffect, Undisturbed
  <2>4. PopupReads' /\ PopupNeverGoesBack'
    BY <1>2, SendsEffect, PopupStays
  <2> QED
    BY <2>1, <2>2, <2>3, <2>4
<1>3. ASSUME ~Sends(t, b, cart, left) PROVE CheckoutInv'
  <2>1. PICK given \in SUBSET {"unobserved", "empty", "throttled", "refused", "overlap"} :
          /\ excuses' = [excuses EXCEPT ![t] = given]
          /\ given # {} /\ ("overlap" \in excuses[t] => "overlap" \in given)
    <3>1. excuses[t] \subseteq {"unobserved", "empty", "throttled", "refused", "overlap"}
      BY DEF CheckoutTypes
    <3>2. CASE excuses' = [excuses EXCEPT ![t] = Lasting(t) \cup {"empty"}]
      BY <3>1, <3>2 DEF Lasting
    <3>3. CASE excuses' = [excuses EXCEPT ![t] = excuses[t] \cup {"throttled"}]
      BY <3>1, <3>3
    <3> QED
      BY <1>3, <3>2, <3>3 DEF Callback
  <2>2. /\ excuses' \in [Tabs -> SUBSET {"unobserved", "empty", "throttled",
                                          "refused", "overlap"}]
        /\ excuses'[t] # {} /\ ("overlap" \in excuses[t] => "overlap" \in excuses'[t])
        /\ \A u \in Tabs \ {t} : excuses'[u] = excuses[u]
    BY <2>1 DEF CheckoutTypes
  <2>3. pass' = [pass EXCEPT ![t] = [pass[t] EXCEPT ![b] = NoPass]]
    BY <1>3 DEF Callback
  <2>4. /\ pass' \in [Tabs -> [Passes -> PassStates]]
        /\ pass'[t][b] = NoPass
        /\ \A u \in Tabs, q \in Passes : u # t \/ q # b => pass'[u][q] = pass[u][q]
    <3>1. NoPass \in PassStates
      BY DEF PassStates
    <3> QED
      BY <2>3, <3>1 DEF CheckoutTypes
  <2>5. CheckoutTypes'
    BY <2>2, <2>4 DEF CheckoutTypes
  <2>6. TabInv(t)'
    <3>1. \A p \in Passes : pass'[t][p].step \in InWorker => pass'[t][p] = pass[t][p]
      BY <2>4 DEF NoPass, InWorker
    <3> QED
      BY <1>1, <2>2, <2>5, <3>1, Narrows
  <2>7. \A u \in Tabs \ {t} : TabInv(u)'
    BY <1>1, <2>2, <2>4, <2>5, Undisturbed
  <2>8. PopupReads' /\ PopupNeverGoesBack'
    BY <2>2, PopupStays
  <2> QED
    BY <2>5, <2>6, <2>7, <2>8
<1> QED
  BY <1>2, <1>3

\* the page is loaded
LEMMA LoadStep ==
    ASSUME CheckoutInv, NEW t \in Tabs, Load(t)
    PROVE  CheckoutInv'
<1> USE DEF CheckoutInv
<1>1. /\ UNCHANGED <<now, page, session, cached, popup>>
      /\ "run" \in Passes
  BY DEF Load, Passes
<1>2. \A u \in Tabs : ReadFirst(u)' = ReadFirst(u)
  BY <1>1 DEF ReadFirst
<1>3. page[t].change \in Nat
  BY DEF CheckoutTypes
<1>4. CASE Sends(t, "run", CartOf(t), 0)
  <2>1. CartOf(t) \in Seen /\ CartOf(t).tab = t /\ CartOf(t).change = page'[t].change
    BY <1>1, CartIsSeen
  <2>2. CheckoutTypes'
    BY <1>1, <1>4, <2>1, SendsEffect DEF CheckoutTypes
  <2> HIDE DEF CheckoutInv
  <2>3. CheckoutTypes /\ TabInv(t) /\ pass'[t]["run"].left = 0
    BY <1>1, <1>4, <2>1, SendsEffect DEF CheckoutInv
  <2>4. TabInv(t)'
    BY <1>1, <1>2, <1>3, <1>4, <2>1, <2>2, <2>3, Asks
  <2>5. \A u \in Tabs \ {t} : TabInv(u)'
    BY <1>1, <1>2, <1>4, <2>1, <2>2, SendsEffect, Undisturbed DEF CheckoutInv
  <2>6. PopupReads' /\ PopupNeverGoesBack'
    BY <1>1, <1>4, <2>1, SendsEffect, PopupStays DEF CheckoutInv
  <2> QED
    BY <2>2, <2>4, <2>5, <2>6 DEF CheckoutInv
<1>5. CASE excuses' = [excuses EXCEPT ![t] = Lasting(t) \cup {"empty"}] /\ UNCHANGED pass
  <2>1. CheckoutTypes'
    BY <1>1, <1>5 DEF CheckoutTypes, Lasting
  <2>2. /\ excuses'[t] # {} /\ ("overlap" \in excuses[t] => "overlap" \in excuses'[t])
        /\ \A u \in Tabs \ {t} : excuses'[u] = excuses[u]
    BY <1>5 DEF CheckoutTypes, Lasting
  <2>3. TabInv(t)'
    BY <1>1, <1>2, <1>3, <1>5, <2>1, <2>2, Narrows
  <2>4. \A u \in Tabs \ {t} : TabInv(u)'
    BY <1>1, <1>2, <1>5, <2>1, <2>2, Undisturbed
  <2>5. PopupReads' /\ PopupNeverGoesBack'
    BY <1>1, <2>2, PopupStays
  <2> QED
    BY <2>1, <2>3, <2>4, <2>5
<1> QED
  BY <1>4, <1>5 DEF Load

\* the page changes, observed or not
LEMMA ChangeStep ==
    ASSUME CheckoutInv, NEW t \in Tabs, Change(t)
    PROVE  CheckoutInv'
<1> USE DEF CheckoutInv
<1>1. PICK c \in Contents :
        page' = [page EXCEPT ![t] = [change |-> page[t].change + 1, content |-> c]]
  BY DEF Change
<1>2. UNCHANGED <<now, session, cached, popup>>
  BY DEF Change
<1>3. /\ page[t].change \in Nat
      /\ page' \in [Tabs -> [change : Nat, content : Contents]]
      /\ page'[t].change = page[t].change + 1
      /\ \A u \in Tabs \ {t} : page'[u] = page[u]
  BY <1>1 DEF CheckoutTypes
<1>4. page'[t].change >= page[t].change
  BY <1>3
<1>5. CASE Observes(t)
  <2>1. PICK b \in Batches, n \in 1..MaxBatch : Callback(t, b, CartOf(t)', n - 1)
    BY <1>5 DEF Change
  <2>2. b \in Passes /\ n - 1 \in Int
    BY CheckoutAssumption DEF Passes
  <2>3. /\ CartOf(t)' \in Seen
        /\ CartOf(t)'.tab = t /\ CartOf(t)'.change = page'[t].change
    <3>1. page'[t].content \in Contents /\ page'[t].change \in Nat
      BY <1>3
    <3> QED
      BY <3>1 DEF CartOf, Seen
  <2> HIDE DEF CheckoutInv
  <2> QED
    BY <1>2, <1>3, <1>4, <2>1, <2>2, <2>3, CallbackStep
<1>6. CASE ~Observes(t)
  <2>1. /\ excuses' = [excuses EXCEPT ![t] = Lasting(t) \cup {"unobserved"}]
        /\ UNCHANGED pass
    BY <1>6 DEF Change
  <2>2. CheckoutTypes'
    BY <1>2, <1>3, <2>1 DEF CheckoutTypes, Lasting
  <2>3. /\ excuses'[t] # {} /\ ("overlap" \in excuses[t] => "overlap" \in excuses'[t])
        /\ \A u \in Tabs \ {t} : excuses'[u] = excuses[u]
    BY <2>1 DEF CheckoutTypes, Lasting
  <2>4. \A u \in Tabs : ReadFirst(u)' = ReadFirst(u)
    BY <1>2 DEF ReadFirst
  <2>5. TabInv(t)'
    BY <1>2, <1>4, <2>1, <2>2, <2>3, <2>4, Narrows
  <2>6. \A u \in Tabs \ {t} : TabInv(u)'
    BY <1>2, <1>3, <2>1, <2>2, <2>3, <2>4, Undisturbed
  <2>7. PopupReads' /\ PopupNeverGoesBack'
    BY <1>2, <2>3, PopupStays
  <2> QED
    BY <2>2, <2>5, <2>6, <2>7
<1> QED
  BY <1>5, <1>6

\* another page in the tab: what was asked for goes on in the worker
LEMMA NavigateStep ==
    ASSUME CheckoutInv, NEW t \in Tabs, Navigate(t)
    PROVE  CheckoutInv'
<1> USE DEF CheckoutInv
<1> DEFINE kept(p) == IF pass[t][p].step \in InWorker
                      THEN [pass[t][p] EXCEPT !.left = 0] ELSE NoPass
<1>1. PICK c \in Contents :
        page' = [page EXCEPT ![t] = [change |-> page[t].change + 1, content |-> c]]
  BY DEF Navigate
<1>2. /\ UNCHANGED <<now, session, cached, popup>>
      /\ pass' = [pass EXCEPT ![t] = [p \in Passes |-> kept(p)]]
      /\ excuses' = [excuses EXCEPT ![t] = Lasting(t) \cup {"unobserved"}]
  BY DEF Navigate
<1>3. /\ page[t].change \in Nat
      /\ page' \in [Tabs -> [change : Nat, content : Contents]]
      /\ page'[t].change = page[t].change + 1
      /\ \A u \in Tabs \ {t} : page'[u] = page[u]
  BY <1>1 DEF CheckoutTypes
<1>4. page'[t].change >= page[t].change
  BY <1>3
<1>5. ASSUME NEW p \in Passes
      PROVE  /\ kept(p) \in PassStates
             /\ kept(p).step \in InWorker =>
                    /\ pass[t][p].step \in InWorker
                    /\ kept(p).step = pass[t][p].step /\ kept(p).cart = pass[t][p].cart
  <2>1. CASE pass[t][p].step \in InWorker
    <3>1. pass[t][p] \in [step : InWorker, cart : Seen, left : Int, stamp : Nat]
      BY <2>1, RequestShape
    <3> QED
      BY <2>1, <3>1 DEF PassStates
  <2>2. CASE pass[t][p].step \notin InWorker
    BY <2>2 DEF PassStates, NoPass, InWorker
  <2> QED
    BY <2>1, <2>2
<1>6. /\ pass' \in [Tabs -> [Passes -> PassStates]]
      /\ \A u \in Tabs \ {t} : pass'[u] = pass[u]
      /\ \A p \in Passes : pass'[t][p] = kept(p)
  <2> HIDE DEF kept
  <2> QED
    BY <1>2, <1>5 DEF CheckoutTypes
<1>7. CheckoutTypes'
  BY <1>2, <1>3, <1>6 DEF CheckoutTypes, Lasting
<1>8. /\ excuses'[t] # {} /\ ("overlap" \in excuses[t] => "overlap" \in excuses'[t])
      /\ \A u \in Tabs \ {t} : excuses'[u] = excuses[u]
  BY <1>2 DEF CheckoutTypes, Lasting
<1>9. \A u \in Tabs : ReadFirst(u)' = ReadFirst(u)
  BY <1>2 DEF ReadFirst
<1>10. TabInv(t)'
  <2> HIDE DEF kept
  <2> QED
    BY <1>2, <1>4, <1>5, <1>6, <1>7, <1>8, <1>9, Narrows
<1>11. \A u \in Tabs \ {t} : TabInv(u)'
  BY <1>2, <1>3, <1>6, <1>7, <1>8, <1>9, Undisturbed
<1>12. PopupReads' /\ PopupNeverGoesBack'
  BY <1>2, <1>8, PopupStays
<1> QED
  BY <1>7, <1>10, <1>11, <1>12

\* the answer is there: the next mutation, or the end
LEMMA ResumeStep ==
    ASSUME CheckoutInv, NEW t \in Tabs, NEW p \in Passes, Resume(t, p)
    PROVE  CheckoutInv'
<1> USE DEF CheckoutInv
<1>1. /\ UNCHANGED <<now, page, session, cached, popup>>
      /\ pass[t][p].step = "answered"
  BY DEF Resume
<1>2. page[t].change \in Nat /\ page \in [Tabs -> [change : Nat, content : Contents]]
  BY DEF CheckoutTypes
<1>3. CASE pass[t][p].left > 0
  <2>1. Callback(t, p, CartOf(t), pass[t][p].left - 1)
    BY <1>3 DEF Resume
  <2>2. pass[t][p].left - 1 \in Int
    BY <1>1, RequestShape
  <2>3. CartOf(t) \in Seen /\ CartOf(t).tab = t /\ CartOf(t).change = page'[t].change
    BY <1>1, CartIsSeen
  <2> HIDE DEF CheckoutInv
  <2> QED
    BY <1>1, <1>2, <2>1, <2>2, <2>3, CallbackStep
<1>4. CASE ~(pass[t][p].left > 0)
  <2>1. pass' = [pass EXCEPT ![t] = [pass[t] EXCEPT ![p] = NoPass]] /\ UNCHANGED excuses
    BY <1>4 DEF Resume, Finished
  <2>2. /\ pass' \in [Tabs -> [Passes -> PassStates]]
        /\ pass'[t][p] = NoPass
        /\ \A u \in Tabs, q \in Passes : u # t \/ q # p => pass'[u][q] = pass[u][q]
    <3>1. NoPass \in PassStates
      BY DEF PassStates
    <3> QED
      BY <2>1, <3>1 DEF CheckoutTypes
  <2>3. CheckoutTypes'
    BY <1>1, <2>1, <2>2 DEF CheckoutTypes
  <2>4. \A u \in Tabs : ReadFirst(u)' = ReadFirst(u)
    BY <1>1 DEF ReadFirst
  <2>5. TabInv(t)'
    <3>1. /\ \A q \in Passes : pass'[t][q].step \in InWorker => pass'[t][q] = pass[t][q]
          /\ \A q \in Passes : pass[t][q].step \in Asking => pass'[t][q] = pass[t][q]
      BY <1>1, <2>2 DEF NoPass, InWorker, Asking
    <3> QED
      BY <1>1, <1>2, <2>1, <2>3, <2>4, <3>1, Narrows
  <2>6. \A u \in Tabs \ {t} : TabInv(u)'
    BY <1>1, <2>1, <2>2, <2>3, <2>4, Undisturbed
  <2>7. PopupReads' /\ PopupNeverGoesBack'
    BY <1>1, <2>1, PopupStays
  <2> QED
    BY <2>3, <2>5, <2>6, <2>7
<1> QED
  BY <1>3, <1>4

-----------------------------------------------------------------------------
(* The worker                                                              *)

\* an excuse more for one tab
LEMMA RefusedExcuses ==
    ASSUME CheckoutTypes, NEW t \in Tabs,
           excuses' = [excuses EXCEPT ![t] = @ \cup {"refused"}]
    PROVE  /\ excuses' \in [Tabs -> SUBSET {"unobserved", "empty", "throttled",
                                            "refused", "overlap"}]
           /\ excuses'[t] # {}
           /\ \A u \in Tabs : "overlap" \in excuses[u] => "overlap" \in excuses'[u]
           /\ \A u \in Tabs \ {t} : excuses'[u] = excuses[u]
<1> DEFINE given == excuses[t] \cup {"refused"}
<1>1. /\ given \in SUBSET {"unobserved", "empty", "throttled", "refused", "overlap"}
      /\ given # {} /\ ("overlap" \in excuses[t] => "overlap" \in given)
  BY DEF CheckoutTypes
<1>2. excuses' = [excuses EXCEPT ![t] = given]
  OBVIOUS
<1> HIDE DEF given
<1> QED
  BY <1>1, <1>2 DEF CheckoutTypes

\* a request is refused, at whatever step
LEMMA RefusedStep ==
    ASSUME CheckoutInv, NEW t \in Tabs, NEW p \in Passes, pass[t][p].step \in InWorker,
           Refused(t, p), UNCHANGED <<now, page, session, cached, popup>>
    PROVE  CheckoutInv'
<1> USE DEF CheckoutInv
<1>1. Answers(t, p) /\ excuses' = [excuses EXCEPT ![t] = @ \cup {"refused"}]
  BY DEF Refused
<1>2. CheckoutTypes'
  BY <1>1, AnswerEnds, RefusedExcuses DEF CheckoutTypes
<1>3. \A u \in Tabs : ReadFirst(u)' = ReadFirst(u)
  BY DEF ReadFirst
<1>4. TabInv(t)'
  <2>1. \A q \in Passes : pass'[t][q].step \in InWorker => pass'[t][q] = pass[t][q]
    BY <1>1, AnswerEnds DEF InWorker
  <2>2. page'[t].change >= page[t].change
    BY DEF CheckoutTypes
  <2> QED
    BY <1>1, <1>2, <1>3, <2>1, <2>2, RefusedExcuses, Narrows
<1>5. \A u \in Tabs \ {t} : TabInv(u)'
  BY <1>1, <1>2, <1>3, AnswerEnds, RefusedExcuses, Undisturbed
<1>6. PopupReads' /\ PopupNeverGoesBack'
  BY <1>1, RefusedExcuses, PopupStays
<1> QED
  BY <1>2, <1>4, <1>5, <1>6

\* a request goes on, and has not been stored yet
LEMMA AdvanceStep ==
    ASSUME CheckoutInv, NEW t \in Tabs, NEW p \in Passes, pass[t][p].step \in Asking,
           NEW step \in Asking \cup {"stuck"}, Goes(t, p, step) \/ Stamped(t, p, step),
           \/ step \in Asking /\ excuses' = excuses
           \/ excuses' = [excuses EXCEPT ![t] = @ \cup {"refused"}],
           UNCHANGED <<now, page, session, cached, popup>>
    PROVE  CheckoutInv'
<1> USE DEF CheckoutInv
<1>1. /\ step \in InWorker /\ pass[t][p].step \in InWorker
      /\ step # "cache" /\ "cache" \notin Asking
  BY DEF Asking, InWorker
<1>2. /\ pass' \in [Tabs -> [Passes -> PassStates]]
      /\ pass'[t][p].step = step /\ pass'[t][p].cart = pass[t][p].cart
      /\ \A u \in Tabs, q \in Passes : u # t \/ q # p => pass'[u][q] = pass[u][q]
  BY <1>1, GoesOn
<1>3. /\ excuses' \in [Tabs -> SUBSET {"unobserved", "empty", "throttled",
                                       "refused", "overlap"}]
      /\ excuses'[t] = {} => excuses[t] = {} /\ step \in Asking
      /\ \A u \in Tabs : "overlap" \in excuses[u] => "overlap" \in excuses'[u]
      /\ \A u \in Tabs \ {t} : excuses'[u] = excuses[u]
  BY RefusedExcuses DEF CheckoutTypes
<1>4. CheckoutTypes'
  BY <1>2, <1>3 DEF CheckoutTypes
<1>5. \A u \in Tabs : ReadFirst(u)' = ReadFirst(u)
  BY DEF ReadFirst
<1>6. TabInv(t)'
  <2>1. \A q \in Passes : pass'[t][q].step \in InWorker =>
            /\ pass[t][q].step \in InWorker /\ pass'[t][q].cart = pass[t][q].cart
            /\ pass'[t][q].step \in Asking => pass[t][q].step \in Asking
            /\ pass'[t][q].step = "cache" => pass[t][q].step = "cache"
    BY <1>1, <1>2
  <2>2. step \in Asking =>
            \A q \in Passes : pass[t][q].step \in Asking => pass'[t][q].step \in Asking
    BY <1>2
  <2>3. page'[t].change >= page[t].change
    BY DEF CheckoutTypes
  <2> QED
    BY <1>3, <1>4, <1>5, <2>1, <2>2, <2>3, Narrows
<1>7. \A u \in Tabs \ {t} : TabInv(u)'
  BY <1>2, <1>3, <1>4, <1>5, Undisturbed
<1>8. PopupReads' /\ PopupNeverGoesBack'
  BY <1>3, PopupStays
<1> QED
  BY <1>4, <1>6, <1>7, <1>8

\* the rate limit, the profile, and a read that never ends
LEMMA GateStep ==
    ASSUME CheckoutInv, NEW t \in Tabs, NEW p \in Passes,
           Gate(t, p) \/ GateNeverAnswers(t, p) \/ LoadProfile(t, p)
    PROVE  CheckoutInv'
<1>1. /\ pass[t][p].step \in Asking /\ pass[t][p].step \in InWorker
      /\ UNCHANGED <<now, page, session, cached, popup>>
  BY DEF Gate, GateNeverAnswers, LoadProfile, At, Asking, InWorker
<1>2. CASE Refused(t, p)
  BY <1>1, <1>2, RefusedStep
<1>3. CASE Goes(t, p, "profile") /\ UNCHANGED excuses
  <2>1. "profile" \in Asking
    BY DEF Asking
  <2> QED
    BY <1>1, <1>3, <2>1, AdvanceStep
<1>4. CASE Stamped(t, p, "session") /\ UNCHANGED excuses
  <2>1. "session" \in Asking
    BY DEF Asking
  <2> QED
    BY <1>1, <1>4, <2>1, AdvanceStep
<1>5. CASE Goes(t, p, "stuck") /\ excuses' = [excuses EXCEPT ![t] = @ \cup {"refused"}]
  BY <1>1, <1>5, AdvanceStep
<1> QED
  BY <1>2, <1>3, <1>4, <1>5 DEF Gate, GateNeverAnswers, LoadProfile

\* what is recommended is for the cart that was asked about
LEMMA RecommendationShape ==
    ASSUME CheckoutTypes, NEW t \in Tabs, NEW p \in Passes, pass[t][p].step \in InWorker
    PROVE  /\ Recommendation(t, p) \in Recommendations
           /\ Recommendation(t, p).cart = pass[t][p].cart
<1>1. pass[t][p] \in [step : InWorker, cart : Seen, left : Int, stamp : Nat]
  BY RequestShape
<1> QED
  BY <1>1 DEF Recommendation, Recommendations

\* the tab gets its recommendation
LEMMA StoreSessionStep ==
    ASSUME CheckoutInv, NEW t \in Tabs, NEW p \in Passes, pass[t][p].step = "session",
           session' = [session EXCEPT ![t] = {Recommendation(t, p)}],
           Stamped(t, p, "cache"), UNCHANGED <<now, page, cached, popup, excuses>>
    PROVE  CheckoutInv'
<1> USE DEF CheckoutInv
<1> DEFINE stored == Recommendation(t, p)
<1>1. /\ pass[t][p].step \in InWorker /\ "session" \in Asking /\ "cache" \in InWorker
      /\ "cache" \notin Asking /\ Asking \subseteq InWorker
  BY DEF InWorker, Asking
<1>2. stored \in Recommendations /\ stored.cart = pass[t][p].cart
  BY <1>1, RecommendationShape
<1> HIDE DEF stored
<1>3. /\ session' \in [Tabs -> SUBSET Recommendations]
      /\ session'[t] = {stored} /\ \A u \in Tabs \ {t} : session'[u] = session[u]
  BY <1>2 DEF CheckoutTypes, stored
<1>4. /\ pass' \in [Tabs -> [Passes -> PassStates]]
      /\ pass'[t][p].step = "cache" /\ pass'[t][p].cart = pass[t][p].cart
      /\ \A u \in Tabs, q \in Passes : u # t \/ q # p => pass'[u][q] = pass[u][q]
  BY <1>1, GoesOn
<1>5. CheckoutTypes'
  BY <1>3, <1>4 DEF CheckoutTypes
<1>6. \A u \in Tabs : ReadFirst(u)' = ReadFirst(u)
  BY DEF ReadFirst
<1>7. NothingNewer(t)'
  <2>1. stored.cart.tab = t /\ stored.cart.change <= page[t].change
    BY <1>1, <1>2 DEF TabInv, NothingNewer
  <2>2. \A r \in session'[t] \cup ReadFirst(t)' : r.cart.change <= page'[t].change
    BY <1>3, <1>6, <2>1, ZenonT(60) DEF TabInv, NothingNewer
  <2>3. \A q \in Passes : pass'[t][q].step \in InWorker =>
            pass[t][q].step \in InWorker /\ pass'[t][q].cart = pass[t][q].cart
    BY <1>1, <1>4
  <2>4. \A q \in Passes : pass'[t][q].step \in InWorker =>
            pass'[t][q].cart.tab = t /\ pass'[t][q].cart.change <= page'[t].change
    BY <2>3 DEF TabInv, NothingNewer
  <2> QED
    BY <1>3, <2>1, <2>2, <2>4 DEF NothingNewer
<1>8. StoredInOrder(t)'
  <2> SUFFICES ASSUME "overlap" \notin excuses[t] PROVE StoredInOrder(t)'
    BY DEF StoredInOrder
  <2>1. \A q \in Passes : pass[t][q].step \in InWorker => q = p
    BY <1>1 DEF TabInv, StoredInOrder
  <2>2. \A q \in Passes : pass'[t][q].step \in InWorker => q = p
    BY <1>4, <2>1
  <2>3. \A f \in ReadFirst(t) : f.cart.change <= stored.cart.change
    BY <1>1, <1>2 DEF TabInv, StoredInOrder
  <2>4. \A q \in Passes : pass'[t][q].step \notin Asking
    BY <1>1, <1>4, <2>2
  <2> QED
    BY <1>1, <1>2, <1>3, <1>4, <1>6, <2>2, <2>3, <2>4, ZenonT(60) DEF StoredInOrder
<1>9. CurrentIsAsked(t)'
  <2> SUFFICES ASSUME excuses[t] = {} PROVE CurrentIsAsked(t)'
    BY DEF CurrentIsAsked
  <2>1. stored.cart.change = page'[t].change
    BY <1>1, <1>2 DEF TabInv, CurrentIsAsked
  <2>2. \A q \in Passes : pass'[t][q].step \in Asking =>
            pass'[t][q].cart.change = page'[t].change
    BY <1>1, <1>4 DEF TabInv, CurrentIsAsked
  <2>3. \E r \in session'[t] : r.cart.change = page'[t].change
    BY <1>3, <2>1
  <2> QED
    BY <2>2, <2>3 DEF CurrentIsAsked
<1>10. \A u \in Tabs \ {t} : TabInv(u)'
  BY <1>3, <1>4, <1>5, <1>6, Undisturbed
<1>11. PopupReads' /\ PopupNeverGoesBack'
  BY PopupStays
<1> QED
  BY <1>5, <1>7, <1>8, <1>9, <1>10, <1>11 DEF TabInv

\* the fallback is written, or not, and the page is answered
LEMMA StoreCacheStep ==
    ASSUME CheckoutInv, NEW t \in Tabs, NEW p \in Passes, pass[t][p].step = "cache",
           cached' = {Recommendation(t, p)} \/ UNCHANGED cached,
           Answers(t, p), UNCHANGED <<now, page, session, popup, excuses>>
    PROVE  CheckoutInv'
<1> USE DEF CheckoutInv
<1> DEFINE stored == Recommendation(t, p)
<1>1. /\ pass[t][p].step \in InWorker /\ "cache" \in InWorker /\ "answered" \notin InWorker
      /\ "cache" \notin Asking /\ Asking \subseteq InWorker
  BY DEF InWorker, Asking
<1>2. stored \in Recommendations /\ stored.cart = pass[t][p].cart
  BY <1>1, RecommendationShape
<1>3. /\ pass' \in [Tabs -> [Passes -> PassStates]]
      /\ pass'[t][p].step = "answered"
      /\ \A u \in Tabs, q \in Passes : u # t \/ q # p => pass'[u][q] = pass[u][q]
  BY <1>1, AnswerEnds
<1>4. cached' = {stored} \/ cached' = cached
  OBVIOUS
<1> HIDE DEF stored
<1>5. CheckoutTypes'
  BY <1>2, <1>3, <1>4 DEF CheckoutTypes
<1>6. stored.cart.tab = t
  BY <1>1, <1>2 DEF TabInv, NothingNewer
<1>7. /\ ReadFirst(t)' \subseteq ReadFirst(t) \cup {stored}
      /\ \A u \in Tabs \ {t} : ReadFirst(u)' \subseteq ReadFirst(u)
  BY <1>4, <1>6 DEF ReadFirst
<1>8. NothingNewer(t)'
  BY <1>1, <1>2, <1>3, <1>7 DEF TabInv, NothingNewer
<1>9. StoredInOrder(t)'
  <2> SUFFICES ASSUME "overlap" \notin excuses[t] PROVE StoredInOrder(t)'
    BY DEF StoredInOrder
  <2>1. \A q \in Passes : pass'[t][q].step \notin InWorker
    BY <1>1, <1>3 DEF TabInv, StoredInOrder
  <2>2. \A r \in session[t] : stored.cart.change <= r.cart.change
    <3>1. \A r \in session[t] : r.cart.change = stored.cart.change /\ r.cart.change \in Nat
      BY <1>2, ChangesAreNumbers DEF TabInv, StoredInOrder
    <3> QED
      BY <3>1
  <2>3. \A r \in session[t], f \in ReadFirst(t)' : f.cart.change <= r.cart.change
    BY <1>7, <2>2 DEF TabInv, StoredInOrder
  <2> QED
    BY <1>1, <2>1, <2>3 DEF StoredInOrder
<1>10. CurrentIsAsked(t)'
  BY <1>1, <1>3 DEF TabInv, CurrentIsAsked
<1>11. \A u \in Tabs \ {t} : TabInv(u)'
  BY <1>3, <1>5, <1>7, Undisturbed
<1>12. PopupReads' /\ PopupNeverGoesBack'
  BY PopupStays
<1> QED
  BY <1>5, <1>8, <1>9, <1>10, <1>11, <1>12 DEF TabInv

\* storage, in the order the handler uses it
LEMMA StoreStep ==
    ASSUME CheckoutInv, NEW t \in Tabs, NEW p \in Passes, Store(t, p)
    PROVE  CheckoutInv'
<1>1. UNCHANGED <<now, page, popup>>
  BY DEF Store
<1>2. CASE At(t, p, "session")
  <2>1. pass[t][p].step \in InWorker /\ pass[t][p].step = "session" /\ UNCHANGED cached
    BY <1>2 DEF Store, At, InWorker
  <2>2. CASE Refused(t, p) /\ UNCHANGED session
    BY <1>1, <2>1, <2>2, RefusedStep
  <2>3. CASE /\ session' = [session EXCEPT ![t] = {Recommendation(t, p)}]
             /\ Stamped(t, p, "cache") /\ UNCHANGED excuses
    BY <1>1, <2>1, <2>3, StoreSessionStep
  <2> QED
    BY <1>2, <2>2, <2>3 DEF Store, At
<1>3. CASE At(t, p, "cache")
  <2>1. /\ pass[t][p].step = "cache"
        /\ cached' = {Recommendation(t, p)} \/ UNCHANGED cached
        /\ Answers(t, p) /\ UNCHANGED <<session, excuses>>
    BY <1>3 DEF Store, At
  <2> QED
    BY <1>1, <2>1, StoreCacheStep
<1> QED
  BY <1>2, <1>3 DEF Store

\* another tab's recommendation replaces the fallback
LEMMA ElsewhereStep ==
    ASSUME CheckoutInv, Elsewhere
    PROVE  CheckoutInv'
<1> USE DEF CheckoutInv
<1>1. UNCHANGED <<now, page, pass, session, popup, excuses>>
  BY DEF Elsewhere
<1>2. PICK r \in Recommendations : cached' = {r} /\ r.cart.tab = OtherTab
  <2> DEFINE cart == [tab |-> OtherTab, change |-> 0, merchantId |-> "other",
                      currency |-> "INR", total |-> MinorUnits(1)]
  <2>1. cart \in Seen /\ cart.tab = OtherTab
    BY DEF Seen
  <2>2. cached' = {[cart |-> cart, at |-> now]} /\ now \in Nat
    BY DEF Elsewhere, CheckoutTypes
  <2> HIDE DEF cart
  <2> DEFINE r == [cart |-> cart, at |-> now]
  <2>3. r \in Recommendations /\ r.cart.tab = OtherTab
    BY <2>1, <2>2 DEF Recommendations
  <2>4. cached' = {r}
    BY <2>2
  <2> HIDE DEF r
  <2> QED
    BY <2>3, <2>4
<1>3. CheckoutTypes'
  BY <1>1, <1>2 DEF CheckoutTypes
<1>4. \A u \in Tabs : ReadFirst(u)' \subseteq ReadFirst(u)
  BY <1>1, <1>2, CheckoutAssumption DEF ReadFirst
<1>5. \A u \in Tabs : TabInv(u)'
  BY <1>1, <1>3, <1>4, Undisturbed
<1>6. PopupReads' /\ PopupNeverGoesBack'
  BY <1>1, PopupStays
<1> QED
  BY <1>3, <1>5, <1>6

\* the worker dies: its requests end, each with an excuse for its tab
LEMMA WorkerRestartsStep ==
    ASSUME CheckoutInv, WorkerRestarts
    PROVE  CheckoutInv'
<1> USE DEF CheckoutInv
<1> DEFINE left(t, p) == IF pass[t][p].step \in InWorker
                         THEN Answered(pass[t][p]) ELSE pass[t][p]
           given(t) == IF \E p \in Passes : pass[t][p].step \in InWorker
                       THEN excuses[t] \cup {"refused"} ELSE excuses[t]
<1>1. /\ UNCHANGED <<now, page, session, cached, popup>>
      /\ pass' = [t \in Tabs |-> [p \in Passes |-> left(t, p)]]
      /\ excuses' = [t \in Tabs |-> given(t)]
  BY DEF WorkerRestarts
<1>2. ASSUME NEW t \in Tabs, NEW p \in Passes
      PROVE  left(t, p) \in PassStates /\ left(t, p).step \notin InWorker
  <2>1. CASE pass[t][p].step \in InWorker
    <3>1. pass[t][p] \in [step : InWorker, cart : Seen, left : Int, stamp : Nat]
      BY <2>1, RequestShape
    <3> QED
      BY <2>1, <3>1 DEF Answered, PassStates, InWorker
  <2>2. CASE pass[t][p].step \notin InWorker
    BY <2>2, RequestShape
  <2> QED
    BY <2>1, <2>2
<1>3. ASSUME NEW t \in Tabs
      PROVE  /\ given(t) \in SUBSET {"unobserved", "empty", "throttled", "refused", "overlap"}
             /\ "overlap" \in excuses[t] => "overlap" \in given(t)
             /\ given(t) = {} =>
                    excuses[t] = {} /\ \A p \in Passes : pass[t][p].step \notin InWorker
  BY DEF CheckoutTypes
<1> HIDE DEF left, given
<1>4. CheckoutTypes'
  BY <1>1, <1>2, <1>3 DEF CheckoutTypes
<1>5. \A u \in Tabs : ReadFirst(u)' = ReadFirst(u)
  BY <1>1 DEF ReadFirst
<1>6. ASSUME NEW t \in Tabs PROVE TabInv(t)'
  <2>1. \A p \in Passes : pass'[t][p].step \notin InWorker
    BY <1>1, <1>2
  <2>2. excuses'[t] = {} =>
            /\ excuses[t] = {}
            /\ \A p \in Passes : pass[t][p].step \in Asking => pass'[t][p].step \in Asking
    BY <1>1, <1>3 DEF Asking, InWorker
  <2>3. page'[t].change >= page[t].change
    BY <1>1 DEF CheckoutTypes
  <2>4. "overlap" \in excuses[t] => "overlap" \in excuses'[t]
    BY <1>1, <1>3
  <2> QED
    BY <1>1, <1>4, <1>5, <2>1, <2>2, <2>3, <2>4, Narrows
<1>7. PopupReads' /\ PopupNeverGoesBack'
  BY <1>1, <1>3, PopupStays
<1> QED
  BY <1>4, <1>6, <1>7

\* the browser is closed and opened
LEMMA BrowserRestartsStep ==
    ASSUME CheckoutInv, BrowserRestarts
    PROVE  CheckoutInv'
<1> USE DEF CheckoutInv
<1>1. /\ UNCHANGED <<now, page, cached>> /\ popup' = Closed
      /\ pass' = [t \in Tabs |-> [p \in Passes |-> NoPass]]
      /\ session' = [t \in Tabs |-> {}] /\ excuses' = [t \in Tabs |-> {"unobserved"}]
  BY DEF BrowserRestarts
<1>2. CheckoutTypes'
  BY <1>1 DEF CheckoutTypes, PassStates
<1>3. \A u \in Tabs : ReadFirst(u)' \subseteq ReadFirst(u)
  BY <1>1 DEF ReadFirst, Closed
<1>4. ASSUME NEW t \in Tabs PROVE TabInv(t)'
  <2>1. /\ \A p \in Passes : pass'[t][p].step \notin InWorker \cup Asking \cup {"cache"}
        /\ session'[t] = {} /\ excuses'[t] # {}
    BY <1>1 DEF NoPass, InWorker, Asking
  <2>2. \A r \in ReadFirst(t)' : r.cart.change <= page'[t].change
    BY <1>1, <1>3 DEF TabInv, NothingNewer
  <2> QED
    BY <2>1, <2>2 DEF TabInv, NothingNewer, StoredInOrder, CurrentIsAsked
<1>5. PopupReads' /\ PopupNeverGoesBack'
  BY <1>1 DEF PopupReads, PopupNeverGoesBack, Closed
<1> QED
  BY <1>2, <1>4, <1>5

-----------------------------------------------------------------------------
(* The popup                                                               *)

\* what the popup does changes nothing of the tabs
LEMMA PopupSteps ==
    ASSUME CheckoutInv,
           \/ \E t \in Tabs : OpenPopup(t)
           \/ ReadCached \/ ReadSession \/ LoadFails \/ ClosePopup
    PROVE  CheckoutInv'
<1> USE DEF CheckoutInv
<1>1. UNCHANGED <<now, page, pass, session, cached, excuses>>
  BY DEF OpenPopup, ReadCached, ReadSession, LoadFails, ClosePopup
<1>2. popup.step # "closed" =>
        popup \in [step : {"opened", "cached", "shown"}, tab : Tabs,
                   fallback : SUBSET Recommendations, shown : SUBSET Recommendations]
  BY DEF CheckoutTypes, Closed
<1>3. SUFFICES /\ CheckoutTypes' /\ PopupReads' /\ PopupNeverGoesBack'
               /\ \A t \in Tabs : ReadFirst(t)' \subseteq ReadFirst(t)
  BY <1>1, Undisturbed
<1>4. CASE ClosePopup \/ \E t \in Tabs : OpenPopup(t)
  <2>1. \/ popup' = Closed
        \/ \E t \in Tabs : popup' = [step |-> "opened", tab |-> t,
                                     fallback |-> {}, shown |-> {}]
    BY <1>4 DEF ClosePopup, OpenPopup
  <2> QED
    BY <1>1, <2>1 DEF CheckoutTypes, PopupReads, PopupNeverGoesBack, ReadFirst, Closed
<1>5. CASE ReadCached
  <2>1. /\ popup \in [step : {"opened"}, tab : Tabs,
                      fallback : SUBSET Recommendations, shown : SUBSET Recommendations]
        /\ popup' = [popup EXCEPT !.step = "cached", !.fallback = Fresh(cached, CacheTtl),
                                  !.shown = Fresh(cached, CacheTtl)]
    BY <1>2, <1>5 DEF ReadCached
  <2>2. Fresh(cached, CacheTtl) \subseteq cached
    BY DEF Fresh
  <2>3. popup' = [step |-> "cached", tab |-> popup.tab, fallback |-> Fresh(cached, CacheTtl),
                  shown |-> Fresh(cached, CacheTtl)]
    BY <2>1
  <2> QED
    BY <1>1, <2>1, <2>2, <2>3
       DEF CheckoutTypes, PopupReads, PopupNeverGoesBack, ReadFirst
<1>6. CASE ReadSession
  <2> DEFINE own == Fresh(session[popup.tab], SessionTtl)
             shown == IF own = {} THEN popup.shown ELSE own
  <2>1. /\ popup \in [step : {"cached"}, tab : Tabs,
                      fallback : SUBSET Recommendations, shown : SUBSET Recommendations]
        /\ popup' = [popup EXCEPT !.step = "shown", !.shown = shown]
    BY <1>2, <1>6 DEF ReadSession
  <2>2. own \subseteq session[popup.tab]
    BY DEF Fresh
  <2> HIDE DEF own
  <2>3. shown \subseteq Recommendations
    BY <2>1, <2>2 DEF CheckoutTypes
  <2>4. ASSUME "overlap" \notin excuses[popup.tab], NEW f \in popup.fallback,
               f.cart.tab = popup.tab
        PROVE  \E r \in shown : r.cart.tab = popup.tab /\ r.cart.change >= f.cart.change
    <3>1. f \in ReadFirst(popup.tab) /\ popup.tab \in Tabs /\ f.cart.change \in Nat
      BY <2>1, <2>4, ChangesAreNumbers DEF ReadFirst
    <3>2. CASE own = {}
      BY <2>1, <2>4, <3>1, <3>2 DEF PopupReads
    <3>3. CASE own # {}
      <4>1. PICK r \in own : r \in session[popup.tab]
        BY <2>2, <3>3
      <4>2. r.cart.tab = popup.tab /\ f.cart.change <= r.cart.change
        BY <2>4, <3>1, <4>1 DEF TabInv, NothingNewer, StoredInOrder
      <4>3. r.cart.change \in Nat
        BY <3>1, <4>1, ChangesAreNumbers
      <4> QED
        BY <3>1, <3>3, <4>1, <4>2, <4>3
    <3> QED
      BY <3>2, <3>3
  <2> HIDE DEF shown
  <2>5. popup' = [step |-> "shown", tab |-> popup.tab, fallback |-> popup.fallback,
                  shown |-> shown]
    BY <2>1
  <2>6. PopupNeverGoesBack'
    BY <1>1, <2>4, <2>5 DEF PopupNeverGoesBack
  <2> QED
    BY <1>1, <2>1, <2>3, <2>5, <2>6 DEF CheckoutTypes, PopupReads, ReadFirst
<1>7. CASE LoadFails
  <2>1. /\ popup \in [step : {"opened", "cached"}, tab : Tabs,
                      fallback : SUBSET Recommendations, shown : SUBSET Recommendations]
        /\ popup' = [popup EXCEPT !.step = "shown"]
    BY <1>2, <1>7 DEF LoadFails
  <2>2. popup' = [step |-> "shown", tab |-> popup.tab, fallback |-> popup.fallback,
                  shown |-> popup.shown]
    BY <2>1
  <2>3. \A f \in popup.fallback : f \in popup.shown /\ f.cart.change \in Nat
    BY <2>1 DEF PopupReads, Recommendations, Seen
  <2>4. PopupNeverGoesBack'
    BY <2>2, <2>3 DEF PopupNeverGoesBack
  <2> QED
    BY <1>1, <2>1, <2>2, <2>4 DEF CheckoutTypes, PopupReads, ReadFirst
<1> QED
  BY <1>4, <1>5, <1>6, <1>7

-----------------------------------------------------------------------------
(***************************************************************************)
(* The inductive invariant of the checkout: whatever pages show and        *)
(* however passes, restarts and the popup interleave.                      *)
(***************************************************************************)
THEOREM CheckoutInvariance == Spec => []CheckoutInv
<1>1. Init => CheckoutInv
  <2> SUFFICES ASSUME Init PROVE CheckoutInv
    OBVIOUS
  <2>1. CheckoutTypes
    BY CheckoutAssumption DEF Init, CheckoutTypes, PassStates
  <2>2. PopupReads /\ PopupNeverGoesBack
    BY DEF Init, PopupReads, PopupNeverGoesBack, Closed
  <2>3. ASSUME NEW t \in Tabs PROVE TabInv(t)
    <3>1. /\ \A p \in Passes : pass[t][p].step = "idle"
          /\ session[t] = {} /\ ReadFirst(t) = {} /\ excuses[t] # {}
      BY DEF Init, NoPass, ReadFirst, Closed
    <3>2. "idle" \notin InWorker \cup Asking \cup {"cache"}
      BY DEF InWorker, Asking
    <3> QED
      BY <3>1, <3>2 DEF TabInv, NothingNewer, StoredInOrder, CurrentIsAsked
  <2> QED
    BY <2>1, <2>2, <2>3 DEF CheckoutInv
<1>2. CheckoutInv /\ [Next]_vars => CheckoutInv'
  <2> SUFFICES ASSUME CheckoutInv, [Next]_vars PROVE CheckoutInv'
    OBVIOUS
  <2>1. CASE \E t \in Tabs : Load(t) \/ Change(t) \/ Navigate(t)
    BY <2>1, LoadStep, ChangeStep, NavigateStep
  <2>2. CASE \E t \in Tabs : \E p \in Passes :
                Resume(t, p) \/ WorkerStep(t, p) \/ GateNeverAnswers(t, p)
    BY <2>2, ResumeStep, GateStep, StoreStep DEF WorkerStep
  <2>3. CASE Elsewhere \/ WorkerRestarts \/ BrowserRestarts
    BY <2>3, ElsewhereStep, WorkerRestartsStep, BrowserRestartsStep
  <2>4. CASE \/ \E t \in Tabs : OpenPopup(t)
             \/ ReadCached \/ ReadSession \/ LoadFails \/ ClosePopup
    BY <2>4, PopupSteps
  <2>5. CASE Tick \/ UNCHANGED vars
    <3>1. UNCHANGED <<page, pass, session, cached, popup, excuses>>
      BY <2>5 DEF Tick, vars
    <3>2. CheckoutTypes'
      BY <2>5, <3>1 DEF CheckoutInv, CheckoutTypes, Tick, vars
    <3>3. \A t \in Tabs : ReadFirst(t)' \subseteq ReadFirst(t)
      BY <3>1 DEF ReadFirst
    <3>4. \A t \in Tabs : TabInv(t)'
      BY <3>1, <3>2, <3>3, Undisturbed DEF CheckoutInv
    <3> QED
      BY <3>1, <3>2, <3>4, PopupStays DEF CheckoutInv
  <2> QED
    BY <2>1, <2>2, <2>3, <2>4, <2>5 DEF Next
<1> QED
  BY <1>1, <1>2, PTL DEF Spec

(***************************************************************************)
(* A tab where all is quiet, and which has no excuse, has the              *)
(* recommendation for what it shows (content-script.ts and the             *)
(* OPTIMIZE_PAYMENT handler of service-worker.ts).                         *)
(***************************************************************************)
THEOREM QuietTabsAreCurrent == Spec => []SettledIsCurrent
<1>1. CheckoutInv => SettledIsCurrent
  <2> SUFFICES ASSUME CheckoutInv, NEW t \in Tabs, Quiet(t), excuses[t] = {}
               PROVE  \E r \in session[t] : r.cart.change = page[t].change
    BY DEF SettledIsCurrent
  <2>1. \A p \in Passes : pass[t][p].step \notin Asking
    BY DEF Quiet, NoPass, Asking
  <2> QED
    BY <2>1 DEF CheckoutInv, TabInv, CurrentIsAsked
<1> QED
  BY CheckoutInvariance, <1>1, PTL

(***************************************************************************)
(* What the popup shows in the end is never for older content of its tab   *)
(* than the fallback it read at first (App.tsx, loadState, against the     *)
(* order in which the worker writes).                                      *)
(***************************************************************************)
THEOREM PopupMovesForward == Spec => []PopupNeverGoesBack
<1>1. CheckoutInv => PopupNeverGoesBack
  BY DEF CheckoutInv
<1> QED
  BY CheckoutInvariance, <1>1, PTL

-----------------------------------------------------------------------------
(* What is stored has passed the gate                                      *)

Checked(cart) == PreValidateCartJson(cart) /\ CartSchemaAccepts(cart)

\* the steps behind the gate
Admitted == {"profile", "session", "cache"}

OnlyChecked ==
    /\ \A t \in Tabs : \A p \in Passes : pass[t][p].step \in Admitted => Checked(pass[t][p].cart)
    /\ \A t \in Tabs : \A r \in session[t] : Checked(r.cart)
    /\ \A r \in cached : Checked(r.cart)

\* a step that stores nothing, and lets no request through the gate
LEMMA NothingAdmitted ==
    ASSUME OnlyChecked, cached' = cached, \A t \in Tabs : session'[t] \subseteq session[t],
           \A t \in Tabs : \A p \in Passes : pass'[t][p].step \in Admitted =>
              pass[t][p].step \in Admitted /\ pass'[t][p].cart = pass[t][p].cart
    PROVE  OnlyChecked'
BY DEF OnlyChecked, Checked, PreValidateCartJson, CartSchemaAccepts

\* the content script sends, drops or ends, and goes to another page
LEMMA PagesAdmitNothing ==
    ASSUME CheckoutTypes, OnlyChecked, NEW t \in Tabs,
           \/ Load(t) \/ Change(t) \/ Navigate(t)
           \/ \E p \in Passes : Resume(t, p)
    PROVE  OnlyChecked'
<1>1. UNCHANGED <<session, cached>>
  BY DEF Load, Change, Navigate, Resume
<1>2. "gate" \notin Admitted /\ NoPass.step \notin Admitted
  BY DEF NoPass, Admitted
<1>3. ASSUME NEW p \in Passes, NEW cart, NEW left, Sends(t, p, cart, left)
      PROVE  OnlyChecked'
  <2> DEFINE request == [step |-> "gate", cart |-> cart, left |-> left, stamp |-> 0]
  <2>1. pass' = [pass EXCEPT ![t] = [pass[t] EXCEPT ![p] = request]]
    BY <1>3 DEF Sends
  <2>2. request.step = "gate"
    OBVIOUS
  <2> HIDE DEF request
  <2>3. \A u \in Tabs : \A q \in Passes :
          pass'[u][q] = pass[u][q] \/ pass'[u][q].step = "gate"
    BY <2>1, <2>2 DEF CheckoutTypes
  <2> QED
    BY <1>1, <1>2, <2>3, NothingAdmitted
<1>4. ASSUME NEW p \in Passes, pass' = [pass EXCEPT ![t][p] = NoPass]
      PROVE  OnlyChecked'
  <2>1. \A u \in Tabs : \A q \in Passes : pass'[u][q] = pass[u][q] \/ pass'[u][q] = NoPass
    BY <1>4 DEF CheckoutTypes
  <2> QED
    BY <1>1, <1>2, <2>1, NothingAdmitted
<1>5. ASSUME NEW p \in Passes, NEW cart, NEW left, Callback(t, p, cart, left)
      PROVE  OnlyChecked'
  BY <1>3, <1>4, <1>5 DEF Callback
<1>6. CASE Load(t)
  <2>1. "run" \in Passes
    BY DEF Passes
  <2>2. CASE UNCHANGED pass
    BY <1>1, <2>2, NothingAdmitted
  <2> QED
    BY <1>3, <1>6, <2>1, <2>2 DEF Load
<1>7. CASE Change(t)
  <2>1. CASE UNCHANGED pass
    BY <1>1, <2>1, NothingAdmitted
  <2> QED
    BY <1>5, <1>7, <2>1 DEF Change, Passes
<1>8. CASE Navigate(t)
  <2> DEFINE kept(p) == IF pass[t][p].step \in InWorker
                        THEN [pass[t][p] EXCEPT !.left = 0] ELSE NoPass
  <2>1. pass' = [pass EXCEPT ![t] = [p \in Passes |-> kept(p)]]
    BY <1>8 DEF Navigate
  <2>2. ASSUME NEW p \in Passes, kept(p).step \in Admitted
        PROVE  kept(p).step = pass[t][p].step /\ kept(p).cart = pass[t][p].cart
    <3>1. pass[t][p].step \in InWorker
      BY <1>2, <2>2
    <3>2. pass[t][p] \in [step : InWorker, cart : Seen, left : Int, stamp : Nat]
      BY <3>1, RequestShape
    <3> QED
      BY <3>1, <3>2
  <2> HIDE DEF kept
  <2>3. /\ \A u \in Tabs \ {t} : pass'[u] = pass[u]
        /\ \A p \in Passes : pass'[t][p] = kept(p)
    BY <2>1 DEF CheckoutTypes
  <2> QED
    BY <1>1, <2>2, <2>3, NothingAdmitted
<1>9. CASE \E p \in Passes : Resume(t, p)
  <2>1. PICK p \in Passes : Resume(t, p)
    BY <1>9
  <2>2. CASE Finished(t, p)
    BY <1>4, <2>2 DEF Finished
  <2> QED
    BY <1>5, <2>1, <2>2 DEF Resume
<1> QED
  BY <1>6, <1>7, <1>8, <1>9

\* the gate lets through what it has checked, and what is stored has been let through
LEMMA WorkerStoresChecked ==
    ASSUME CheckoutTypes, OnlyChecked, NEW t \in Tabs, NEW p \in Passes,
           WorkerStep(t, p) \/ GateNeverAnswers(t, p)
    PROVE  OnlyChecked'
<1>1. /\ pass[t][p].step \in {"gate", "profile", "session", "cache"}
      /\ pass[t][p].step \in InWorker
      /\ "answered" \notin Admitted /\ "stuck" \notin Admitted
      /\ {"profile", "session", "cache", "stuck"} \subseteq InWorker
  BY DEF WorkerStep, Gate, LoadProfile, Store, GateNeverAnswers, At, InWorker, Admitted
<1>2. /\ Recommendation(t, p).cart = pass[t][p].cart
      /\ pass[t][p].step \in Admitted => Checked(Recommendation(t, p).cart)
  BY <1>1, RecommendationShape DEF OnlyChecked
<1>3. \/ /\ \/ Answers(t, p)
            \/ Goes(t, p, "profile") /\ Checked(pass[t][p].cart)
            \/ Goes(t, p, "stuck")
            \/ pass[t][p].step \in Admitted
                /\ (Stamped(t, p, "session") \/ Stamped(t, p, "cache"))
         /\ cached' = cached \/ (pass[t][p].step \in Admitted /\ cached' = {Recommendation(t, p)})
         /\ \/ session' = session
            \/ /\ pass[t][p].step \in Admitted
               /\ session' = [session EXCEPT ![t] = {Recommendation(t, p)}]
  <2>1. CASE Gate(t, p) \/ GateNeverAnswers(t, p)
    BY <2>1 DEF Gate, GateNeverAnswers, Refused, Checked
  <2>2. CASE LoadProfile(t, p)
    <3>1. pass[t][p].step \in Admitted
      BY <2>2 DEF LoadProfile, At, Admitted
    <3> QED
      BY <2>2, <3>1 DEF LoadProfile, Refused
  <2>3. CASE Store(t, p)
    <3>1. pass[t][p].step \in Admitted
      BY <2>3 DEF Store, At, Admitted
    <3> QED
      BY <2>3, <3>1 DEF Store, Refused
  <2> QED
    BY <2>1, <2>2, <2>3 DEF WorkerStep
<1>4. \A u \in Tabs : \A q \in Passes : pass'[u][q].step \in Admitted =>
         Checked(pass'[u][q].cart)
  <2>1. CASE Answers(t, p)
    BY <1>1, <2>1, AnswerEnds DEF OnlyChecked
  <2>2. CASE Goes(t, p, "profile") /\ Checked(pass[t][p].cart)
    BY <1>1, <2>2, GoesOn DEF OnlyChecked
  <2>3. CASE Goes(t, p, "stuck")
    BY <1>1, <2>3, GoesOn DEF OnlyChecked
  <2>4. CASE /\ pass[t][p].step \in Admitted
             /\ Stamped(t, p, "session") \/ Stamped(t, p, "cache")
    <3>1. PICK step \in InWorker : Stamped(t, p, step)
      BY <1>1, <2>4
    <3>2. Checked(pass[t][p].cart)
      BY <2>4 DEF OnlyChecked
    <3> QED
      BY <1>1, <3>1, <3>2, GoesOn DEF OnlyChecked
  <2> QED
    BY <1>3, <2>1, <2>2, <2>3, <2>4
<1>5. \A r \in cached' : Checked(r.cart)
  BY <1>2, <1>3 DEF OnlyChecked
<1>6. \A u \in Tabs : \A r \in session'[u] : Checked(r.cart)
  BY <1>2, <1>3 DEF OnlyChecked, CheckoutTypes
<1> QED
  BY <1>4, <1>5, <1>6 DEF OnlyChecked, Checked, PreValidateCartJson, CartSchemaAccepts

(***************************************************************************)
(* The worker would accept the confirmation of every recommendation it has *)
(* stored, but for three currencies (the gate of OPTIMIZE_PAYMENT against  *)
(* ConfirmSavingsMessageSchema).                                           *)
(***************************************************************************)
THEOREM StoredPasses == Spec => []StoredMayBeConfirmed
<1>1. Init => OnlyChecked
  BY DEF Init, OnlyChecked, NoPass, Admitted
<1>2. CheckoutInv /\ OnlyChecked /\ [Next]_vars => OnlyChecked'
  <2> SUFFICES ASSUME CheckoutTypes, OnlyChecked, [Next]_vars PROVE OnlyChecked'
    BY DEF CheckoutInv
  <2>1. CASE \E t \in Tabs : \/ Load(t) \/ Change(t) \/ Navigate(t)
                             \/ \E p \in Passes : Resume(t, p)
    BY <2>1, PagesAdmitNothing
  <2>2. CASE \E t \in Tabs : \E p \in Passes : WorkerStep(t, p) \/ GateNeverAnswers(t, p)
    BY <2>2, WorkerStoresChecked
  <2>3. CASE Elsewhere
    <3>1. \A r \in cached' : r.cart.total = 100 /\ r.cart.currency = "INR"
      BY <2>3 DEF Elsewhere, MinorUnits
    <3>2. \A r \in cached' : Checked(r.cart)
      BY <3>1, LiteralAssumption DEF Checked, PreValidateCartJson, CartSchemaAccepts, Currencies
    <3> QED
      BY <2>3, <3>2
         DEF Elsewhere, OnlyChecked, Checked, PreValidateCartJson, CartSchemaAccepts
  <2>4. CASE WorkerRestarts
    <3>1. /\ UNCHANGED <<session, cached>>
          /\ \A t \in Tabs : \A p \in Passes :
                pass'[t][p] = IF pass[t][p].step \in InWorker
                              THEN Answered(pass[t][p]) ELSE pass[t][p]
      BY <2>4 DEF WorkerRestarts
    <3>2. Admitted \subseteq InWorker /\ \A a : Answered(a).step \notin Admitted
      BY DEF Answered, Admitted, InWorker
    <3> HIDE DEF Answered
    <3> QED
      BY <3>1, <3>2, NothingAdmitted
  <2>5. CASE BrowserRestarts
    BY <2>5, NothingAdmitted DEF BrowserRestarts, NoPass, Admitted
  <2>6. CASE \/ \E t \in Tabs : OpenPopup(t)
             \/ ReadCached \/ ReadSession \/ LoadFails \/ ClosePopup \/ Tick
             \/ UNCHANGED vars
    <3>1. UNCHANGED <<pass, session, cached>>
      BY <2>6 DEF OpenPopup, ReadCached, ReadSession, LoadFails, ClosePopup, Tick, vars
    <3> QED
      BY <3>1, NothingAdmitted
  <2> QED
    BY <2>1, <2>2, <2>3, <2>4, <2>5, <2>6 DEF Next
<1>3. OnlyChecked => StoredMayBeConfirmed
  <2> SUFFICES ASSUME OnlyChecked, NEW r \in Stored
               PROVE  ConfirmAccepts(r.cart) \/ r.cart.currency \in {"JPY", "SGD", "AED"}
    BY DEF StoredMayBeConfirmed
  <2>1. Checked(r.cart)
    BY DEF OnlyChecked, Stored
  <2> QED
    BY <2>1 DEF Checked, PreValidateCartJson, CartSchemaAccepts, ConfirmAccepts, Currencies
<1> QED
  BY CheckoutInvariance, <1>1, <1>2, <1>3, PTL DEF Spec
=============================================================================
