------------------------ MODULE BrowseFiltersProofs ------------------------
(* What BrowseFilters keeps for any texts, kinds, bounds and rarities and    *)
(* any number of moves.                                                      *)
EXTENDS BrowseFilters, TLAPS

AllUrls ==
    [search : Text, kind : Kind \cup {None}, min : Bound \cup {None},
     max : Bound \cup {None}, rarity : Rarity \cup {None}]

(* The pages differ only in the parameters they leave out.                   *)
LEMMA UrlFields ==
    ASSUME NEW p, NEW u
    PROVE  u \in Url(p) <=>
              /\ u \in AllUrls
              /\ p = "items" => u.min = None /\ u.max = None
              /\ p # "items" => u.rarity = None
BY DEF Url, AllUrls

(* A URL that is written while the router is on another page than the screen *)
(* is one of that page.                                                      *)
LEMMA CarriedFits ==
    ASSUME NEW u \in Url(mounted)
    PROVE  Carried(u) \in Url(page)
BY DEF Url, Carried

(* A setter changes the parameters that it is for, and nothing else.         *)
LEMMA Setters ==
    ASSUME NEW u \in AllUrls
    PROVE  /\ \A t \in Text :
                /\ withSearch(u, t) \in AllUrls
                /\ \A p \in Param \ {"search"} : withSearch(u, t)[p] = u[p]
           /\ \A k \in Kind \cup {None} :
                /\ withKind(u, k) \in AllUrls
                /\ withKind(u, k).rarity \in {u.rarity, None}
                /\ \A p \in Param \ {"kind", "rarity"} :
                        withKind(u, k)[p] = u[p]
           /\ \A n \in Bound \cup {None} :
                /\ withMin(u, n) \in AllUrls /\ withMax(u, n) \in AllUrls
                /\ \A p \in Param \ {"min", "max"} :
                        withMin(u, n)[p] = u[p] /\ withMax(u, n)[p] = u[p]
           /\ \A r \in Rarity \cup {None} :
                /\ withRarity(u, r) \in AllUrls
                /\ \A p \in Param \ {"rarity"} : withRarity(u, r)[p] = u[p]
<1> USE DEF AllUrls, Param
<1>1. ASSUME NEW t \in Text
      PROVE  /\ withSearch(u, t) \in AllUrls
             /\ \A p \in Param \ {"search"} : withSearch(u, t)[p] = u[p]
    BY DEF withSearch
<1>2. ASSUME NEW k \in Kind \cup {None}
      PROVE  /\ withKind(u, k) \in AllUrls
             /\ withKind(u, k).rarity \in {u.rarity, None}
             /\ \A p \in Param \ {"kind", "rarity"} : withKind(u, k)[p] = u[p]
    BY DEF withKind
<1>3. ASSUME NEW n \in Bound \cup {None}
      PROVE  /\ withMin(u, n) \in AllUrls /\ withMax(u, n) \in AllUrls
             /\ \A p \in Param \ {"min", "max"} :
                    withMin(u, n)[p] = u[p] /\ withMax(u, n)[p] = u[p]
    BY DEF withMin, withMax
<1>4. ASSUME NEW r \in Rarity \cup {None}
      PROVE  /\ withRarity(u, r) \in AllUrls
             /\ \A p \in Param \ {"rarity"} : withRarity(u, r)[p] = u[p]
    BY DEF withRarity
<1>5. QED BY <1>1, <1>2, <1>3, <1>4

-----------------------------------------------------------------------------
LEMMA TypeInit == Init => TypeOK
<1> SUFFICES ASSUME Init PROVE TypeOK
    OBVIOUS
<1>1. url.search \in Text BY DEF Init, Url
<1>2. QED BY <1>1, MovesAreBounded DEF Init, TypeOK

LEMMA NavigateTypes ==
    ASSUME TypeOK, NEW what \in {"search", "kind", "min", "max", "rarity",
                                 "link", "back"},
           NEW u \in Url(page), Navigate(what, u),
           input' \in Text, prev' = prev, timer' \in {timer, None},
           moves' \in 0 .. MaxMoves
    PROVE  TypeOK'
BY DEF Navigate, TypeOK

LEMMA DebounceTypes ==
    ASSUME NEW text \in Text, NEW p \in CatalogPage, NEW u \in Url(p)
    PROVE  Debounce(text, u) # None =>
              Debounce(text, u) \in [text : Text, from : Url(p)]
BY DEF Debounce

LEMMA TypeStep == TypeOK /\ [Next]_vars => TypeOK'
<1> SUFFICES ASSUME TypeOK, [Next]_vars PROVE TypeOK'
    OBVIOUS
<1>1. url.search \in Text /\ shown.search \in Text
    BY UrlFields DEF AllUrls, TypeOK
<1>2. Move => moves' \in 0 .. MaxMoves BY MovesAreBounded DEF Move, TypeOK
<1>3. ASSUME NEW what \in {"kind", "min", "max", "rarity"},
             NEW u \in Url(mounted), Choose(what, u)
      PROVE  TypeOK'
  <2>1. Carried(u) \in Url(page) BY CarriedFits
  <2>2. QED BY <1>2, <1>3, <2>1, NavigateTypes DEF Choose, TypeOK
<1>4. ASSUME NEW text \in Text, Type(text)
      PROVE  TypeOK'
    BY <1>2, <1>4, DebounceTypes DEF Type, TypeOK
<1>5. CASE Fire
  <2>1. withSearch(timer.from, timer.text) \in Url(mounted)
      BY <1>5 DEF Fire, Url, withSearch, TypeOK
  <2>2. Carried(withSearch(timer.from, timer.text)) \in Url(page)
      BY <2>1, CarriedFits
  <2>3. QED BY <1>5, <2>2, NavigateTypes DEF Fire, TypeOK
<1>6. CASE Commit
  <2>1. TextRendered \in Text BY <1>1 DEF TextRendered, TypeOK
  <2>2. Debounce(TextRendered, url) # None =>
            Debounce(TextRendered, url) \in [text : Text, from : Url(page)]
      BY <2>1, DebounceTypes DEF TypeOK
  <2>3. QED BY <1>1, <1>6, <2>1, <2>2 DEF Commit, Rendered, TypeOK
<1>7. ASSUME NEW kind \in Kind \cup {None}, SetKind(kind)
      PROVE  TypeOK'
  <2>1. withKind(shown, kind) \in Url(mounted)
      BY DEF Url, withKind, TypeOK
  <2>2. QED BY <1>3, <1>7, <2>1 DEF SetKind, RenderedParams
<1>8. ASSUME NEW n \in Bound \cup {None}, SetMin(n) \/ SetMax(n)
      PROVE  TypeOK'
  <2>1. /\ withMin(shown, n) \in Url(mounted)
        /\ withMax(shown, n) \in Url(mounted)
      BY <1>8 DEF Url, withMin, withMax, SetMin, SetMax, TypeOK
  <2>2. QED BY <1>3, <1>8, <2>1 DEF SetMin, SetMax, RenderedParams
<1>9. ASSUME NEW rarity \in Rarity \cup {None}, SetRarity(rarity)
      PROVE  TypeOK'
  <2>1. withRarity(shown, rarity) \in Url(mounted)
      BY <1>9 DEF Url, withRarity, SetRarity, TypeOK
  <2>2. QED BY <1>3, <1>9, <2>1 DEF SetRarity, RenderedParams
<1>10. ASSUME NEW u \in Url(page), Follow(u)
       PROVE  TypeOK'
  <2>1. LinkTo(page, u) \in {"link", "back"} BY DEF LinkTo
  <2>2. QED BY <1>2, <1>10, <2>1, NavigateTypes DEF Follow, TypeOK
<1>11. ASSUME NEW p \in CatalogPage, NEW u \in Url(p), Leave(p, u)
       PROVE  TypeOK'
  <2>1. [page |-> p, url |-> u] \in Pending BY DEF Pending
  <2>2. QED BY <1>2, <1>11, <2>1 DEF Leave, TypeOK
<1>12. CASE Arrive
  <2>1. going.page \in CatalogPage /\ going.url \in Url(going.page)
      BY <1>12 DEF Arrive, Pending, TypeOK
  <2>2. LinkTo(going.page, going.url) \in {"link", "back"} BY DEF LinkTo
  <2>3. QED BY <1>12, <2>1, <2>2 DEF Arrive, TypeOK
<1>13. CASE UNCHANGED vars BY <1>13 DEF vars, TypeOK
<1>14. QED
    BY <1>4, <1>5, <1>6, <1>7, <1>8, <1>9, <1>10, <1>11, <1>12, <1>13 DEF Next

(* Every reachable state has its shape, and a page has its own parameters.   *)
THEOREM TypeCorrect == Spec => []TypeOK
BY TypeInit, TypeStep, PTL DEF Spec

-----------------------------------------------------------------------------
(* A text that the box has given up is never written to the URL.             *)
THEOREM BoxIsWritten == Spec => []BoxWritesWhatItShows
<1>1. Init => BoxWritesWhatItShows BY DEF Init, BoxWritesWhatItShows
<1>2. BoxWritesWhatItShows /\ [Next]_vars => BoxWritesWhatItShows'
    BY DEF Next, vars, BoxWritesWhatItShows, Type, Fire, Commit, Debounce,
           SetKind, SetMin, SetMax, SetRarity, Follow, Leave, Arrive, Choose
<1>3. QED BY <1>1, <1>2, PTL DEF Spec

-----------------------------------------------------------------------------
(* A debounce under way was started with the setter of the present render,   *)
(* and a URL that does not fit although the page does came by a link.        *)
SetterIsRendered == timer # None => timer.from = shown

LinksOnlyMisfit == Fits(shown) => Fits(url) \/ ByLink

IInv == TypeOK /\ SetterIsRendered /\ LinksOnlyMisfit

(* What a step writes to the URL: the rendered one with a change of the      *)
(* filter that was acted on, or what a link says.                            *)
SetBy(what, u) ==
    \/ what = "search" /\ \E t \in Text : u = withSearch(shown, t)
    \/ what = "kind" /\ \E k \in Kind \cup {None} : u = withKind(shown, k)
    \/ what = "min" /\ \E n \in Bound \cup {None} : u = withMin(shown, n)
    \/ what = "max" /\ \E n \in Bound \cup {None} : u = withMax(shown, n)
    \/ what = "rarity" /\ isRarityCapable(shown.kind)
       /\ \E r \in Rarity \cup {None} : u = withRarity(shown, r)

Written ==
    \/ url' = url /\ event' = event
    \/ /\ shown' = shown
       /\ \/ ByLink'
          \/ \E u \in AllUrls : SetBy(event', u) /\ url' = Carried(u)

LEMMA StepWrites == IInv /\ [Next]_vars => Written
<1> SUFFICES ASSUME IInv, [Next]_vars PROVE Written
    OBVIOUS
<1>1. shown \in AllUrls BY UrlFields DEF IInv, TypeOK
<1>2. CASE Fire
  <2>1. timer.text \in Text /\ timer.from = shown
      BY <1>2 DEF Fire, IInv, TypeOK, SetterIsRendered
  <2>2. withSearch(shown, timer.text) \in AllUrls BY <1>1, <2>1, Setters
  <2>3. SetBy("search", withSearch(shown, timer.text)) BY <2>1 DEF SetBy
  <2>4. QED BY <1>2, <2>1, <2>2, <2>3 DEF Fire, Navigate, Written
<1>3. ASSUME NEW kind \in Kind \cup {None}, SetKind(kind)
      PROVE  Written
  <2>1. withKind(shown, kind) \in AllUrls BY <1>1, Setters
  <2>2. SetBy("kind", withKind(shown, kind)) BY DEF SetBy
  <2>3. QED
      BY <1>3, <2>1, <2>2
      DEF SetKind, Choose, Navigate, Written, RenderedParams
<1>4. ASSUME NEW n \in Bound \cup {None}, SetMin(n)
      PROVE  Written
  <2>1. withMin(shown, n) \in AllUrls BY <1>1, Setters
  <2>2. SetBy("min", withMin(shown, n)) BY DEF SetBy
  <2>3. QED
      BY <1>4, <2>1, <2>2 DEF SetMin, Choose, Navigate, Written, RenderedParams
<1>5. ASSUME NEW n \in Bound \cup {None}, SetMax(n)
      PROVE  Written
  <2>1. withMax(shown, n) \in AllUrls BY <1>1, Setters
  <2>2. SetBy("max", withMax(shown, n)) BY DEF SetBy
  <2>3. QED
      BY <1>5, <2>1, <2>2 DEF SetMax, Choose, Navigate, Written, RenderedParams
<1>6. ASSUME NEW rarity \in Rarity \cup {None}, SetRarity(rarity)
      PROVE  Written
  <2>1. withRarity(shown, rarity) \in AllUrls BY <1>1, Setters
  <2>2. SetBy("rarity", withRarity(shown, rarity))
      BY <1>6 DEF SetBy, SetRarity
  <2>3. QED
      BY <1>6, <2>1, <2>2
      DEF SetRarity, Choose, Navigate, Written, RenderedParams
<1>7. ASSUME NEW u, Follow(u)
      PROVE  Written
    BY <1>7 DEF Follow, Navigate, LinkTo, ByLink, Written
<1>8. CASE Arrive BY <1>8 DEF Arrive, LinkTo, ByLink, Written
<1>9. QED
    BY <1>2, <1>3, <1>4, <1>5, <1>6, <1>7, <1>8
    DEF Next, Type, Commit, Rendered, Leave, Written, vars

-----------------------------------------------------------------------------
(* Each setter keeps a URL that fits.                                        *)
LEMMA SettersFit ==
    ASSUME shown \in AllUrls, Fits(shown), NEW what, NEW u, SetBy(what, u)
    PROVE  Fits(u)
<1>1. ASSUME NEW t \in Text, u = withSearch(shown, t)
      PROVE  Fits(u)
    BY <1>1 DEF Fits, AllUrls, withSearch
<1>2. ASSUME NEW kind \in Kind \cup {None}, u = withKind(shown, kind)
      PROVE  Fits(u)
  <2>1. u.min = shown.min /\ u.max = shown.max /\ u.kind = kind
        /\ (u.rarity # None => isRarityCapable(kind))
      BY <1>2 DEF withKind, AllUrls
  <2>2. QED BY <2>1 DEF Fits
<1>3. ASSUME NEW n \in Bound \cup {None},
             u = withMin(shown, n) \/ u = withMax(shown, n)
      PROVE  Fits(u)
  <2>1. u.kind = shown.kind /\ u.rarity = shown.rarity
      BY <1>3 DEF withMin, withMax, AllUrls
  <2>2. n # None => n \in Nat BY BoundsAreNumbers
  <2>3. /\ shown.min # None => shown.min \in Nat
        /\ shown.max # None => shown.max \in Nat
      BY BoundsAreNumbers DEF AllUrls
  <2>4. CASE u = withMin(shown, n)
    <3>1. u.min = n /\ u.max = IF n # None /\ shown.max # None
                                   /\ shown.max < n
                                THEN n ELSE shown.max
        BY <2>4 DEF withMin, AllUrls
    <3>2. QED BY <2>1, <2>2, <2>3, <3>1 DEF Fits
  <2>5. CASE u = withMax(shown, n)
    <3>1. u.max = n /\ u.min = IF n # None /\ shown.min # None
                                   /\ shown.min > n
                                THEN n ELSE shown.min
        BY <2>5 DEF withMax, AllUrls
    <3>2. QED BY <2>1, <2>2, <2>3, <3>1 DEF Fits
  <2>6. QED BY <1>3, <2>4, <2>5
<1>4. ASSUME NEW r \in Rarity \cup {None}, isRarityCapable(shown.kind),
             u = withRarity(shown, r)
      PROVE  Fits(u)
    BY <1>4 DEF Fits, AllUrls, withRarity
<1>5. QED BY <1>1, <1>2, <1>3, <1>4 DEF SetBy

LEMMA StepFits == IInv /\ [Next]_vars => (Fits(shown) => Fits(url') \/ ByLink')
<1> SUFFICES ASSUME IInv, [Next]_vars, Fits(shown) PROVE Fits(url') \/ ByLink'
    OBVIOUS
<1>1. shown \in AllUrls BY UrlFields DEF IInv, TypeOK
<1>2. Written BY StepWrites
<1>3. CASE url' = url /\ event' = event
    BY <1>3 DEF IInv, LinksOnlyMisfit, ByLink
<1>4. ASSUME NEW u \in AllUrls, SetBy(event', u), url' = Carried(u)
      PROVE  Fits(url')
  <2>1. Fits(u) BY <1>1, <1>4, SettersFit
  <2>2. QED BY <1>4, <2>1 DEF Carried, Fits
<1>5. QED BY <1>2, <1>3, <1>4 DEF Written

LEMMA Inductive == IInv /\ [Next]_vars => IInv'
<1> SUFFICES ASSUME IInv, [Next]_vars PROVE IInv'
    OBVIOUS
<1>1. TypeOK' BY TypeStep DEF IInv
<1>2. SetterIsRendered'
    BY DEF IInv, Next, vars, SetterIsRendered, Type, Fire, Commit, Rendered,
           Debounce, SetKind, SetMin, SetMax, SetRarity, Follow, Leave, Arrive,
           Choose, Navigate
<1>3. LinksOnlyMisfit'
  <2>1. CASE shown' = shown BY <2>1, StepFits DEF LinksOnlyMisfit
  <2>2. CASE Commit BY <2>2 DEF Commit, Rendered, LinksOnlyMisfit, ByLink
  <2>3. QED
      BY <2>1, <2>2
      DEF Next, vars, Type, Fire, SetKind, SetMin, SetMax, SetRarity, Follow,
          Leave, Arrive, Choose, Navigate
<1>4. QED BY <1>1, <1>2, <1>3 DEF IInv

LEMMA Invariant == Spec => []IInv
<1>1. Init => IInv
    BY TypeInit DEF Init, IInv, SetterIsRendered, LinksOnlyMisfit
<1>2. QED BY <1>1, Inductive, PTL DEF Spec

-----------------------------------------------------------------------------
(* However often and however fast the visitor acts, no filter that is on the *)
(* screen is wiped from the URL by a step that is not for it.  Those that    *)
(* the URL has and the screen does not show yet may be.                      *)
THEOREM RenderedFiltersAreKept == Spec => RenderedFiltersSurvive
<1>1. IInv /\ [Next]_vars =>
        [\A p \in Param :
            mounted = page /\ url[p] = shown[p] /\ url'[p] # url[p]
                => p \in Touches(event')]_vars
  <2> SUFFICES ASSUME IInv, [Next]_vars, NEW p \in Param, mounted = page,
                      url[p] = shown[p], url'[p] # url[p]
               PROVE  p \in Touches(event')
      OBVIOUS
  <2>1. shown \in AllUrls BY UrlFields DEF IInv, TypeOK
  <2>2. Written BY StepWrites
  <2>3. CASE ByLink' BY <2>3 DEF ByLink, Touches
  <2>4. ASSUME NEW u \in AllUrls, SetBy(event', u), url' = Carried(u)
        PROVE  p \in Touches(event')
    <3>1. u[p] # shown[p] BY <2>4 DEF Carried
    <3>2. CASE event' = "search"
        BY <2>1, <2>4, <3>1, <3>2, Setters DEF SetBy, Touches
    <3>3. CASE event' = "kind"
        BY <2>1, <2>4, <3>1, <3>3, Setters DEF SetBy, Touches
    <3>4. CASE event' \in {"min", "max"}
        BY <2>1, <2>4, <3>1, <3>4, Setters DEF SetBy, Touches
    <3>5. CASE event' = "rarity"
        BY <2>1, <2>4, <3>1, <3>5, Setters DEF SetBy, Touches
    <3>6. QED BY <2>4, <3>2, <3>3, <3>4, <3>5 DEF SetBy
  <2>5. QED BY <2>2, <2>3, <2>4 DEF Written
<1>2. QED BY <1>1, Invariant, PTL DEF Spec, RenderedFiltersSurvive

(* From a page whose filters fit, the visitor's own choices never turn a     *)
(* range upside down and never leave a rarity with a category that has none, *)
(* however far the screen is behind the URL.                                 *)
THEOREM ChoicesAlwaysFit == Spec => ChoicesFit
<1>1. IInv /\ [Next]_vars => [Fits(shown) => Fits(url') \/ ByLink']_vars
    BY StepFits
<1>2. QED BY <1>1, Invariant, PTL DEF Spec, ChoicesFit
=============================================================================
