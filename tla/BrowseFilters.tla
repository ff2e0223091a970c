--------------------------- MODULE BrowseFilters ---------------------------
(* The filters of the catalog pages: monsters, spells and items.  The query  *)
(* string of the URL is the one place they are kept; the box of the search   *)
(* has a text of its own, written to the URL when the visitor has not typed  *)
(* for a while and taken from it when the URL changes.                       *)
(*                                                                           *)
(* The router (react-router, external) changes the URL at once and renders   *)
(* it a little later; pages are loaded lazily, so a navigation to another    *)
(* one is pending for a while.  Timers, keystrokes and choices wait for      *)
(* neither: what is on the screen may be behind the URL.                     *)
EXTENDS Naturals

CONSTANTS
    Text,           \* what is typed into the search box, "" included
    Kind,           \* monster types, spell schools, item categories
    Bound,          \* challenge ratings or spell levels
    Rarity,         \* item rarities
    RarityCapable,  \* the categories that have items with a rarity
    CatalogPage,    \* subset of {"monsters", "spells", "items"}
    MaxMoves,       \* how often the visitor acts (a bound)
    None            \* a parameter the URL does not have

ASSUME TextHasEmpty == "" \in Text
ASSUME BoundsAreNumbers == Bound \subseteq Nat
ASSUME MovesAreBounded == MaxMoves \in Nat
ASSUME CapableAreKinds == RarityCapable \subseteq Kind
ASSUME NoneIsNoParam ==
    None \notin Kind /\ None \notin Bound /\ None \notin Rarity
    /\ None \notin Text

VARIABLES
    page,     \* the page of the router's location
    url,      \* the query string of the router's location
    going,    \* the navigation that is pending: [page, url], or None
    mounted,  \* the page on the screen
    shown,    \* the query string it was last rendered with
    input,    \* searchInput: the text in the box
    prev,     \* prevUrlSearch: the search of the URL last taken into the box
    timer,    \* the debounce: the text it is about to write and the query
              \* string its setter was made with; or None
    event,    \* what was last done to the URL
    moves

vars == <<page, url, going, mounted, shown, input, prev, timer, event, moves>>

-----------------------------------------------------------------------------
(* The query string of each page; an empty search is no search.              *)
Url(p) ==
    [search : Text, kind : Kind \cup {None},
     min : IF p = "items" THEN {None} ELSE Bound \cup {None},
     max : IF p = "items" THEN {None} ELSE Bound \cup {None},
     rarity : IF p = "items" THEN Rarity \cup {None} ELSE {None}]

(* What the setters of the page on the screen start from.  They use the      *)
(* functional form of setSearchParams; react-router does not queue these as  *)
(* setState does, but calls them with the query string of the render that    *)
(* made the setter.                                                          *)
RenderedParams == shown

(* The effect that debounces the box, for a text and a rendered query.       *)
Debounce(text, rendered) ==
    IF text = rendered.search THEN None ELSE [text |-> text, from |-> rendered]

(* A setter navigates within the page of the location.  When the router has  *)
(* left the page of the setter, all that the next page reads of it is the    *)
(* search: the other parameters have names of their own on each page.        *)
Carried(u) ==
    IF page = mounted THEN u
    ELSE [search |-> u.search, kind |-> None, min |-> None, max |-> None,
          rarity |-> None]

isRarityCapable(kind) == kind = None \/ kind \in RarityCapable

-----------------------------------------------------------------------------
(* The setters of useMonsterFilters, useSpellFilters and useItemFilters      *)

withSearch(u, text) == [u EXCEPT !.search = text]

(* Faulty variant: a category without rarities leaves the rarity in place.   *)
withKindOnly(u, kind) == [u EXCEPT !.kind = kind]

withKind(u, kind) ==
    [u EXCEPT !.kind = kind,
              !.rarity = IF isRarityCapable(kind) THEN @ ELSE None]

(* The other bound gives way to the one that is set.                         *)
withMin(u, n) ==
    [u EXCEPT !.min = n,
              !.max = IF n # None /\ @ # None /\ @ < n THEN n ELSE @]

withMax(u, n) ==
    [u EXCEPT !.max = n,
              !.min = IF n # None /\ @ # None /\ @ > n THEN n ELSE @]

withRarity(u, rarity) == [u EXCEPT !.rarity = rarity]

-----------------------------------------------------------------------------
(* Steps *)

Move == moves < MaxMoves /\ moves' = moves + 1

(* A navigation within the page: the URL changes at once, and a navigation   *)
(* that is pending is given up for it.                                       *)
Navigate(what, u) ==
    /\ url' = u
    /\ going' = None
    /\ event' = what
    /\ UNCHANGED <<page, mounted, shown>>

(* A keystroke in the box, or clearing it: Escape or the button.             *)
Type(text) ==
    /\ Move /\ text # input
    /\ input' = text
    /\ timer' = Debounce(text, shown)
    /\ UNCHANGED <<page, url, going, mounted, shown, prev, event>>

(* The timer of the debounce goes off.                                       *)
Fire ==
    /\ timer # None
    /\ Navigate("search", Carried(withSearch(timer.from, timer.text)))
    /\ timer' = None
    /\ UNCHANGED <<input, prev, moves>>

(* What is on the screen becomes what the router's location says.            *)
Rendered ==
    /\ shown # url \/ mounted # page
    /\ shown' = url
    /\ mounted' = page
    /\ prev' = url.search
    /\ UNCHANGED <<page, url, going, event, moves>>

(* A page that was not on the screen starts over with the search of the URL. *)
(* On one that was, the box takes a search that is not the one last taken.   *)
TextRendered ==
    IF mounted # page \/ url.search # prev THEN url.search ELSE input

(* Faulty variant: a debounce that is under way is not called off.           *)
CommitKeepsTimer == Rendered /\ input' = TextRendered /\ UNCHANGED timer

(* Faulty variant: a debounce that is under way is dropped.                  *)
CommitDropsTimer == Rendered /\ input' = TextRendered /\ timer' = None

(* Faulty variant: the effect does not depend on the setter, so a debounce   *)
(* keeps the one it was started with while text and search stay the same.    *)
CommitKeepsSetter ==
    /\ Rendered
    /\ input' = TextRendered
    /\ timer' = IF mounted = page /\ url.search = prev THEN timer
                ELSE Debounce(TextRendered, url)

(* The location is rendered.  The effect runs again, for the setter is new:  *)
(* the debounce is called off, and started anew if box and URL still differ. *)
Commit ==
    /\ Rendered
    /\ input' = TextRendered
    /\ timer' = Debounce(TextRendered, url)

(* A choice in one of the other controls, from what they show.               *)
Choose(what, u) ==
    /\ Move
    /\ Navigate(what, Carried(u))
    /\ UNCHANGED <<input, prev, timer>>

SetKind(kind) ==
    kind # shown.kind /\ Choose("kind", withKind(RenderedParams, kind))

SetMin(n) ==
    /\ mounted # "items" /\ n # shown.min
    /\ Choose("min", withMin(RenderedParams, n))

SetMax(n) ==
    /\ mounted # "items" /\ n # shown.max
    /\ Choose("max", withMax(RenderedParams, n))

SetRarity(rarity) ==
    /\ mounted = "items" /\ isRarityCapable(shown.kind)
    /\ rarity # shown.rarity
    /\ Choose("rarity", withRarity(RenderedParams, rarity))

(* A link to what is still on the screen, whose successor was not rendered   *)
(* yet, is told from other links.                                            *)
LinkTo(p, u) == IF p = mounted /\ u = shown THEN "back" ELSE "link"

(* A link to the same page, the back button.                                 *)
Follow(u) ==
    /\ Move /\ u # url
    /\ Navigate(LinkTo(page, u), u)
    /\ UNCHANGED <<input, prev, timer>>

(* A link to another page, which has to be loaded.                           *)
Leave(p, u) ==
    /\ Move /\ p # page
    /\ going' = [page |-> p, url |-> u]
    /\ UNCHANGED <<page, url, mounted, shown, input, prev, timer, event>>

(* Faulty variant: the filters of a page are carried over to the next.       *)
ArriveKeeping ==
    /\ going # None
    /\ page' = going.page /\ going' = None
    /\ event' = "link"
    /\ UNCHANGED <<url, mounted, shown, input, prev, timer, moves>>

(* The page is loaded, and the router changes the location; the page that is *)
(* on the screen stays there until that is rendered.                         *)
Arrive ==
    /\ going # None
    /\ page' = going.page /\ url' = going.url /\ going' = None
    /\ event' = LinkTo(going.page, going.url)
    /\ UNCHANGED <<mounted, shown, input, prev, timer, moves>>

Init ==
    /\ page \in CatalogPage
    /\ url \in Url(page)
    /\ going = None
    /\ mounted = page /\ shown = url
    /\ input = url.search /\ prev = url.search /\ timer = None
    /\ event = "link" /\ moves = 0

Next ==
    \/ \E text \in Text : Type(text)
    \/ Fire
    \/ Commit
    \/ \E kind \in Kind \cup {None} : SetKind(kind)
    \/ \E n \in Bound \cup {None} : SetMin(n)
    \/ \E n \in Bound \cup {None} : SetMax(n)
    \/ \E rarity \in Rarity \cup {None} : SetRarity(rarity)
    \/ \E u \in Url(page) : Follow(u)
    \/ \E p \in CatalogPage : \E u \in Url(p) : Leave(p, u)
    \/ Arrive

(* Timers go off, pages load, and the router renders.                        *)
Fairness == WF_vars(Fire) /\ WF_vars(Arrive) /\ WF_vars(Commit)

Spec == Init /\ [][Next]_vars /\ Fairness

-----------------------------------------------------------------------------
(* Every variable has its shape, and a page has only its own parameters.     *)
Pending == [page : CatalogPage, url : UNION {Url(p) : p \in CatalogPage}]

TypeOK ==
    /\ page \in CatalogPage /\ mounted \in CatalogPage
    /\ url \in Url(page) /\ shown \in Url(mounted)
    /\ going # None => going \in Pending /\ going.url \in Url(going.page)
    /\ input \in Text /\ prev \in Text
    /\ timer # None => timer \in [text : Text, from : Url(mounted)]
    /\ event \in {"search", "kind", "min", "max", "rarity", "link", "back"}
    /\ moves \in 0 .. MaxMoves

(* The debounce never writes anything but what the box shows: a text that    *)
(* the box has given up for a link or the back button is not brought back    *)
(* (monster-filters.tsx:41).                                                 *)
BoxWritesWhatItShows == timer # None => timer.text = input

(* A filter of the URL that is on the screen changes only when the visitor   *)
(* acts on it, or on the one it is tied to: a debounce that was started      *)
(* before another filter was rendered does not wipe that one                 *)
(* (monster-filters.tsx:45).  What the URL has and the screen does not show  *)
(* yet is not spoken of, nor a page that the router has left.                *)
Param == {"search", "kind", "min", "max", "rarity"}

Touches(what) ==
    CASE what = "search" -> {"search"}
      [] what = "kind" -> {"kind", "rarity"}
      [] what \in {"min", "max"} -> {"min", "max"}
      [] what = "rarity" -> {"rarity"}
      [] what \in {"link", "back"} -> Param

RenderedFiltersSurvive ==
    [][\A p \in Param :
            mounted = page /\ url[p] = shown[p] /\ url'[p] # url[p]
                => p \in Touches(event')]_vars

(* From a page whose filters fit together the visitor's own choices only     *)
(* lead to such URLs, also when they come faster than the page is rendered:  *)
(* the range is not upside down, and there is no rarity with a category that *)
(* has none (use-item-filters.ts:41).                                        *)
Fits(u) ==
    /\ u.min # None /\ u.max # None => u.min <= u.max
    /\ u.rarity # None => isRarityCapable(u.kind)

ByLink == event \in {"link", "back"}

ChoicesFit == [][Fits(shown) => Fits(url') \/ ByLink']_vars

(* When the visitor stops, the box, the URL and the page end up with the     *)
(* same search, whatever was typed, chosen, loaded and rendered in between.  *)
(* Except: a link to what is still on the screen, followed before the search *)
(* just written was rendered, leaves nothing to render, and the box keeps a  *)
(* text that the URL no longer has (monster-filters.tsx:45).                 *)
Settled ==
    /\ going = None /\ mounted = page /\ shown = url
    /\ timer = None /\ (input = url.search \/ event = "back")

Settles == <>[]Settled
=============================================================================
