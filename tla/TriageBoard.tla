---------------------------- MODULE TriageBoard ----------------------------
(***************************************************************************)
(* The triage page: every brick a card in the column of its review status,  *)
(* moved by drag and drop.  The controller has a copy of the board in       *)
(* memory; the cards are in the page's DOM, each with a listener that keeps *)
(* the column the card was built in.  A move is an index looked up before   *)
(* its request and used after it.                                           *)
(***************************************************************************)
EXTENDS Naturals, Sequences, FiniteSets, SequencesExt

CONSTANTS
    Nanobars, Bricks, Columns,
    Bound,      \* of each nanobar, its bricks
    Fallback,   \* the column of a brick without a status: "new"
    PagedList,  \* GET /nanobars answers with a page of items, not with a list of them
    MaxDrops,   \* bound of the model: cards dropped
    None

ASSUME TriageBoardAssumption ==
    /\ IsFiniteSet(Bricks)
    /\ Bound \in [Nanobars -> SUBSET Bricks]
    /\ Fallback \in Columns /\ None \notin Columns
    /\ PagedList \in BOOLEAN /\ MaxDrops \in Nat

VARIABLES
    review,   \* of each brick, the status the server has; None: it has none
    status,   \* what the page as a whole shows
    fetching, \* the nanobars whose bricks are on their way
    found,    \* bricksById, in the order of insertion
    board,    \* boardState
    card,     \* of each brick, the column its card is in; None: it has no card
    built,    \* of each card, the column that its dragstart listener remembers
    pending,  \* the cards that cannot be dragged
    errors,   \* the cards with an error message
    moves,    \* the onCardMove() that wait, each with its request
    (* history *)
    drops,
    lost,     \* a request of loadBoard() was lost
    hurried   \* the columns that a card was dropped from while another of theirs was moving

dom  == <<card, built, pending, errors>>
load == <<status, fetching, found, lost>>
vars == <<review, load, board, dom, moves, drops, hurried>>

Init ==
    /\ review \in [Bricks -> Columns \cup {None}]
    /\ status = "loading"
    /\ fetching = {} /\ found = <<>>
    /\ board = [c \in Columns |-> <<>>]
    /\ card = [b \in Bricks |-> None] /\ built = card
    /\ pending = {} /\ errors = {} /\ moves = {}
    /\ drops = 0 /\ lost = FALSE /\ hurried = {}

---------------------------------------------------------------------------
(* loadBoard() *)

InColumn(b, c) == c = IF review[b] \in Columns THEN review[b] ELSE Fallback

(* The bricks of a column, in the order of the map. *)
OfColumn(bricks, c) ==
    LET places == {i \in DOMAIN bricks : InColumn(bricks[i], c)}
        Nth(k) == CHOOSE i \in places : Cardinality({j \in places : j <= i}) = k
    IN  [k \in 1..Cardinality(places) |-> bricks[Nth(k)]]

(* The last answer about bricks is in: the columns, and a card for each brick. *)
RenderBoard(bricks) ==
    LET column(b) == CHOOSE c \in Columns : InColumn(b, c)
    IN /\ status' = "shown"
       /\ board' = [c \in Columns |-> OfColumn(bricks, c)]
       /\ card' = [b \in Bricks |-> IF b \in ToSet(bricks) THEN column(b) ELSE None]
       /\ built' = card'

(* The answer to GET /nanobars.  The page maps over it as over a list: a page *)
(* of items has no map(), which ends in init()'s catch clause.               *)
NanobarsAnswered ==
    /\ status = "loading" /\ fetching = {} /\ found = <<>>
    /\ IF PagedList
       THEN status' = "unreached" /\ UNCHANGED <<fetching, board, card, built>>
       ELSE /\ fetching' = Nanobars
            /\ IF Nanobars = {} THEN RenderBoard(found)
                               ELSE UNCHANGED <<status, board, card, built>>
    /\ UNCHANGED <<review, found, lost, pending, errors, moves, drops, hurried>>

NanobarsRefused ==
    /\ status = "loading" /\ fetching = {} /\ found = <<>>
    /\ status' = "error"
    /\ UNCHANGED <<review, fetching, found, lost, board, dom, moves, drops, hurried>>

NanobarsLost ==
    /\ status = "loading" /\ fetching = {} /\ found = <<>>
    /\ status' = "unreached" /\ lost' = TRUE
    /\ UNCHANGED <<review, fetching, found, board, dom, moves, drops, hurried>>

(* A brick bound to several nanobars is taken once; the bricks of a nanobar   *)
(* whose request fails are left out.                                          *)
BricksAnswered(n) ==
    /\ n \in fetching
    /\ fetching' = fetching \ {n}
    /\ found' \in {found, found \o SetToSeq(Bound[n] \ ToSet(found))}
    /\ IF fetching = {n} THEN RenderBoard(found') ELSE UNCHANGED <<status, board, card, built>>
    /\ UNCHANGED <<review, lost, pending, errors, moves, drops, hurried>>

---------------------------------------------------------------------------
(* onCardMove() *)

Located(b) == {c \in Columns : \E i \in DOMAIN board[c] : board[c][i] = b}

IndexOf(b, c) == CHOOSE i \in DOMAIN board[c] :
                     /\ board[c][i] = b
                     /\ \A j \in DOMAIN board[c] : board[c][j] = b => i <= j

SetCardPending(b, c, on) ==
    pending' = IF card[b] = c THEN (IF on THEN pending \cup {b} ELSE pending \ {b}) ELSE pending

(* The user drops the card of b on column c. *)
Drop(b, c) ==
    LET from == built[b]
    IN /\ status = "shown" /\ card[b] # None /\ b \notin pending /\ drops < MaxDrops
       /\ c # from
       /\ drops' = drops + 1
       /\ IF from \in Located(b)
          THEN /\ moves' = moves \cup {[id |-> drops + 1, brick |-> b, from |-> from, to |-> c,
                                        idx |-> IndexOf(b, from), at |-> "sent"]}
               /\ SetCardPending(b, from, TRUE)
               /\ hurried' = hurried \cup ({from} \cap {m.from : m \in moves})
          ELSE UNCHANGED <<moves, pending, hurried>>
       /\ UNCHANGED <<review, load, board, card, built, errors>>

Handle(m) ==
    /\ m.at = "sent"
    /\ review' = [review EXCEPT ![m.brick] = m.to]
    /\ moves' = (moves \ {m}) \cup {[m EXCEPT !.at = "handled"]}
    /\ UNCHANGED <<load, board, dom, drops, hurried>>

MoveCardToColumn(m) ==
    /\ card' = [card EXCEPT ![m.brick] = IF @ = m.from THEN m.to ELSE @]
    /\ errors' = IF card[m.brick] = m.from THEN errors \ {m.brick} ELSE errors

ShowCardError(m) ==
    /\ errors' = IF card[m.brick] = m.from THEN errors \cup {m.brick} ELSE errors
    /\ UNCHANGED card

(* Mutant of MoveAnswered: a brick joins its new column in front.             *)
MoveAnsweredInFront(m) ==
    /\ m.at = "handled"
    /\ moves' = moves \ {m}
    /\ SetCardPending(m.brick, m.from, FALSE)
    /\ IF m.idx \in DOMAIN board[m.from]
       THEN /\ board' = [board EXCEPT ![m.from] = RemoveAt(@, m.idx),
                                      ![m.to] = <<board[m.from][m.idx]>> \o @]
            /\ MoveCardToColumn(m)
       ELSE ShowCardError(m) /\ UNCHANGED board
    /\ UNCHANGED <<review, load, built, drops, hurried>>

(* Mutant of MoveAnswered: what is removed is not what is pushed. *)
MoveAnsweredPushesBrick(m) ==
    /\ m.at = "handled"
    /\ moves' = moves \ {m}
    /\ SetCardPending(m.brick, m.from, FALSE)
    /\ IF m.idx \in DOMAIN board[m.from]
       THEN /\ board' = [board EXCEPT ![m.from] = RemoveAt(@, m.idx),
                                      ![m.to] = Append(@, m.brick)]
            /\ MoveCardToColumn(m)
       ELSE ShowCardError(m) /\ UNCHANGED board
    /\ UNCHANGED <<review, load, built, drops, hurried>>

(* Whatever is at the index now changes columns; past the end of the column   *)
(* there is nothing, and the TypeError is shown as a failure of the network.   *)
MoveAnswered(m) ==
    /\ m.at = "handled"
    /\ moves' = moves \ {m}
    /\ SetCardPending(m.brick, m.from, FALSE)
    /\ IF m.idx \in DOMAIN board[m.from]
       THEN /\ board' = [board EXCEPT ![m.from] = RemoveAt(@, m.idx),
                                      ![m.to] = Append(@, board[m.from][m.idx])]
            /\ MoveCardToColumn(m)
       ELSE ShowCardError(m) /\ UNCHANGED board
    /\ UNCHANGED <<review, load, built, drops, hurried>>

(* Mutant of MoveFailed: the card stays dimmed. *)
MoveFailedStaysPending(m) ==
    /\ moves' = moves \ {m}
    /\ ShowCardError(m)
    /\ UNCHANGED <<review, load, pending, board, built, drops, hurried>>

(* Refused, or lost on the way there or back. *)
MoveFailed(m) ==
    /\ moves' = moves \ {m}
    /\ SetCardPending(m.brick, m.from, FALSE)
    /\ ShowCardError(m)
    /\ UNCHANGED <<review, load, board, built, drops, hurried>>

---------------------------------------------------------------------------
Network ==
    \/ NanobarsAnswered \/ NanobarsRefused \/ NanobarsLost
    \/ \E n \in Nanobars : BricksAnswered(n)
    \/ \E m \in moves : Handle(m) \/ MoveAnswered(m) \/ MoveFailed(m)

(* Nothing is on its way, and the page fell, is empty or was played with enough. *)
Rest ==
    /\ moves = {} /\ status # "loading"
    /\ UNCHANGED vars

Next == Network \/ (\E b \in Bricks, c \in Columns : Drop(b, c)) \/ Rest

Spec     == Init /\ [][Next]_vars
FairSpec == Spec /\ WF_vars(Network)

---------------------------------------------------------------------------
Cards == {b \in Bricks : card[b] # None}

(* The copy in memory never loses a brick and never has one twice, even when  *)
(* moves of one column overlap and an index has become that of another brick.  *)
EachBrickOnce ==
    \A b \in Cards : \E c \in Columns :
        /\ Located(b) = {c}
        /\ Cardinality({i \in DOMAIN board[c] : board[c][i] = b}) = 1

(* Moves of different columns may overlap as they like, and moves of one      *)
(* column harm the cards that come from it or went to it, no others: each     *)
(* other card is where the copy in memory has its brick, and one at rest is   *)
(* in the column the server has for it, or says that its last move failed.    *)
BoardInSync ==
    \A b \in Cards : {built[b], card[b]} \cap hurried = {} =>
        /\ Located(b) = {card[b]}
        /\ InColumn(b, card[b]) \/ b \in pending \cup errors

(* The page is loaded or says that it is not, and no card stays dimmed.       *)
Settles == []<>(status # "loading" /\ moves = {} /\ pending = {})

(* triage-controller.js:118, triage-api.js:13-14: the page says that it could *)
(* not reach the server only when the network request itself failed.          *)
UnreachedMeansLost == status = "unreached" => lost
============================================================================
