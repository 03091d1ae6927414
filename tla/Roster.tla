-------------------------------- MODULE Roster --------------------------------
(***************************************************************************)
(* One person's list of channels: what the database holds, the events that *)
(* announce activity, and the paged copy the browser keeps                 *)
(* (channels/routes.ts, channels/events.ts, use-channel-events.ts,         *)
(* queries.ts).                                                            *)
(*                                                                         *)
(* Time is counted in half milliseconds: a message is stamped by the       *)
(* browser, at an even tick, and a channel by the database, at any.  A page*)
(* holds one channel.                                                      *)
(***************************************************************************)
EXTENDS Naturals, Sequences, FiniteSets

CONSTANTS Channels,  \* natural numbers from 1, in the order of their ids
          Ticks,     \* the instants at which channels were created
          Spoken,    \* the (even) instants at which something is said
          MaxReports, MaxBreaks \* bounds: reports; breaks of either connection

VARIABLES created, last, \* channels.created_at and last_message_at, 0 if null
          heard,     \* history: the latest report of each channel
          list,      \* the cached pages
          fetch,     \* the fetch under way: the pages so far and how many are wanted
          wire,      \* events sent to the browser and not yet handled
          open,      \* the browser's socket
          listening, \* the server's LISTEN connection
          muddled,   \* history: an event was lost in silence, or met a fetch
          reports, breaks

vars == <<created, last, heard, list, fetch, wire, open, listening, muddled, reports, breaks>>
bounds == <<reports, breaks>>

End == [at |-> 0, ch |-> 0]
Start == [at |-> 100, ch |-> 0]
Idle == [on |-> FALSE, pages |-> <<>>, want |-> 0]

Recency(ch) == IF last[ch] = 0 THEN created[ch] ELSE last[ch]
Below(ch, cursor) ==
  Recency(ch) < cursor.at \/ (Recency(ch) = cursor.at /\ ch < cursor.ch)

\* encodeChannelCursor: a timestamp goes through a Date and loses what is below a
\* millisecond.
Cursor(ch) == [at |-> Recency(ch) - (Recency(ch) % 2), ch |-> ch]

\* ChannelStore.list with a limit of one: the most recent below the cursor, and where
\* the next page starts, if there is one.
Page(cursor) ==
  LET found == {ch \in Channels : Below(ch, cursor)}
      top == CHOOSE ch \in found :
               \A o \in found \ {ch} : Below(o, [at |-> Recency(ch), ch |-> ch]) IN
  IF found = {} THEN <<[ch |-> 0, at |-> 0, next |-> End]>>
  ELSE <<[ch |-> top, at |-> last[top],
          next |-> IF found = {top} THEN End ELSE Cursor(top)]>>

Init ==
  /\ created \in [Channels -> Ticks]
  /\ last = [ch \in Channels |-> 0] /\ heard = last
  /\ list = Page(Start)
  /\ fetch = Idle /\ wire = <<>> /\ open = FALSE /\ listening = TRUE
  /\ muddled = FALSE /\ reports = 0 /\ breaks = 0

Listed == {list[i].ch : i \in DOMAIN list} \ {0} \* 0: a page with nothing on it
FinalCursor(pages) == IF pages = <<>> THEN Start ELSE pages[Len(pages)].next

-----------------------------------------------------------------------------
(* The server.                                                             *)

\* recordActivity: only forwards, and announced in the same transaction. The listener
\* of the replica passes it on to the socket.
Newer_Any(ch, t) == TRUE

Newer(ch, t) == last[ch] = 0 \/ last[ch] < t

Report(ch, t) ==
  LET news == Newer(ch, t)
      sent == news /\ listening /\ open IN
  /\ reports < MaxReports /\ reports' = reports + 1
  /\ last' = [last EXCEPT ![ch] = IF news THEN t ELSE @]
  /\ heard' = [heard EXCEPT ![ch] = IF @ < t THEN t ELSE @]
  /\ wire' = IF sent THEN Append(wire, [ch |-> ch, at |-> t]) ELSE wire
  /\ muddled' = (muddled \/ (news /\ open /\ ~listening))
  /\ UNCHANGED <<created, list, fetch, open, listening, breaks>>

ListenerBreaks ==
  /\ listening /\ breaks < MaxBreaks /\ breaks' = breaks + 1 /\ listening' = FALSE
  /\ UNCHANGED <<created, last, heard, list, fetch, wire, open, muddled, reports>>

ListenerReturns ==
  /\ ~listening /\ listening' = TRUE
  /\ UNCHANGED <<created, last, heard, list, fetch, wire, open, muddled, bounds>>

-----------------------------------------------------------------------------
(* The browser.                                                            *)

\* invalidateQueries: as many pages as are held are fetched again, from the first, and
\* a fetch under way is given up.
Refetch ==
  /\ fetch' = [on |-> TRUE, pages |-> <<>>, want |-> IF list = <<>> THEN 1 ELSE Len(list)]
  /\ muddled' = (muddled /\ wire' # <<>>)

SocketCloses ==
  /\ open /\ breaks < MaxBreaks /\ breaks' = breaks + 1
  /\ open' = FALSE /\ wire' = <<>>
  /\ UNCHANGED <<created, last, heard, list, fetch, listening, muddled, reports>>

SocketOpens_Quiet ==
  /\ ~open /\ open' = TRUE
  /\ UNCHANGED <<created, last, heard, list, fetch, wire, listening, muddled, bounds>>

SocketOpens ==
  /\ ~open /\ open' = TRUE /\ UNCHANGED wire /\ Refetch
  /\ UNCHANGED <<created, last, heard, list, listening, bounds>>

\* An event patches the row it is about, as it is, or has everything fetched again.
Handles ==
  /\ wire # <<>> /\ wire' = Tail(wire)
  /\ \/ /\ Head(wire).ch \notin Listed /\ Refetch /\ UNCHANGED list
     \/ /\ Head(wire).ch \in Listed
        /\ list' = [i \in DOMAIN list |-> IF list[i].ch = Head(wire).ch
                                          THEN [list[i] EXCEPT !.at = Head(wire).at]
                                          ELSE list[i]]
        /\ muddled' = (muddled \/ fetch.on) /\ UNCHANGED fetch
  /\ UNCHANGED <<created, last, heard, open, listening, bounds>>

\* The person scrolls: fetchNextPage, from the pages as they are.
LoadMore ==
  /\ ~fetch.on /\ list # <<>> /\ FinalCursor(list) # End
  /\ fetch' = [on |-> TRUE, pages |-> list, want |-> Len(list) + 1]
  /\ UNCHANGED <<created, last, heard, list, wire, open, listening, muddled, bounds>>

\* One request, answered from the database; the list is replaced after the last.
FetchPage ==
  /\ fetch.on
  /\ LET pages == fetch.pages \o Page(FinalCursor(fetch.pages))
         over == Len(pages) = fetch.want \/ FinalCursor(pages) = End IN
     /\ list' = IF over THEN pages ELSE list
     /\ fetch' = IF over THEN Idle ELSE [fetch EXCEPT !.pages = pages]
  /\ UNCHANGED <<created, last, heard, wire, open, listening, muddled, bounds>>

Next ==
  \/ \E ch \in Channels, t \in Spoken : Report(ch, t)
  \/ ListenerBreaks \/ ListenerReturns \/ SocketCloses \/ SocketOpens
  \/ Handles \/ LoadMore \/ FetchPage

Spec == Init /\ [][Next]_vars

-----------------------------------------------------------------------------
Row == [ch : Channels \cup {0}, at : {0} \cup Spoken, next : [at : Nat, ch : Nat]]
TypeOK ==
  /\ created \in [Channels -> Ticks]
  /\ last \in [Channels -> {0} \cup Spoken] /\ heard \in [Channels -> {0} \cup Spoken]
  /\ list \in Seq(Row) /\ fetch.pages \in Seq(Row) /\ fetch.on \in BOOLEAN
  /\ open \in BOOLEAN /\ listening \in BOOLEAN /\ muddled \in BOOLEAN

Quiet == open /\ ~fetch.on /\ wire = <<>>
Apart == \A ch \in Channels :
  /\ \A o \in Channels \ {ch} : created[ch] \div 2 # created[o] \div 2
  /\ \A t \in Spoken : created[ch] \div 2 # t \div 2

\* Reports may come out of order and the database keeps the latest ("Only ever move
\* forwards"); and a roster at rest shows what the database holds, and all of it once
\* every page is loaded, whatever connections broke and whatever was said while pages
\* were fetched ("a client that misses events while disconnected recovers by
\* refetching"): unless the server's listener lost an event, an event met a fetch, or
\* a channel was created in the millisecond of another or of a message.
RosterPromise ==
  /\ TypeOK /\ last = heard
  /\ Quiet /\ ~muddled =>
       /\ \A i \in DOMAIN list : list[i].ch # 0 => list[i].at = last[list[i].ch]
       /\ Apart /\ FinalCursor(list) = End => Listed = Channels

\* A roster at rest is current whatever happened.
EveryQuietRosterIsCurrent ==
  Quiet => \A i \in DOMAIN list : list[i].ch # 0 => list[i].at = last[list[i].ch]

\* A page stopped at "both halves of the sort, since two channels can share a
\* timestamp": every channel is on some page of a roster in which nobody said a word.
EveryChannelIsListed ==
  Quiet /\ reports = 0 /\ FinalCursor(list) = End => Listed = Channels
==============================================================================
