---------------------------- MODULE BrowserFeed ----------------------------
(***************************************************************************)
(* One browser (ws_manager.js) over the table of WebSocket clients         *)
(* (WsClients): it connects again 1.5 s after its socket closed, closes a  *)
(* socket that has been silent for 15 s, and sends a keepalive every 5 s,  *)
(* which calls the server's handler: the client is tracked again if there  *)
(* is a slot, and gets an answer in any case, so that a browser without a  *)
(* slot does not notice.                                                   *)
(*                                                                         *)
(* What may go wrong is counted: the network breaks the link without a     *)
(* word, the server purges the session, a send fails or finds no memory,   *)
(* the table's lock is not had in time, the live link is silent for 15 s,  *)
(* another client comes, the updater broadcasts as well.  When no more     *)
(* goes wrong, the feed has to come back - while there is a slot for it.   *)
(***************************************************************************)
EXTENDS WsClients

CONSTANTS
  Publisher,  \* the broadcaster that publishes the status every second
  MaxFaults   \* bound of the exploration: how often something goes wrong

ASSUME BrowserFeedAssumption == Publisher \in Broadcasters /\ MaxFaults \in Nat

VARIABLES
  browser,    \* its socket at the server, its link, a broadcast since its last keepalive
  faults      \* how much may still go wrong

feedVars == <<vars, browser, faults>>

Links == {"down", "opening", "open", "dead"}
Down == [socket |-> NoSocket, link |-> "down", fed |-> FALSE]

Fault == faults > 0 /\ faults' = faults - 1
NoFault == UNCHANGED faults
(* Something that is a fault when it happens to the browser. *)
FaultOf(s) == IF s = browser.socket THEN Fault ELSE NoFault

FeedInit == Init /\ browser = Down /\ faults = MaxFaults

-----------------------------------------------------------------------------
(* The browser. *)
connect(s) ==
  /\ browser.link = "down"
  /\ Accept(s)
  /\ browser' = [Down EXCEPT !.socket = s, !.link = "opening"]
  /\ NoFault

Opened ==
  /\ browser.link = "opening"
  /\ HandlerCalled(browser.socket)
  /\ browser' = [browser EXCEPT !.link = "open"]
  /\ NoFault

(* Mutant of Keepalive: only the upgrade tracks a client. *)
KeepaliveUntracked ==
  /\ browser.link = "open"
  /\ browser' = [browser EXCEPT !.fed = FALSE]
  /\ UNCHANGED <<vars, faults>>

Keepalive ==
  /\ browser.link = "open"
  /\ HandlerCalled(browser.socket)
  /\ browser' = [browser EXCEPT !.fed = FALSE]
  /\ NoFault

(* The stale timer closes a dead link, of which the server hears nothing,  *)
(* or a live one whose keepalives were not answered for 15 s.              *)
CloseDead ==
  /\ browser.link = "dead"
  /\ browser' = Down
  /\ UNCHANGED <<vars, faults>>

CloseSilent ==
  /\ browser.link = "open"
  /\ untrack_client(browser.socket)
  /\ browser' = Down
  /\ Fault

(* The network breaks the link; the server keeps the session. *)
Break ==
  /\ browser.link \in {"opening", "open"}
  /\ browser' = [Down EXCEPT !.link = "dead"]
  /\ Fault
  /\ UNCHANGED vars

(* The close event of the browser when its session s ends at the server. *)
Closed(s) == browser' = IF s = browser.socket THEN Down ELSE browser

-----------------------------------------------------------------------------
(* The HTTP server. *)
DropSession(s) == Drop(s) /\ Closed(s) /\ FaultOf(s)

EndSession(s) ==
  /\ s # browser.socket
  /\ untrack_client(s)
  /\ UNCHANGED <<browser, faults>>

(* lru_purge_enable: a new connection takes the place of an idle session. *)
Purge ==
  /\ browser.link = "down"
  /\ \A s \in Sockets : session[s] # "closed"
  /\ \E s \in Sockets : Drop(s)
  /\ UNCHANGED <<browser, faults>>

(* Another client comes, and stays with keepalives of its own. *)
OtherClient(s) ==
  /\ s # browser.socket
  /\ \/ Accept(s) /\ Fault
     \/ HandlerCalled(s) /\ NoFault
  /\ UNCHANGED browser

Track ==
  /\ \/ track_client /\ NoFault
     \/ TrackTimesOut /\ Fault
  /\ UNCHANGED browser

(* A send to the browser's live session fails only by a fault; that a      *)
(* client had no success for 30 s is one as well.                          *)
Complete ==
  \E ok, stalled \in BOOLEAN :
    LET s == Head(queue).socket
    IN /\ ws_async_send_complete(ok, stalled)
       /\ browser' = IF ok /\ s = browser.socket /\ browser.link = "open"
                     THEN [browser EXCEPT !.fed = TRUE] ELSE browser
       /\ IF ok THEN NoFault ELSE IF stalled THEN Fault ELSE FaultOf(s)

CloseQueued == CloseSession /\ Closed(Head(queue).socket) /\ NoFault

BroadcastStep(b) ==
  /\ \/ /\ Skip(b) \/ Claim(b) \/ Check(b) \/ Send(b) \/ TriggerClose(b) \/ clear_client_slot(b)
        /\ IF b # Publisher /\ sender[b] = Claiming(1) THEN Fault ELSE NoFault
     \/ \E stalled \in BOOLEAN :
          /\ GiveUp(b, stalled)
          /\ IF stalled \/ sender[b].at = "send" THEN Fault ELSE NoFault
     \/ ClearTimesOut(b) /\ Fault
  /\ UNCHANGED browser

Rested(i) == RetryAfter(i) /\ UNCHANGED <<browser, faults>>

FeedNext ==
  \/ Opened \/ Keepalive \/ CloseDead \/ CloseSilent \/ Break
  \/ Purge \/ Track \/ Complete \/ CloseQueued
  \/ \E s \in Sockets : connect(s) \/ DropSession(s) \/ EndSession(s) \/ OtherClient(s)
  \/ \E b \in Broadcasters : BroadcastStep(b)
  \/ \E i \in Slots : Rested(i)

(* The browser's timers run; the HTTP server's task serves every request   *)
(* and its queue in the end; the publisher broadcasts for ever, the other  *)
(* broadcaster finishes what it has begun.                                 *)
FeedFairness ==
  /\ SF_feedVars(\E s \in Sockets : connect(s))
  /\ SF_feedVars(Opened)
  /\ SF_feedVars(Keepalive)
  /\ WF_feedVars(CloseDead)
  /\ SF_feedVars(Purge)
  /\ WF_feedVars(Track)
  /\ SF_feedVars(Complete \/ CloseQueued)
  /\ WF_feedVars(BroadcastStep(Publisher))
  /\ \A b \in Broadcasters : WF_feedVars(sender[b] # Claiming(1) /\ BroadcastStep(b))
  /\ \A i \in Slots : WF_feedVars(Rested(i))

FeedSpec == FeedInit /\ [][FeedNext]_feedVars /\ FeedFairness
-----------------------------------------------------------------------------
(* Every slot has another client with a live session. *)
FullOfOthers ==
  \A i \in Slots : /\ client[i].socket \notin {NoSocket, browser.socket}
                   /\ session[client[i].socket] = "ws"

(* Whatever went wrong - a link that broke silently, a client cleared with *)
(* its predecessor on the same socket, a close meant for another session,  *)
(* failed sends, a lock not had in time, slots of clients that are gone -  *)
(* the browser gets broadcasts again and again once nothing more goes      *)
(* wrong, unless other clients keep every slot.                            *)
FeedResumes == <>[]~FullOfOthers => []<>browser.fed
=============================================================================
