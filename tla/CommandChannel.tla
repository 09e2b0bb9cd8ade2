--------------------------- MODULE CommandChannel ---------------------------
(***************************************************************************)
(* What the app's command link promises of the operator's commands,        *)
(* without attempts to connect, transports, promises and heartbeats.  The  *)
(* commands are numbered by the clicks.  Some are under way: they may yet  *)
(* arrive, the oldest first.  The oldest may also fail, and takes no other *)
(* with it; or all of them are cut off together.  What is no longer under  *)
(* way never arrives.                                                      *)
(***************************************************************************)
EXTENDS Naturals

VARIABLES
  sent,       \* how many commands were sent
  underWay,   \* those that may still arrive
  arrived     \* the one that arrived last

channelVars == <<sent, underWay, arrived>>

ChannelInit == sent = 0 /\ underWay = {} /\ arrived = 0

\* Without a connection a command is never under way.
Send ==
  /\ sent' = sent + 1
  /\ underWay' \in {underWay, underWay \cup {sent'}}
  /\ UNCHANGED arrived

Oldest(n) == n \in underWay /\ \A m \in underWay : n <= m

Arrive(n) ==
  /\ Oldest(n)
  /\ underWay' = underWay \ {n}
  /\ arrived' = n
  /\ UNCHANGED sent

Fail(n) ==
  /\ Oldest(n)
  /\ underWay' = underWay \ {n}
  /\ UNCHANGED <<sent, arrived>>

\* The link is lost, or Disconnect clicked, or the transport changed.
CutOff ==
  /\ underWay' = {}
  /\ UNCHANGED <<sent, arrived>>

ChannelNext ==
  Send \/ CutOff \/ \E n \in underWay : Arrive(n) \/ Fail(n)

ChannelSpec == ChannelInit /\ [][ChannelNext]_channelVars
==============================================================================
