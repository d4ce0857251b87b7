------------------------- MODULE HostSessionProofs -------------------------
(***************************************************************************)
(* Proofs about HostSession, for any inputs, requests and clients.         *)
(***************************************************************************)
EXTENDS HostSession, TLAPS

Idle == {"listening", "stopped"}

\* Where served sessions are: the frame loop and what follows it
Serving == phase \in {"frames", "release"} \/ (phase = "closing" /\ at = "loop")

\* What is down was down before, or is known to be pressed; a session that reached
\* the frame loop ends by way of release_remote_inputs.
Tracked ==
    /\ phase \notin Idle => down \subseteq inherited \cup pressed
    /\ phase \notin Idle /\ served => Serving
    /\ phase \in Idle /\ served => down \subseteq inherited

\* No channel calls anything once close() is done.
Silent ==
    /\ callback \in [Threads -> {"idle", "ready", "open", "feedback"} \cup Configs]
    /\ phase \in Idle \cup {"release"} => \A t \in Channels : callback[t] = "idle"

\* What the host is ready for when a client that keeps to the protocol may send it
InStep ==
    /\ phase \in {"validate", "data", "setup", "ready", "frames"} => request # None
    /\ header_sent => /\ phase # "establishing"
                      /\ request # None
                      /\ enabled <=> request \in Flagged
    /\ conforming /\ client = "connected" =>
         request = None /\ callback["control"] \notin Configs
    /\ conforming /\ callback["control"] \in Configs => request = None
    /\ conforming /\ client = "ready" => header_sent

---------------------------------------------------------------------------

\* Only waits block, whatever is notified and whichever way main closes.
LEMMA PlacesType == TypeOK /\ [Next]_vars => PlacesOK'
<1> SUFFICES ASSUME TypeOK, [Next]_vars PROVE PlacesOK'
  OBVIOUS
<1> USE DEF PlacesOK, Waits
<1>1. CASE Connect \/ Established
  BY <1>1 DEF TypeOK, Connect, Established
<1>2. CASE EstablishFails \/ Validate
  BY <1>2 DEF TypeOK, EstablishFails, Validate, CloseFrom
<1>3. CASE Test
  BY <1>3 DEF TypeOK, Test, Waits, CloseFrom, ClosesInBlock, AfterWait
<1>4. CASE Block \/ WaitExpires
  BY <1>4 DEF TypeOK, Block, WaitExpires, Waits
<1>5. CASE Setup \/ LoopEnds
  BY <1>5 DEF TypeOK, Setup, LoopEnds, CloseFrom
<1>6. CASE Closed \/ Release
  BY <1>6 DEF TypeOK, Closed, Release, NextSession, Waits
<1>7. CASE Requested \/ ReadyNoted
  BY <1>7 DEF TypeOK, Requested, ReadyNoted, Notified
<1>8. CASE \E t \in {"track", "data"} : OpenNoted(t)
  BY <1>8 DEF TypeOK, OpenNoted, Notified
<1>9. CASE \E r \in Configs : Config(r)
  BY <1>9 DEF TypeOK, Config
<1>10. CASE Ready
  BY <1>10 DEF TypeOK, Ready
<1>11. CASE \E i \in Inputs : Press(i) \/ Lift(i)
  BY <1>11 DEF TypeOK, Press, Lift
<1>12. CASE FlaggedRefused \/ ClockRefused \/ Malformed \/ TransportFails
  BY <1>12 DEF TypeOK, FlaggedRefused, ClockRefused, Malformed, TransportFails, Refuse, Notified
<1>13. CASE ChannelOpens("track", video_open) \/ ChannelOpens("data", video_data_open)
  BY <1>13 DEF TypeOK, ChannelOpens
<1>14. CASE Stop
  BY <1>14 DEF TypeOK, Stop, Waits
<1>15. CASE UNCHANGED vars
  BY <1>15 DEF TypeOK, vars
<1>16. CASE RtcpArrives \/ RtcpHandled
  BY <1>16 DEF TypeOK, RtcpArrives, RtcpHandled
<1> QED
  BY <1>1, <1>2, <1>3, <1>4, <1>5, <1>6, <1>7, <1>8, <1>9, <1>10, <1>11, <1>12, <1>13, <1>14,
     <1>15, <1>16 DEF Next, Main, Noted, Called

\* The flags of a session keep their types.
LEMMA SessionType == TypeOK /\ [Next]_vars => SessionOK'
<1> SUFFICES ASSUME TypeOK, [Next]_vars PROVE SessionOK'
  OBVIOUS
<1> USE DEF SessionOK
<1>1. CASE Connect \/ Established
  BY <1>1, ConfigsAssumption DEF TypeOK, Connect, Established, handshake
<1>2. CASE EstablishFails \/ Validate
  BY <1>2, ConfigsAssumption DEF TypeOK, EstablishFails, Validate, CloseFrom, handshake
<1>3. CASE Test
  BY <1>3, ConfigsAssumption DEF TypeOK, Test, Waits, CloseFrom, ClosesInBlock, AfterWait, handshake
<1>4. CASE Block \/ WaitExpires
  BY <1>4, ConfigsAssumption DEF TypeOK, Block, WaitExpires, Waits, handshake
<1>5. CASE Setup
  <2>1. enabled' \in BOOLEAN
    <3>1. enabled' = (request \in Flagged)
      BY <1>5, Zenon DEF Setup
    <3> QED BY <3>1
  <2>2. header_sent' \in BOOLEAN
    BY <1>5 DEF TypeOK, Setup
  <2>3. UNCHANGED <<running, session_running, handshake, callback, transport>>
    BY <1>5 DEF Setup
  <2> QED BY <2>1, <2>2, <2>3 DEF TypeOK, handshake
<1>6. CASE Closed \/ Release
  BY <1>6, ConfigsAssumption DEF TypeOK, Closed, Release, NextSession, Waits, handshake
<1>7. CASE Requested \/ ReadyNoted
  BY <1>7, ConfigsAssumption DEF TypeOK, Requested, ReadyNoted, Notified, handshake
<1>8. CASE \E t \in {"track", "data"} : OpenNoted(t)
  BY <1>8, ConfigsAssumption DEF TypeOK, OpenNoted, Notified, handshake
<1>9. CASE \E r \in Configs : Config(r)
  <2>1. PICK r \in Configs : callback' = [callback EXCEPT !["control"] = r]
    BY <1>9 DEF Config
  <2>2. callback' \in [Threads -> {"idle", "ready", "open", "feedback"} \cup Configs]
    BY <2>1 DEF TypeOK
  <2>3. UNCHANGED <<running, session_running, handshake, enabled, header_sent, transport>>
    BY <1>9 DEF Config
  <2> QED BY <2>2, <2>3 DEF TypeOK, handshake
<1>10. CASE Ready
  BY <1>10, ConfigsAssumption DEF TypeOK, Ready, handshake
<1>11. CASE \E i \in Inputs : Press(i) \/ Lift(i)
  BY <1>11, ConfigsAssumption DEF TypeOK, Press, Lift, handshake
<1>12. CASE FlaggedRefused \/ ClockRefused \/ Malformed \/ TransportFails
  BY <1>12, ConfigsAssumption DEF TypeOK, FlaggedRefused, ClockRefused, Malformed, TransportFails, Refuse, Notified, handshake
<1>13. CASE ChannelOpens("track", video_open) \/ ChannelOpens("data", video_data_open)
  BY <1>13, ConfigsAssumption DEF TypeOK, ChannelOpens, handshake
<1>14. CASE Stop
  BY <1>14, ConfigsAssumption DEF TypeOK, Stop, Waits, handshake
<1>15. CASE UNCHANGED vars
  BY <1>15, ConfigsAssumption DEF TypeOK, vars, handshake
<1>16. CASE LoopEnds
  BY <1>16 DEF TypeOK, LoopEnds, handshake
<1>17. CASE RtcpArrives \/ RtcpHandled
  <2>1. callback' \in [Threads -> {"idle", "ready", "open", "feedback"} \cup Configs]
    BY <1>17 DEF TypeOK, RtcpArrives, RtcpHandled
  <2>2. UNCHANGED <<running, session_running, handshake, enabled, header_sent, transport>>
    BY <1>17 DEF RtcpArrives, RtcpHandled
  <2> QED BY <2>1, <2>2 DEF TypeOK, handshake
<1> QED
  BY <1>17, <1>16, <1>1, <1>2, <1>3, <1>4, <1>5, <1>6, <1>7, <1>8, <1>9, <1>10, <1>11, <1>12, <1>13, <1>14, <1>15
     DEF Next, Main, Noted, Called

\* The inputs, the client and the history keep their types.
LEMMA PeerType == TypeOK /\ [Next]_vars => PeerOK'
<1> SUFFICES ASSUME TypeOK, [Next]_vars PROVE PeerOK'
  OBVIOUS
<1> USE DEF PeerOK
<1>1. CASE Connect \/ Established
  BY <1>1, ConfigsAssumption DEF TypeOK, Connect, Established, inputs, peer, history
<1>2. CASE EstablishFails \/ Validate
  BY <1>2, ConfigsAssumption DEF TypeOK, EstablishFails, Validate, CloseFrom, inputs, peer, history
<1>3. CASE Test
  BY <1>3, ConfigsAssumption DEF TypeOK, Test, Waits, CloseFrom, ClosesInBlock, AfterWait, inputs, peer, history
<1>4. CASE Block \/ WaitExpires
  BY <1>4, ConfigsAssumption DEF TypeOK, Block, WaitExpires, Waits, inputs, peer, history
<1>5. CASE Setup \/ LoopEnds
  BY <1>5, ConfigsAssumption DEF TypeOK, Setup, LoopEnds, CloseFrom, inputs, peer, history
<1>6. CASE Closed \/ Release
  BY <1>6, ConfigsAssumption DEF TypeOK, Closed, Release, NextSession, Waits, inputs, peer, history
<1>7. CASE Requested \/ ReadyNoted
  BY <1>7, ConfigsAssumption DEF TypeOK, Requested, ReadyNoted, Notified, inputs, peer, history
<1>8. CASE \E t \in {"track", "data"} : OpenNoted(t)
  BY <1>8, ConfigsAssumption DEF TypeOK, OpenNoted, Notified, inputs, peer, history
<1>9. CASE \E r \in Configs : Config(r)
  BY <1>9, ConfigsAssumption DEF TypeOK, Config, inputs, peer, history
<1>10. CASE Ready
  BY <1>10, ConfigsAssumption DEF TypeOK, Ready, inputs, peer, history
<1>11. CASE \E i \in Inputs : Press(i) \/ Lift(i)
  BY <1>11, ConfigsAssumption DEF TypeOK, Press, Lift, inputs, peer, history
<1>12. CASE FlaggedRefused \/ ClockRefused \/ Malformed \/ TransportFails
  BY <1>12, ConfigsAssumption DEF TypeOK, FlaggedRefused, ClockRefused, Malformed, TransportFails, Refuse, Notified, inputs, peer, history
<1>13. CASE ChannelOpens("track", video_open) \/ ChannelOpens("data", video_data_open)
  BY <1>13, ConfigsAssumption DEF TypeOK, ChannelOpens, inputs, peer, history
<1>14. CASE Stop
  BY <1>14, ConfigsAssumption DEF TypeOK, Stop, Waits, inputs, peer, history
<1>15. CASE UNCHANGED vars
  BY <1>15, ConfigsAssumption DEF TypeOK, vars, inputs, peer, history
<1>16. CASE RtcpArrives \/ RtcpHandled
  BY <1>16 DEF TypeOK, RtcpArrives, RtcpHandled, inputs, peer, history
<1> QED
  BY <1>1, <1>2, <1>3, <1>4, <1>5, <1>6, <1>7, <1>8, <1>9, <1>10, <1>11, <1>12, <1>13, <1>14,
     <1>15, <1>16 DEF Next, Main, Noted, Called

\* The state of the model keeps its type.
THEOREM TypeCorrect == Spec => []TypeOK
<1>1. Init => TypeOK
  BY ConfigsAssumption DEF Init, TypeOK, PlacesOK, SessionOK, PeerOK, Threads, Channels, Waits
<1>2. TypeOK /\ [Next]_vars => TypeOK'
  BY PlacesType, SessionType, PeerType DEF TypeOK
<1> QED BY <1>1, <1>2, PTL DEF Spec

---------------------------------------------------------------------------

\* Tracked is inductive, whichever thread takes the step.
LEMMA TrackedInvariant == Spec => []Tracked
<1>1. Init => Tracked
  BY DEF Init, Tracked, Idle
<1>2. Tracked /\ [Next]_vars => Tracked'
  <2> SUFFICES ASSUME Tracked, [Next]_vars PROVE Tracked'
    OBVIOUS
  <2> USE DEF Tracked, Idle, Serving
  <2>1. CASE Connect
    BY <2>1 DEF Connect, inputs
  <2>2. CASE Established \/ EstablishFails
    BY <2>2 DEF Established, EstablishFails, CloseFrom, inputs, history
  <2>3. CASE Test
    BY <2>3 DEF Test, Waits, CloseFrom, AfterWait, inputs
  <2>4. CASE Block \/ WaitExpires
    BY <2>4 DEF Block, WaitExpires, inputs, history
  <2>5. CASE Validate \/ Setup
    BY <2>5 DEF Validate, Setup, CloseFrom, inputs, history
  <2>6. CASE LoopEnds
    BY <2>6 DEF LoopEnds, CloseFrom, inputs, history
  <2>7. CASE Closed
    BY <2>7 DEF Closed, NextSession, inputs, history
  <2>8. CASE Release
    BY <2>8 DEF Release, NextSession, history
  <2>9. CASE Noted
    <3>1. at' = Notified /\ UNCHANGED <<phase, inputs, history>>
      BY <2>9 DEF Noted, Requested, ReadyNoted, OpenNoted
    <3> QED BY <3>1 DEF Notified, inputs, history
  <2>10. CASE Called
    <3>1. CASE \E i \in Inputs : Press(i) \/ Lift(i)
      BY <3>1 DEF Press, Lift, Sends, Live, history
    <3>2. CASE ~(\E i \in Inputs : Press(i) \/ Lift(i))
      <4>1. at' \in {at, Notified} /\ UNCHANGED <<phase, inputs, history>>
        BY <2>10, <3>2 DEF Called, Config, Ready, FlaggedRefused, ClockRefused, Malformed,
                           Refuse, ChannelOpens, RtcpArrives
      <4> QED BY <4>1 DEF Notified, inputs, history
    <3> QED BY <3>1, <3>2
  <2>11. CASE TransportFails
    BY <2>11 DEF TransportFails, Refuse, Notified, inputs, history
  <2>12. CASE Stop
    BY <2>12 DEF Stop, inputs, history
  <2>13. CASE RtcpHandled \/ UNCHANGED vars
    BY <2>13 DEF RtcpHandled, vars, inputs, history
  <2> QED
    BY <2>1, <2>2, <2>3, <2>4, <2>5, <2>6, <2>7, <2>8, <2>9, <2>10, <2>11, <2>12, <2>13
       DEF Next, Main
<1> QED BY <1>1, <1>2, PTL DEF Spec

\* Whatever ends a session that streams, and whatever callbacks do until close() has
\* waited for them, none of its inputs stays down.
THEOREM ReleaseSafety == Spec => []InputsReleased
<1>1. Tracked => InputsReleased
  BY DEF Tracked, InputsReleased, Idle
<1> QED BY <1>1, TrackedInvariant, PTL

\* A session that reached the frame loop never holds handshake.mutex: close() waits
\* for callbacks that wait for nothing but that mutex, so neither waits for the other.
StreamUnlocked == served /\ phase \notin Idle => ~MainHolds

\* The wait of close() that never ends is confined to the sessions that do not
\* stream; this is what StreamEnds rests on.
THEOREM StreamNotLocked == Spec => []StreamUnlocked
<1>1. TypeOK /\ Tracked => StreamUnlocked
  BY DEF TypeOK, PlacesOK, Waits, Tracked, Serving, StreamUnlocked, MainHolds
<1> QED BY <1>1, TypeCorrect, TrackedInvariant, PTL

---------------------------------------------------------------------------

\* Silent is inductive: callbacks begin while the transport is live, and close()
\* waits for those of the channels.
LEMMA SilentInvariant == Spec => []Silent
<1>1. Init => Silent
  BY DEF Init, Silent, Threads, Channels
<1>2. Silent /\ [Next]_vars => Silent'
  <2> SUFFICES ASSUME Silent, [Next]_vars PROVE Silent'
    OBVIOUS
  <2> USE DEF Silent, Idle, Threads, Channels
  <2>1. CASE Connect
    BY <2>1 DEF Connect
  <2>2. CASE Established \/ EstablishFails \/ Block \/ WaitExpires \/ Validate \/ Setup \/ LoopEnds
    BY <2>2 DEF Established, EstablishFails, Block, WaitExpires, Validate, Setup, LoopEnds,
                CloseFrom
  <2>3. CASE Test
    BY <2>3 DEF Test, Waits, CloseFrom, AfterWait
  <2>4. CASE Closed \/ Release
    BY <2>4 DEF Closed, Quiet, Release, NextSession
  <2>5. CASE Noted
    BY <2>5 DEF Noted, Requested, ReadyNoted, OpenNoted
  <2>6. CASE Called
    BY <2>6 DEF Called, Config, Ready, Press, Lift, FlaggedRefused, ClockRefused, Malformed,
                Refuse, ChannelOpens, RtcpArrives, Sends, Live
  <2>7. CASE TransportFails \/ Stop \/ RtcpHandled
    BY <2>7 DEF TransportFails, Stop, RtcpHandled
  <2>8. CASE UNCHANGED vars
    BY <2>8 DEF vars
  <2> QED
    BY <2>1, <2>2, <2>3, <2>4, <2>5, <2>6, <2>7, <2>8 DEF Next, Main
<1> QED BY <1>1, <1>2, PTL DEF Spec

\* No callback of a channel is being called when the session's variables, which it
\* refers to, go, in whatever phase and with whatever lock main closes the transport.
\* Of the callbacks of the RTCP handlers nothing of the kind holds.
THEOREM CallbackSafety == Spec => []NoDanglingCallback
<1>1. Silent => NoDanglingCallback
  BY DEF Silent, NoDanglingCallback, Idle
<1> QED BY <1>1, SilentInvariant, PTL

---------------------------------------------------------------------------

\* A step of a host that is in step with its client: it stays so and does not refuse
\* the client.
LEMMA InStepStep ==
  ASSUME TypeOK, Silent, InStep, ConformingServed, [Next]_vars
  PROVE  InStep' /\ ConformingServed'
<1> USE ConfigsAssumption DEF InStep, ConformingServed, Live
<1>0. None \notin Configs /\ "idle" \notin Configs /\ "ready" \notin Configs /\ Flagged \subseteq Configs
  OBVIOUS
<1>1. CASE Connect
  <2>1. callback["control"] = "idle"
    BY <1>1 DEF Connect, Silent, Idle, Threads, Channels
  <2> QED BY <1>0, <1>1, <2>1 DEF Connect
<1>2. CASE Established \/ EstablishFails \/ Block \/ WaitExpires
  BY <1>2 DEF Established, EstablishFails, Block, WaitExpires, CloseFrom, Waits, TypeOK, PlacesOK, handshake, peer
<1>3. CASE Test
  BY <1>3 DEF Test, Waits, CloseFrom, AfterWait, Awaited, handshake, peer
<1>4. CASE Validate
  BY <1>4 DEF Validate, CloseFrom, handshake, peer
<1>5. CASE Setup
  BY <1>5 DEF Setup, CloseFrom, handshake, peer
<1>6. CASE LoopEnds \/ Closed \/ Release
  BY <1>6 DEF LoopEnds, Closed, Release, CloseFrom, NextSession, handshake, peer
<1>7. CASE Requested
  <2>1. callback'["control"] = "idle"
    BY <1>7 DEF Requested, TypeOK, SessionOK, Threads, Channels
  <2>2. conforming /\ Live => request = None
    BY <1>0, <1>7 DEF Requested
  <2>3. InStep'
    BY <1>0, <1>7, <2>1, <2>2 DEF Requested, TypeOK, SessionOK, peer
  <2>4. session_running' = (session_running /\ request = None)
    BY <1>7 DEF Requested
  <2>5. conforming' = conforming /\ transport' = transport /\ phase' = phase
    BY <1>7 DEF Requested, peer
  <2>6. ConformingServed'
    BY <2>2, <2>4, <2>5, Zenon
  <2> QED BY <2>3, <2>6
<1>8. CASE ReadyNoted
  BY <1>0, <1>8 DEF ReadyNoted, TypeOK, SessionOK, Threads, Channels, peer
<1>9. CASE \E t \in {"track", "data"} : OpenNoted(t)
  BY <1>9 DEF OpenNoted, peer
<1>10. CASE \E r \in Configs : Config(r)
  BY <1>0, <1>10 DEF Config, Sends, TypeOK, SessionOK, Threads, Channels, handshake
<1>11. CASE Ready
  BY <1>0, <1>11 DEF Ready, Sends, TypeOK, SessionOK, Threads, Channels, handshake
<1>12. CASE \E i \in Inputs : Press(i) \/ Lift(i)
  BY <1>12 DEF Press, Lift, handshake, peer
<1>13. CASE FlaggedRefused \/ ClockRefused \/ Malformed
  BY <1>13 DEF FlaggedRefused, ClockRefused, Malformed, Sends, handshake, peer
<1>14. CASE ChannelOpens("track", video_open) \/ ChannelOpens("data", video_data_open)
  <2>1. callback'["control"] = callback["control"]
    BY <1>14 DEF ChannelOpens, TypeOK, SessionOK, Threads, Channels
  <2> QED BY <1>14, <2>1 DEF ChannelOpens, handshake, peer
<1>15. CASE TransportFails \/ Stop
  BY <1>15 DEF TransportFails, Stop, handshake, peer
<1>16. CASE UNCHANGED vars
  BY <1>16 DEF vars, handshake, peer
<1>17. CASE RtcpArrives \/ RtcpHandled
  <2>1. callback'["control"] = callback["control"]
    BY <1>17 DEF RtcpArrives, RtcpHandled, TypeOK, SessionOK, Threads, Channels
  <2> QED BY <1>17, <2>1 DEF RtcpArrives, RtcpHandled, handshake, peer
<1> QED
  BY <1>1, <1>2, <1>3, <1>4, <1>5, <1>6, <1>7, <1>8, <1>9, <1>10, <1>11, <1>12, <1>13,
     <1>14, <1>15, <1>16, <1>17 DEF Next, Main, Noted, Called

\* A client that keeps to the protocol is refused in no phase, whichever way its
\* messages, the opening of its channels and the main thread interleave.
THEOREM ServiceSafety == Spec => []ConformingServed
<1>1. Init => InStep /\ ConformingServed
  BY ConfigsAssumption DEF Init, InStep, ConformingServed, Threads, Channels
<1>2. TypeOK /\ Silent /\ InStep /\ ConformingServed /\ [Next]_vars
        => InStep' /\ ConformingServed'
  BY InStepStep
<1> QED BY <1>1, <1>2, TypeCorrect, SilentInvariant, PTL DEF Spec
=============================================================================
