------------------------------- MODULE Media -------------------------------
(***************************************************************************)
(* The two programs that capture and encode the desktop, the host and the  *)
(* recorder, on the encoders they share.  One of them runs.                *)
(***************************************************************************)
EXTENDS HostVideo, Recorder

VARIABLE program

vars == <<program, encoderVars, hostVars, recorderVars>>

Init == program \in {"host", "recorder"} /\ EncoderInit /\ HostInit /\ RecorderInit

Next ==
    \/ program = "host" /\ HostNext /\ UNCHANGED <<program, recorderVars>>
    \/ program = "recorder" /\ RecorderNext /\ UNCHANGED <<program, hostVars>>

Spec == Init /\ [][Next]_vars

\* The host's threads run; the desktop changes, and capture sees it sooner or later.
FairSpec ==
    /\ Spec
    /\ WF_vars(program = "host" /\ Loop /\ UNCHANGED <<program, recorderVars>>)
    /\ SF_vars(program = "host" /\ Acquire /\ UNCHANGED <<program, recorderVars>>)
    /\ WF_vars(program = "host" /\ SendBatch /\ UNCHANGED <<program, recorderVars>>)
    /\ WF_vars(program = "host" /\ Change /\ UNCHANGED <<program, recorderVars>>)

-----------------------------------------------------------------------------
\* Every variable has its type, and whoever asks for the encoder's input finds it
\* free: what the turn before imported was encoded or discarded, on every way out.
TypeOK ==
    /\ EncoderTypeOK /\ HostTypeOK /\ RecorderTypeOK
    /\ at = "input" \/ worker = "input" => InputReady

\* The first frame the pacer accepts after it had to drop one is a key frame,
\* whatever the threads did in between; and in fixed quality, whose loop waits for
\* an empty queue before it captures, none is ever dropped.
NextAcceptedIsKey ==
    [][/\ at = "send" /\ queue' > queue /\ gap => picture[1].key
       /\ fixed_quality => ~gap']_vars

\* A request for a key frame is answered, and dropped key frames do not go round
\* in circles, as long as the desktop changes.
KeyRequestServed == owed # "no" ~> (owed = "no" \/ ~running)

\* A recording is complete and kept: a picture in the file has its own timestamp,
\* what FFmpeg gets has all of them, and whatever was written stays on disk, in
\* the IVF file until the MP4 is whole.
RecordingComplete ==
    /\ \A i \in 1..Len(file) : file[i].picture = file[i].time
    /\ worker = "remux" => Len(file) = ticks
    /\ worker \in {"end", "posted"} /\ file # << >> => ivf # "none" \/ mp4 = "whole"

\* Closing the window saves what is recorded: none goes on when it is gone.  The
\* code does not keep to it: the hot key begins a recording while an error box is up.
ClosesWhenSaved == window = "gone" => worker = "none"
=============================================================================
