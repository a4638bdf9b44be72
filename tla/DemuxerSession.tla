--------------------------- MODULE DemuxerSession ---------------------------
(***************************************************************************)
(* What a QmlAVDemuxer promises the player that owns it: the order of its  *)
(* signals, that it says EndOfMedia only when nothing it read is left to   *)
(* decode, that it is silent once deleted, and that its deletion ends.     *)
(***************************************************************************)
EXTENDS Naturals

CONSTANT Decoders

VARIABLES
    loader,     \* the last status the loading gave
    reader,     \* the last state or status the playback gave
    undecoded,  \* packets read and not submitted to their codec
    life

vars == <<loader, reader, undecoded, life>>

Alive == life # "deleted"

Load(status) ==
    /\ life = "owned" /\ loader = "none"
    /\ loader' = status
    /\ UNCHANGED <<reader, undecoded, life>>

LoadingGoesOn(from, to) ==
    /\ Alive /\ loader = from
    /\ loader' = to
    /\ UNCHANGED <<reader, undecoded, life>>

Start ==
    /\ life = "owned" /\ loader # "none" /\ reader = "none"
    /\ reader' = "PlayingState"
    /\ UNCHANGED <<loader, undecoded, life>>

Reads(d) ==
    /\ Alive /\ reader = "PlayingState" /\ loader = "BufferedMedia"
    /\ undecoded' = [undecoded EXCEPT ![d] = @ + 1]
    /\ UNCHANGED <<loader, reader, life>>

Decodes(d) ==
    /\ Alive /\ undecoded[d] > 0
    /\ undecoded' = [undecoded EXCEPT ![d] = @ - 1]
    /\ UNCHANGED <<loader, reader, life>>

Ends ==
    /\ Alive /\ reader = "PlayingState" /\ loader = "BufferedMedia"
    /\ \A d \in Decoders : undecoded[d] = 0
    /\ reader' = "EndOfMedia"
    /\ UNCHANGED <<loader, undecoded, life>>

\* Playback fails no sooner than loading is over, or given up.
Fails ==
    /\ Alive /\ reader = "PlayingState"
    /\ loader \in {"LoadingMedia", "LoadedMedia"} => life = "deleting"
    /\ reader' = "InvalidMedia"
    /\ UNCHANGED <<loader, undecoded, life>>

Delete == life = "owned" /\ life' = "deleting" /\ UNCHANGED <<loader, reader, undecoded>>

Deleted == life = "deleting" /\ life' = "deleted" /\ UNCHANGED <<loader, reader, undecoded>>

Init ==
    /\ loader = "none"
    /\ reader = "none"
    /\ undecoded = [d \in Decoders |-> 0]
    /\ life = "owned"

Next ==
    \/ \E status \in {"NoMedia", "LoadingMedia"} : Load(status)
    \/ LoadingGoesOn("LoadingMedia", "InvalidMedia")
    \/ LoadingGoesOn("LoadingMedia", "LoadedMedia")
    \/ LoadingGoesOn("LoadedMedia", "BufferedMedia")
    \/ Start \/ Ends \/ Fails \/ Delete \/ Deleted
    \/ \E d \in Decoders : Reads(d) \/ Decodes(d)

Safe == Init /\ [][Next]_vars

Spec == Safe /\ WF_vars(Deleted)
=============================================================================
