------------------------------ MODULE Recorder ------------------------------
(***************************************************************************)
(* What HardwareManager promises those who use its recording: the blocks   *)
(* sampled wait in a backlog of limited length; each is taken once, in the *)
(* order they were sampled, and goes once to the file of every channel, or *)
(* to none; a file is left when it is full, and never half a block before. *)
(* What may be lost, and when, is all here: a block taken during a pause,  *)
(* one discarded by Stop, and one that is overwritten while it is copied,  *)
(* which takes a backlog only one block short of its limit.                *)
(***************************************************************************)
EXTENDS Naturals, Sequences

CONSTANTS Capacity,         \* of the backlog
          Channels,         \* the channels recorded to a file of their own
          MaxFileBlocks,    \* blocks in a full file
          Samples,          \* what a block may hold
          None              \* no block

VARIABLES backlog,      \* sampled and not yet taken, oldest first
          block,        \* the block taken
          owed,         \* the channels that have still to get it
          recording,    \* per channel its files, each a sequence of blocks
          stopping      \* Stop has been called

recorder == <<backlog, block, owed, recording, stopping>>

Init == /\ backlog = <<>> /\ block = None /\ owed = {}
        /\ recording = [c \in Channels |-> <<>>]
        /\ stopping = FALSE

Last(c) == recording[c][Len(recording[c])]

Sample(b) ==
    /\ Len(backlog) < Capacity
    /\ backlog' = Append(backlog, b)
    /\ UNCHANGED <<block, owed, recording, stopping>>

Open ==
    /\ \A c \in Channels : recording[c] = <<>>
    /\ recording' = [c \in Channels |-> << <<>> >>]
    /\ UNCHANGED <<backlog, block, owed, stopping>>

\* Only between two blocks, when the channels stand at the same place of a file with room.
Take ==
    /\ owed = {} /\ backlog # <<>>
    /\ \A c \in Channels : recording[c] # <<>> /\ Len(Last(c)) < MaxFileBlocks
    /\ \A c, d \in Channels : /\ Len(recording[c]) = Len(recording[d])
                              /\ Len(Last(c)) = Len(Last(d))
    /\ block' = Head(backlog) /\ backlog' = Tail(backlog) /\ owed' = Channels
    /\ UNCHANGED <<recording, stopping>>

Record(c) ==
    /\ c \in owed
    /\ recording' = [recording EXCEPT ![c] = [@ EXCEPT ![Len(@)] = Append(Last(c), block)]]
    /\ owed' = owed \ {c}
    /\ block' = IF owed' = {} THEN None ELSE block
    /\ UNCHANGED <<backlog, stopping>>

\* The recording is paused.
Skip ==
    /\ owed = Channels
    /\ owed' = {} /\ block' = None
    /\ UNCHANGED <<backlog, recording, stopping>>

Discard ==
    /\ stopping /\ backlog # <<>>
    /\ backlog' = Tail(backlog)
    /\ UNCHANGED <<block, owed, recording, stopping>>

\* A new block comes in where the block taken still is.
Spoil(b) ==
    /\ owed # {}
    /\ stopping \/ Len(backlog) + 1 = Capacity
    /\ block' = b
    /\ UNCHANGED <<backlog, owed, recording, stopping>>

Break(c) ==
    /\ owed = {} /\ recording[c] # <<>> /\ Len(Last(c)) = MaxFileBlocks
    /\ recording' = [recording EXCEPT ![c] = Append(@, <<>>)]
    /\ UNCHANGED <<backlog, block, owed, stopping>>

Stop == ~stopping /\ stopping' = TRUE /\ UNCHANGED <<backlog, block, owed, recording>>

Next ==
    \/ Open \/ Take \/ Skip \/ Discard \/ Stop
    \/ \E b \in Samples : Sample(b) \/ Spoil(b)
    \/ \E c \in Channels : Record(c) \/ Break(c)

SafeSpec == Init /\ [][Next]_recorder
=============================================================================
