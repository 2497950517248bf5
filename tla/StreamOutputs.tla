---------------------------- MODULE StreamOutputs ----------------------------
(***************************************************************************)
(* The three ways in which what others say reaches a reader: streamed, as  *)
(* frames to the friends of an agent (Streams); as the answer to an        *)
(* invocation (Invoke); and on the terminal of a room (RoomConsole).  They *)
(* have no state in common, so a behaviour is one of the three.            *)
(***************************************************************************)
EXTENDS Streams, Invoke, RoomConsole

VARIABLE output   \* which one: fixed

OutputsInit ==
    /\ output \in {"frames", "answer", "terminal"}
    /\ Init /\ InvokeInit /\ ConsoleInit
    /\ output # "answer" => /\ sdk = CHOOSE s \in InvokeSdks : TRUE
                            /\ ~cancels
    /\ output # "frames" => /\ agent = CHOOSE a \in AgentSdks : TRUE
                            /\ peer = CHOOSE p \in PeerSdks : TRUE
                            /\ ~withIds /\ ~callback

OutputsNext ==
    /\ output' = output
    /\ \/ output = "frames" /\ Next /\ UNCHANGED <<invokeVars, consoleVars>>
       \/ output = "answer" /\ InvokeNext /\ UNCHANGED <<vars, consoleVars>>
       \/ output = "terminal" /\ ConsoleNext /\ UNCHANGED <<vars, invokeVars>>

OutputsSpec ==
    /\ OutputsInit /\ [][OutputsNext]_<<output, vars, invokeVars, consoleVars>>
    /\ Fairness /\ InvokeFairness /\ ConsoleFairness
=============================================================================
