------------------------------- MODULE LiveMC -------------------------------
(* The platform links side by side: a behaviour is one of the Signal        *)
(* receive pipeline, the Signal poller, a platform's control, the WhatsApp  *)
(* bridge, the timed sends over the links, the calls of the adapters or the *)
(* marks on a message; the parts share no state, and those that a behaviour *)
(* is not about stay where they begin.                                      *)
EXTENDS SignalReceive, SignalPoller, AccountControl, WhatsAppLink, Scheduler, AdapterSend,
        Marks

CONSTANTS text, edit, junk, note,
    Parts    \* the parts looked at, of "receive", "poller", "control", "link",
             \* "timed", "send", "marks"

VARIABLE part    \* what the behaviour is about

LiveKind == [l \in Lines |-> CASE l = text -> "message" [] l = edit -> "edit"
                              [] l = junk -> "broken"  [] l = note -> "other"]
LiveOf == [l \in Lines \cap {text, edit} |-> "m"]
LiveNear == [m \in {LiveOf[l] : l \in DOMAIN LiveOf} |-> {}]

LiveInit ==
    /\ part \in Parts
    /\ ReceiveInit /\ PollerInit /\ ControlInit /\ LinkInit /\ Init /\ SendInit
    /\ MarksInit
    /\ part # "poller" => ~linked
    /\ part # "control" => platform = "signal" /\ session = "absent"
    /\ part # "link" => ~onDisk
    /\ part # "send" => network = "slack" /\ \A r \in Rows : intent[r].kind = "text"
    /\ part # "marks" =>
          /\ river = "each" /\ subject = "reads" /\ target = "absent"
          /\ \A who \in Reactors : marks[who] = NoRow

LiveNext ==
    \/ /\ part = "receive" /\ ReceiveNext
       /\ UNCHANGED <<part, pollerVars, controlVars, linkVars, vars, sendVars, markVars>>
    \/ /\ part = "poller" /\ PollerNext
       /\ UNCHANGED <<part, receiveVars, controlVars, linkVars, vars, sendVars, markVars>>
    \/ /\ part = "control" /\ ControlNext
       /\ UNCHANGED <<part, receiveVars, pollerVars, linkVars, vars, sendVars, markVars>>
    \/ /\ part = "link" /\ LinkNext
       /\ UNCHANGED <<part, receiveVars, pollerVars, controlVars, vars, sendVars, markVars>>
    \/ /\ part = "timed" /\ Next
       /\ UNCHANGED <<part, receiveVars, pollerVars, controlVars, linkVars, sendVars, markVars>>
    \/ /\ part = "send" /\ SendNext
       /\ UNCHANGED <<part, receiveVars, pollerVars, controlVars, linkVars, vars, markVars>>
    \/ /\ part = "marks" /\ MarksNext
       /\ UNCHANGED <<part, receiveVars, pollerVars, controlVars, linkVars, vars, sendVars>>

LiveVars == <<part, receiveVars, pollerVars, controlVars, linkVars, vars, sendVars,
              markVars>>
LiveSpec == LiveInit /\ [][LiveNext]_LiveVars
\* The scheduler can take steps from the start, and does where it is looked at.
LiveFairSpec ==
    /\ LiveSpec /\ PollerFairness /\ ControlFairness
    /\ part = "timed" => SchedulerFairness

\* Every part keeps its types.
LiveTypeOK == ReceiveTypeOK /\ PollerTypeOK /\ ControlTypeOK /\ LinkTypeOK
              /\ SchedulerTypeOK /\ SendTypeOK /\ MarksTypeOK
=============================================================================
