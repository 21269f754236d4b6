-------------------------------- MODULE MCKrust --------------------------------
(***************************************************************************)
(* Small manifests for the whole kernel core.  Init holds process control  *)
(* and a boot endpoint; the service template is granted an endpoint        *)
(* capability and, in the manifests with time, a timer.                    *)
(***************************************************************************)
EXTENDS Krust

MCTemplates == {"init", "a", "b"}
MCBootObjects == <<"process_control", "endpoint", "timer">>
Control == {"create", "start", "wait", "kill", "delegate", "allocate"}
ControlGrant == [slot |-> 1, object |-> 1, rights |-> Control]

\* Messages: two services share an endpoint to which init may send as well, so
\* that both may wait when a message comes.
OneSlot == {1}
TwoSlots == 1 .. 2
MessagesGrants == [t \in MCTemplates |->
                     IF t = "init"
                     THEN <<ControlGrant, [slot |-> 2, object |-> 2, rights |-> {"send"}]>>
                     ELSE <<[slot |-> 1, object |-> 2, rights |-> {"send", "receive"}]>>]

\* Time: one service sleeps, the other receives with timeouts.
TimeGrants == [t \in MCTemplates |->
                 CASE t = "init" -> <<ControlGrant>>
                   [] t = "a" -> <<[slot |-> 1, object |-> 3, rights |-> {"control"}]>>
                   [] t = "b" -> <<[slot |-> 1, object |-> 2, rights |-> {"receive"}]>>]

\* Cancel: one service, which holds nothing but what init transfers to it.
CancelTemplates == {"init", "a"}
CancelGrants == [t \in CancelTemplates |-> IF t = "init" THEN <<ControlGrant>> ELSE <<>>]
CancelMasks == {{"receive"}, {"allocate", "kill", "delegate"}}
=============================================================================
