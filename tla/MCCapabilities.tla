---------------------------- MODULE MCCapabilities ----------------------------
(***************************************************************************)
(* Two small manifests for TLC.  In both, init holds the process-control   *)
(* capability.  Roots: init also holds a VFS root it can derive from, and  *)
(* the service template is granted nothing, so what a service holds came   *)
(* by transfer.  Names: the service template is granted a namespace that   *)
(* resolves to an endpoint, and chains of delegation get longer.           *)
(***************************************************************************)
EXTENDS Capabilities

MCTemplates == {"init", "service"}
MCBootObjects == <<"process_control", "vfs_root", "namespace", "endpoint">>
Control == {"create", "start", "wait", "kill", "delegate", "allocate"}
ControlGrant == [slot |-> 1, object |-> 1, rights |-> Control]

RootsSlots == 1 .. 3
RootsGrants ==
  [t \in MCTemplates |->
     IF t = "init"
     THEN <<ControlGrant, [slot |-> 2, object |-> 2, rights |-> {"read", "resolve"}]>>
     ELSE <<>>]
RootsMasks == {{"read", "resolve"}}

NamesSlots == 1 .. 2
NamesGrants ==
  [t \in MCTemplates |->
     IF t = "init" THEN <<ControlGrant>>
     ELSE <<[slot |-> 1, object |-> 3, rights |-> {"resolve"}]>>]
NamesEntries == {[object |-> 4, rights |-> {"send", "receive"}]}
\* One mask inside another: authority is narrowed and could be widened again.
NamesMasks == {{"delegate", "kill"}, {"delegate"}, {"resolve"}, {"send"}}
=============================================================================
