------------------------------ MODULE Adapters ------------------------------
(***************************************************************************)
(* What the runtime adapters accept before they look at the cluster.  A    *)
(* binding is the cluster ID the target was frozen in, or None; cluster is *)
(* the cluster ID the adapter was configured with along with the Resource  *)
(* validator, or None when the gateway runs without Resource.              *)
(***************************************************************************)
CONSTANT None

\* OpenExec: a frozen target needs the validator, in the same cluster.
ExecAccepts(binding, cluster) == binding # None => cluster # None /\ cluster = binding

\* Adapter.open: the same for a frozen VM.
FrozenAccepts(binding, cluster) == binding # None => cluster # None /\ cluster = binding

\* OpenSerial: a serial console is never frozen.
SerialAccepts(binding, cluster) == binding = None

\* OpenVNC: with a validator, VNC is frozen.
VNCAccepts(binding, cluster) ==
  /\ cluster # None => binding # None
  /\ FrozenAccepts(binding, cluster)
=============================================================================
