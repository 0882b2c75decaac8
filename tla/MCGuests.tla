----------------------------- MODULE MCGuests ------------------------------
(***************************************************************************)
(* Guests on hosts with three CPUID bases.                                 *)
(***************************************************************************)
EXTENDS Guests

\* A leaf that is not Xen's may answer anything, numbers below its own
\* included.
MCMachines ==
    {h \in [hv : BOOLEAN, sig : [0..(Leaves - 1) -> {"xen", "other"}],
            more : [0..(Leaves - 1) -> {-1, 1, 2}], pages : {1, 2},
            maps : BOOLEAN] :
        \A b \in 0..(Leaves - 1) :
            h.sig[b] = "xen" => h.more[b] > 0}
=============================================================================
