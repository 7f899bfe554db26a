----------------------------- MODULE MCGuestCr -----------------------------
(* One processor for VmxGuestCr: the fixed bits of those in use. *)
EXTENDS VmxGuestCr

MCCr0Fixed1 == {"PE", "TS", "NE", "WP", "NW", "CD", "PG"}
MCCr0Bits == MCCr0Fixed1
MCCr0Fixed0 == {"PE", "NE", "PG"}

\* RESERVED stands for the bits this processor does not have.
MCCr4Fixed1 == {"PAE", "VMXE", "PSE", "PCIDE", "CET", "LA57"}
MCCr4Bits == MCCr4Fixed1 \cup {"RESERVED"}
MCCr4Fixed0 == {"VMXE"}

\* Every way to turn paging, write protection and protection on and off, with NE, which
\* the hypervisor owns, on and off; TS, CD and NW in some of them.
MCCr0Values ==
  {pg \cup wp \cup ne : pg \in SUBSET {"PE", "PG"}, wp \in {{}, {"WP", "TS"}}, ne \in {{}, {"NE"}}}
    \cup {{"PE", "PG", "NW"}, {"PE", "PG", "CD"}, {"CD", "NW"}}

\* Each mode bit alone, and with PAE where it needs it, with VMXE, which the hypervisor
\* owns, on and off.
MCCr4Values ==
  {cr4v \cup vmxe : cr4v \in {{}, {"PAE"}, {"PSE"}, {"PCIDE"}, {"CET"}, {"PAE", "PCIDE"},
                            {"PAE", "LA57"}, {"PAE", "RESERVED"}},
                  vmxe \in {{}, {"VMXE"}}}

MCEntryCtls ==
  [allowed0 |-> {"FIXED1"},
   allowed1 |-> {"FIXED1", "IA32E_MODE_GUEST", "LOAD_IA32_PAT", "LOAD_IA32_EFER"}]
=============================================================================
