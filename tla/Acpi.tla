-------------------------------- MODULE Acpi --------------------------------
(***************************************************************************)
(* kernel/src/acpi: how acpi_init finds, validates and registers the       *)
(* firmware's tables.  Pointers are members of Tables and Rsdps; Null is   *)
(* the null pointer.  The call acpi_tableRegister makes to itself through  *)
(* acpi_fadtInit is the last thing it does, so the tables that wait for it *)
(* form a queue: the loop's remaining entries, a FADT's DSDT in front.     *)
(***************************************************************************)
EXTENDS Integers, Sequences, SequencesExt

CONSTANTS
    Null,
    Tables,     \* where tables lie
    Rsdps,      \* where root pointers lie
    Firmwares,  \* what may be found there
    AmlResults  \* what the AML interpreter may answer

\* The signatures acpi_tableRegister knows; "other" stands for the rest.
Known == {"FACP", "APIC", "RSDT", "XSDT", "DSDT"}

\* A table: its signature, the sum of its bytes, and what it points to as a
\* RSDT or XSDT (entries) or as a FADT (dsdt, xDsdt).
Table == [sig : Known \cup {"other"}, bytes : Nat, entries : Seq(Tables),
          dsdt : Tables, xDsdt : Tables]

\* A root pointer; first and rest are the sums of its first 20 bytes and of
\* the others.
Rsdp == [first : Nat, rest : Nat, revision : Nat, rsdt : Tables, xsdt : Tables]

Firmware == [tables : [Tables -> Table], rsdps : [Rsdps -> Rsdp]]

ASSUME FirmwareAssumption ==
    /\ Null \notin Tables \cup Rsdps
    /\ Firmwares \subseteq Firmware
    /\ AmlResults \subseteq Int

VARIABLES
    fw,         \* the firmware of this machine
    s_rsdp,     \* the root pointer acpi_init starts from
    m_rsdp,     \* s_acpi: the root pointer in use,
    m_acpi2,    \*         whether it is one of ACPI 2,
    acpi,       \*         and m_fadt, m_madt, ... by the signature they are for
    pending,    \* the tables acpi_tableRegister is still to be called with
    phase,      \* where acpi_init is
    result      \* what it returned last

vars == <<fw, s_rsdp, m_rsdp, m_acpi2, acpi, pending, phase, result>>

NoTables == [s \in Known |-> Null]

Init ==
    /\ fw \in Firmwares
    /\ s_rsdp = Null /\ m_rsdp = Null /\ m_acpi2 = FALSE
    /\ acpi = NoTables
    /\ pending = <<>> /\ phase = "idle" /\ result = 0

-----------------------------------------------------------------------------
\* The checksums are sums of bytes in a uint8_t.
acpi_sdtComputeChecksum(t) == fw.tables[t].bytes % 256
acpi_rsdpComputeChecksum(r) == fw.rsdps[r].first % 256
acpi_rsdpComputeExtendedChecksum(r) == (fw.rsdps[r].first + fw.rsdps[r].rest) % 256

acpi_setRsdpLocation(r) ==
    /\ phase = "idle"
    /\ s_rsdp' = r
    /\ UNCHANGED <<fw, m_rsdp, m_acpi2, acpi, pending, phase, result>>

\* acpi_init without a root pointer.
InitRefused ==
    /\ phase = "idle" /\ s_rsdp = Null
    /\ result' = -1
    /\ UNCHANGED <<fw, s_rsdp, m_rsdp, m_acpi2, acpi, pending, phase>>

\* Mutant: s_acpi is not cleared.
InitStart_KeepsTables ==
    /\ phase = "idle" /\ s_rsdp # Null
    /\ phase' = "rsdp"
    /\ UNCHANGED <<fw, s_rsdp, m_rsdp, m_acpi2, acpi, pending, result>>

\* acpi_init clears s_acpi and goes on with the root pointer.
InitStart ==
    /\ phase = "idle" /\ s_rsdp # Null
    /\ m_rsdp' = Null /\ m_acpi2' = FALSE /\ acpi' = NoTables
    /\ phase' = "rsdp"
    /\ UNCHANGED <<fw, s_rsdp, pending, result>>

\* acpi_xsdtParse and acpi_rsdtParse: a root table with a wrong checksum is
\* not used; else it is noted, whatever its signature, and its entries wait.
RootParse(sig, root) ==
    IF acpi_sdtComputeChecksum(root) # 0
    THEN phase' = "dsdt" /\ UNCHANGED <<acpi, pending>>
    ELSE /\ acpi' = [acpi EXCEPT ![sig] = root]
         /\ pending' = fw.tables[root].entries
         /\ phase' = "tables"

IsAcpi2(r) == fw.rsdps[r].revision # 0 /\ acpi_rsdpComputeExtendedChecksum(r) = 0

RsdpRefused ==
    /\ phase = "rsdp" /\ acpi_rsdpComputeChecksum(s_rsdp) # 0
    /\ phase' = "dsdt"
    /\ UNCHANGED <<fw, s_rsdp, m_rsdp, m_acpi2, acpi, pending, result>>

acpi_rsdpParse ==
    /\ phase = "rsdp" /\ acpi_rsdpComputeChecksum(s_rsdp) = 0
    /\ m_rsdp' = s_rsdp
    /\ m_acpi2' = IsAcpi2(s_rsdp)
    /\ IF m_acpi2' THEN RootParse("XSDT", fw.rsdps[s_rsdp].xsdt)
                   ELSE RootParse("RSDT", fw.rsdps[s_rsdp].rsdt)
    /\ UNCHANGED <<fw, s_rsdp, result>>

-----------------------------------------------------------------------------
Sig(t) == fw.tables[t].sig

\* Mutant: the checksum of a table is not tested.
Accepted_NoChecksum(t) ==
    /\ Sig(t) \in Known
    /\ Sig(t) = "DSDT" \/ acpi[Sig(t)] \in {Null, t}

\* Mutant: a second table of a kind replaces the first.
Accepted_Replaces(t) == acpi_sdtComputeChecksum(t) = 0 /\ Sig(t) \in Known

\* A table of a known kind is registered if its checksum is right and no other
\* one is; of the DSDTs the last one stays.
Accepted(t) ==
    /\ acpi_sdtComputeChecksum(t) = 0
    /\ Sig(t) \in Known
    /\ Sig(t) = "DSDT" \/ acpi[Sig(t)] \in {Null, t}

\* The table acpi_fadtInit registers.
acpi_fadtInit(fadt) == IF m_acpi2 THEN fw.tables[fadt].xDsdt ELSE fw.tables[fadt].dsdt

\* acpi_tableRegister, for a table that it keeps.
TableRegister ==
    /\ phase = "tables" /\ pending # <<>> /\ Accepted(Head(pending))
    /\ LET t == Head(pending)
       IN  /\ acpi' = [acpi EXCEPT ![Sig(t)] = t]
           /\ pending' = IF Sig(t) = "FACP" THEN <<acpi_fadtInit(t)>> \o Tail(pending)
                                            ELSE Tail(pending)
    /\ UNCHANGED <<fw, s_rsdp, m_rsdp, m_acpi2, phase, result>>

\* Mutant: the loop over the entries does not go on after a table it skips.
TableIgnore_Again ==
    /\ phase = "tables" /\ pending # <<>> /\ ~Accepted(Head(pending))
    /\ UNCHANGED vars

\* acpi_tableRegister, for a table with a wrong checksum, of a kind it does not
\* know, or of a kind that it has already.
TableIgnore ==
    /\ phase = "tables" /\ pending # <<>> /\ ~Accepted(Head(pending))
    /\ pending' = Tail(pending)
    /\ UNCHANGED <<fw, s_rsdp, m_rsdp, m_acpi2, acpi, phase, result>>

TablesDone ==
    /\ phase = "tables" /\ pending = <<>>
    /\ phase' = "dsdt"
    /\ UNCHANGED <<fw, s_rsdp, m_rsdp, m_acpi2, acpi, pending, result>>

\* The end of acpi_init: acpi_dsdtParse, if there is a DSDT.  It checks that one
\* and has the built-in table interpreted.
acpi_dsdtParse ==
    LET dsdt == acpi["DSDT"]
    IN  /\ phase = "dsdt"
        /\ result' \in IF dsdt = Null THEN {0}
                       ELSE IF acpi_sdtComputeChecksum(dsdt) # 0 THEN {1} ELSE AmlResults
        /\ phase' = "idle"
        /\ UNCHANGED <<fw, s_rsdp, m_rsdp, m_acpi2, acpi, pending>>

acpi_init ==
    \/ InitRefused \/ InitStart
    \/ RsdpRefused \/ acpi_rsdpParse
    \/ TableRegister \/ TableIgnore \/ TablesDone
    \/ acpi_dsdtParse

Next == acpi_init \/ \E r \in Rsdps : acpi_setRsdpLocation(r)

Spec == Init /\ [][Next]_vars

\* Once called, acpi_init runs on.
LiveSpec == Spec /\ WF_vars(acpi_init /\ phase # "idle")

-----------------------------------------------------------------------------
TypeOK ==
    /\ fw \in Firmware
    /\ s_rsdp \in Rsdps \cup {Null} /\ m_rsdp \in Rsdps \cup {Null}
    /\ m_acpi2 \in BOOLEAN
    /\ acpi \in [Known -> Tables \cup {Null}]
    /\ pending \in Seq(Tables)
    /\ phase \in {"idle", "rsdp", "tables", "dsdt"}
    /\ phase = "rsdp" => s_rsdp # Null
    /\ result \in Int

\* Whatever the order of the entries and however often a table is listed, what
\* s_acpi points to has a right checksum and, but for the root table, the
\* signature of its kind: a wrong table would be read as a structure it is not.
Validated ==
    \A s \in Known :
        acpi[s] # Null =>
            /\ acpi_sdtComputeChecksum(acpi[s]) = 0
            /\ s \in {"RSDT", "XSDT"} \/ Sig(acpi[s]) = s

\* What a root pointer leads to (its 64-bit pointers count only if all its bytes
\* add up): the table for its version, the tables listed
\* there, and the DSDTs that the FADTs among them name for that version.
Trusts64Bit(r) ==
    fw.rsdps[r].revision # 0 /\ (fw.rsdps[r].first + fw.rsdps[r].rest) % 256 = 0
RootOf(r) == IF Trusts64Bit(r) THEN fw.rsdps[r].xsdt ELSE fw.rsdps[r].rsdt
Listed(r) == Range(fw.tables[RootOf(r)].entries)
NamedBy(r, t) == IF Trusts64Bit(r) THEN fw.tables[t].xDsdt ELSE fw.tables[t].dsdt
ReachedFrom(r) ==
    {RootOf(r)} \cup Listed(r) \cup {NamedBy(r, t) : t \in {u \in Listed(r) : Sig(u) = "FACP"}}

\* Every table in use comes from the root pointer in use, along the path for
\* its version: none is left from an earlier acpi_init, and none comes by the
\* 64-bit pointers of a root pointer whose extended checksum is wrong.
FromRootInUse ==
    \A s \in Known : acpi[s] # Null => m_rsdp # Null /\ acpi[s] \in ReachedFrom(m_rsdp)

\* What FromRootInUse rests on: the version was taken from the root pointer in
\* use, m_fadt is a table of its list, and whatever waits to be registered is
\* listed too or is the DSDT of m_fadt.
PathKnown ==
    /\ phase = "tables" => m_rsdp # Null
    /\ phase = "rsdp" => m_rsdp = Null /\ acpi = NoTables
    /\ m_rsdp # Null => m_acpi2 = Trusts64Bit(m_rsdp)
    /\ acpi["FACP"] # Null => acpi["FACP"] \in Listed(m_rsdp)
    /\ phase = "tables" =>
           \A i \in DOMAIN pending :
               \/ pending[i] \in Listed(m_rsdp)
               \/ acpi["FACP"] # Null /\ pending[i] = NamedBy(m_rsdp, acpi["FACP"])

AcpiInv == TypeOK /\ Validated /\ FromRootInUse /\ PathKnown

\* The position of the first table with a signature that can be registered.
FirstListed(sig) ==
    LET entries == fw.tables[RootOf(m_rsdp)].entries
    IN  SelectInSeq(entries, LAMBDA t : Sig(t) = sig /\ acpi_sdtComputeChecksum(t) = 0)

\* Where the root table lists no DSDT, m_dsdt, which acpi_dsdtParse checks, is
\* the one named by the first valid FADT of the list, for the version in use,
\* whatever else is listed: m_fadt and m_dsdt always belong together.  (What it
\* then gives to the interpreter is the built-in table of dsdt.c:4 "for debugging
\* purposes".  A DSDT that is listed itself takes the place of the FADT's.)
DsdtOfFirstFadt ==
    phase = "dsdt" /\ m_rsdp # Null /\ (\A t \in Listed(m_rsdp) : Sig(t) # "DSDT") =>
        LET first == FirstListed("FACP")
            dsdt == NamedBy(m_rsdp, acpi["FACP"])
        IN  IF acpi_sdtComputeChecksum(RootOf(m_rsdp)) # 0 \/ first = 0
            THEN acpi["FACP"] = Null /\ acpi["DSDT"] = Null
            ELSE /\ acpi["FACP"] = fw.tables[RootOf(m_rsdp)].entries[first]
                 /\ acpi["DSDT"] = IF acpi_sdtComputeChecksum(dsdt) = 0 /\ Sig(dsdt) = "DSDT"
                                   THEN dsdt ELSE Null

\* What DsdtOfFirstFadt rests on.  The entries before place k have been looked
\* at: m_fadt is the first valid FADT among them.
ValidFadt(t) == Sig(t) = "FACP" /\ acpi_sdtComputeChecksum(t) = 0
Walked(entries, k) ==
    IF acpi["FACP"] = Null
    THEN \A j \in 1 .. k - 1 : ~ValidFadt(entries[j])
    ELSE \E i \in 1 .. k - 1 :
            acpi["FACP"] = entries[i] /\ \A j \in 1 .. i - 1 : ~ValidFadt(entries[j])

\* The DSDT that m_fadt stands for, if it is one.
DsdtNamed ==
    LET dsdt == NamedBy(m_rsdp, acpi["FACP"])
    IN  IF acpi["FACP"] # Null /\ acpi_sdtComputeChecksum(dsdt) = 0 /\ Sig(dsdt) = "DSDT"
        THEN dsdt ELSE Null

\* The queue is what is left of the list, with the DSDT of m_fadt in front of it
\* while that is still to be registered.
QueueKnown ==
    phase = "tables" /\ (\A t \in Listed(m_rsdp) : Sig(t) # "DSDT") =>
        LET entries == fw.tables[RootOf(m_rsdp)].entries
        IN  /\ acpi_sdtComputeChecksum(RootOf(m_rsdp)) = 0
            /\ \E k \in 1 .. Len(entries) + 1 :
                /\ Walked(entries, k)
                /\ \/ /\ pending = SubSeq(entries, k, Len(entries))
                      /\ acpi["DSDT"] = DsdtNamed
                   \/ /\ acpi["FACP"] # Null
                      /\ pending = <<NamedBy(m_rsdp, acpi["FACP"])>>
                                     \o SubSeq(entries, k, Len(entries))
                      /\ acpi["DSDT"] \in {Null, DsdtNamed}

DsdtInv == AcpiInv /\ QueueKnown /\ DsdtOfFirstFadt

\* acpi_init returns, on every firmware in which no FADT names itself as its
\* DSDT; on such a one acpi_tableRegister and acpi_fadtInit call each other
\* without end.  Every FADT of the firmware names some DSDT.
InitReturns ==
    LET namesItself(t) == Sig(t) = "FACP" /\ t \in {fw.tables[t].dsdt, fw.tables[t].xDsdt}
    IN  phase # "idle" /\ (\A t \in Tables : ~namesItself(t)) ~> phase = "idle"
=============================================================================
