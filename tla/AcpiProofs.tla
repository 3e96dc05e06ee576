----------------------------- MODULE AcpiProofs -----------------------------
(***************************************************************************)
(* For every firmware, what acpi_init registers is valid and comes from    *)
(* the root pointer in use.                                                *)
(***************************************************************************)
EXTENDS Acpi, SequenceTheorems, TLAPS

\* What the pointers of a typed firmware point to: the tables of a root
\* pointer, and the tables a table names.
LEMMA FirmwareTyped ==
    ASSUME fw \in Firmware
    PROVE  /\ \A t \in Tables :
                  /\ fw.tables[t].sig \in Known \cup {"other"}
                  /\ fw.tables[t].bytes \in Nat
                  /\ fw.tables[t].entries \in Seq(Tables)
                  /\ fw.tables[t].dsdt \in Tables
                  /\ fw.tables[t].xDsdt \in Tables
           /\ \A r \in Rsdps :
                  /\ fw.rsdps[r].rsdt \in Tables
                  /\ fw.rsdps[r].xsdt \in Tables
BY DEF Firmware, Table, Rsdp

\* The two steps of acpi_rsdpParse that depend on the version agree: the root
\* table it takes is the one for the version it has noted.
LEMMA RsdpStep ==
    ASSUME AcpiInv, acpi_rsdpParse
    PROVE  /\ s_rsdp \in Rsdps /\ m_rsdp' = s_rsdp /\ m_acpi2' = Trusts64Bit(s_rsdp)
           /\ RootOf(s_rsdp) \in Tables
           /\ acpi = NoTables /\ fw' = fw
           /\ \E sig \in {"RSDT", "XSDT"} : RootParse(sig, RootOf(s_rsdp))
<1> USE DEF acpi_rsdpParse, AcpiInv, TypeOK, PathKnown, IsAcpi2, Trusts64Bit,
            acpi_rsdpComputeExtendedChecksum
<1>1. s_rsdp \in Rsdps
    OBVIOUS
<1>2. RootOf(s_rsdp) \in Tables
    BY <1>1, FirmwareTyped DEF RootOf
<1>3. CASE Trusts64Bit(s_rsdp)
    <2>1. RootParse("XSDT", RootOf(s_rsdp))
        BY <1>3 DEF RootOf
    <2> QED
        BY <1>1, <1>2, <2>1
<1>4. CASE ~Trusts64Bit(s_rsdp)
    <2>1. RootParse("RSDT", RootOf(s_rsdp))
        BY <1>4 DEF RootOf
    <2> QED
        BY <1>1, <1>2, <2>1
<1> QED
    BY <1>3, <1>4

\* Where a root pointer leads depends on the firmware alone.
LEMMA ReachedUnchanged ==
    ASSUME UNCHANGED <<fw, m_rsdp>>
    PROVE  /\ Trusts64Bit(m_rsdp)' = Trusts64Bit(m_rsdp)
           /\ Listed(m_rsdp)' = Listed(m_rsdp)
           /\ \A t : NamedBy(m_rsdp, t)' = NamedBy(m_rsdp, t)
           /\ ReachedFrom(m_rsdp)' = ReachedFrom(m_rsdp)
<1>1. fw' = fw /\ m_rsdp' = m_rsdp
    OBVIOUS
<1>2. Trusts64Bit(m_rsdp)' = Trusts64Bit(m_rsdp)
    BY <1>1 DEF Trusts64Bit
<1>3. RootOf(m_rsdp)' = RootOf(m_rsdp) /\ \A t : NamedBy(m_rsdp, t)' = NamedBy(m_rsdp, t)
    BY <1>1, <1>2 DEF RootOf, NamedBy
<1>4. Listed(m_rsdp)' = Listed(m_rsdp)
    BY <1>1, <1>3 DEF Listed
<1>5. \A t : Sig(t)' = Sig(t)
    BY <1>1 DEF Sig
<1>6. ReachedFrom(m_rsdp)' = ReachedFrom(m_rsdp)
    BY <1>3, <1>4, <1>5 DEF ReachedFrom
<1> QED
    BY <1>2, <1>3, <1>4, <1>6

\* The invariant survives acpi_rsdpParse with the root table it takes.
LEMMA RsdpParseKeeps == ASSUME AcpiInv, acpi_rsdpParse PROVE AcpiInv'
<1> DEFINE root == RootOf(s_rsdp)
<1>1. /\ s_rsdp \in Rsdps /\ m_rsdp' = s_rsdp /\ m_acpi2' = Trusts64Bit(s_rsdp)
      /\ root \in Tables /\ acpi = NoTables /\ fw' = fw
    BY RsdpStep
<1>2. PICK sig \in {"RSDT", "XSDT"} : RootParse(sig, root)
    BY RsdpStep
<1>3. Null \notin Tables /\ Null \notin Rsdps
    BY FirmwareAssumption
<1>4. fw.tables[root].entries \in Seq(Tables)
    BY <1>1, FirmwareTyped DEF AcpiInv, TypeOK
<1>5. TypeOK'
    <2>1. Trusts64Bit(s_rsdp) \in BOOLEAN
        BY DEF Trusts64Bit
    <2> QED
        BY <1>1, <1>2, <1>4, <2>1 DEF AcpiInv, TypeOK, RootParse, acpi_rsdpParse, Known
<1>6. /\ acpi' \in [Known -> Tables \cup {Null}]
      /\ \A s \in Known : acpi'[s] # Null =>
             acpi'[s] = root /\ s \in {"RSDT", "XSDT"} /\ acpi_sdtComputeChecksum(root) = 0
    BY <1>1, <1>2, <1>3, <1>5 DEF RootParse, NoTables, Known, TypeOK
<1>7. Validated'
    BY <1>1, <1>6 DEF Validated, acpi_sdtComputeChecksum
<1>8. /\ RootOf(m_rsdp)' = root /\ Trusts64Bit(m_rsdp)' = Trusts64Bit(s_rsdp)
      /\ Listed(m_rsdp)' = Listed(s_rsdp)
    BY <1>1 DEF RootOf, Listed, Trusts64Bit
<1>9. FromRootInUse'
    <2>1. root \in ReachedFrom(m_rsdp)'
        BY <1>8 DEF ReachedFrom
    <2> QED
        BY <1>1, <1>3, <1>6, <2>1 DEF FromRootInUse
<1>10. PathKnown'
    <2>1. acpi'["FACP"] = Null
        BY <1>6 DEF Known
    <2>2. phase' = "tables" => \A i \in DOMAIN pending' : pending'[i] \in Listed(m_rsdp)'
        BY <1>1, <1>2, <1>8 DEF RootParse, Listed, Range, acpi_rsdpParse
    <2>3. phase' \in {"dsdt", "tables"}
        BY <1>2 DEF RootParse
    <2> QED
        BY <1>1, <1>3, <1>8, <2>1, <2>2, <2>3 DEF PathKnown
<1> QED
    BY <1>5, <1>7, <1>9, <1>10 DEF AcpiInv

\* A step that leaves the firmware, the root pointer in use and the registered
\* tables alone disturbs nothing that is said about them.
LEMMA TablesUntouched ==
    ASSUME AcpiInv, UNCHANGED <<fw, m_rsdp, acpi>>
    PROVE  Validated' /\ FromRootInUse'
<1>1. Validated'
    BY DEF AcpiInv, Validated, Sig, acpi_sdtComputeChecksum
<1>2. ReachedFrom(m_rsdp)' = ReachedFrom(m_rsdp)
    BY ReachedUnchanged
<1>3. FromRootInUse'
    BY <1>2 DEF AcpiInv, FromRootInUse
<1> QED
    BY <1>1, <1>3

\* The head of the queue is a table that the root pointer in use leads to; if
\* it is a FADT that acpi_tableRegister keeps, it is a listed one.
LEMMA HeadReached ==
    ASSUME AcpiInv, phase = "tables", pending # <<>>
    PROVE  /\ Head(pending) \in Tables /\ Head(pending) \in ReachedFrom(m_rsdp)
           /\ Tail(pending) \in Seq(Tables)
           /\ Accepted(Head(pending)) /\ Sig(Head(pending)) = "FACP" =>
                  Head(pending) \in Listed(m_rsdp)
<1> DEFINE t == Head(pending)
           f == acpi["FACP"]
<1>1. /\ pending \in Seq(Tables) /\ t = pending[1] /\ 1 \in DOMAIN pending /\ t \in Tables
      /\ Tail(pending) \in Seq(Tables)
    BY DEF AcpiInv, TypeOK
<1>2. t \in Listed(m_rsdp) \/ (f # Null /\ t = NamedBy(m_rsdp, f))
    BY <1>1 DEF AcpiInv, PathKnown
<1>3. CASE t \in Listed(m_rsdp)
    BY <1>1, <1>3 DEF ReachedFrom
<1>4. CASE f # Null /\ t = NamedBy(m_rsdp, f)
    <2>1. f \in Listed(m_rsdp) /\ Sig(f) = "FACP"
        BY <1>4 DEF AcpiInv, PathKnown, Validated, Known
    <2>2. Accepted(t) /\ Sig(t) = "FACP" => t = f
        BY <1>4 DEF Accepted
    <2> QED
        BY <1>1, <1>4, <2>1, <2>2 DEF ReachedFrom
<1> QED
    BY <1>2, <1>3, <1>4

\* The invariant survives acpi_tableRegister with a table that is kept.
LEMMA RegisterKeeps == ASSUME AcpiInv, TableRegister PROVE AcpiInv'
<1> DEFINE t == Head(pending)
           sig == Sig(t)
<1>1. /\ t \in Tables /\ t \in ReachedFrom(m_rsdp) /\ Tail(pending) \in Seq(Tables)
      /\ sig = "FACP" => t \in Listed(m_rsdp)
    BY HeadReached DEF TableRegister
<1>2. /\ UNCHANGED <<fw, s_rsdp, m_rsdp, m_acpi2, phase, result>>
      /\ acpi' = [acpi EXCEPT ![sig] = t]
      /\ pending' = IF sig = "FACP" THEN <<acpi_fadtInit(t)>> \o Tail(pending) ELSE Tail(pending)
      /\ phase = "tables" /\ acpi_sdtComputeChecksum(t) = 0 /\ sig \in Known
      /\ sig = "DSDT" \/ acpi[sig] \in {Null, t}
    BY DEF TableRegister, Accepted
<1>3. Null \notin Tables
    BY FirmwareAssumption
<1>4. acpi_fadtInit(t) \in Tables
    BY <1>1, FirmwareTyped DEF acpi_fadtInit, AcpiInv, TypeOK
<1>5. /\ acpi \in [Known -> Tables \cup {Null}] /\ m_rsdp # Null /\ pending \in Seq(Tables)
      /\ m_acpi2 = Trusts64Bit(m_rsdp)
    BY <1>2 DEF AcpiInv, TypeOK, PathKnown
<1>6. TypeOK'
    <2>1. pending' \in Seq(Tables)
        BY <1>1, <1>2, <1>4
    <2> QED
        BY <1>1, <1>2, <1>5, <2>1 DEF AcpiInv, TypeOK
<1>7. \A s \in Known : acpi'[s] = IF s = sig THEN t ELSE acpi[s]
    BY <1>2, <1>5
<1>8. Validated'
    BY <1>2, <1>7 DEF AcpiInv, Validated, Sig, acpi_sdtComputeChecksum
<1>9. /\ ReachedFrom(m_rsdp)' = ReachedFrom(m_rsdp) /\ Listed(m_rsdp)' = Listed(m_rsdp)
      /\ Trusts64Bit(m_rsdp)' = Trusts64Bit(m_rsdp)
      /\ \A u : NamedBy(m_rsdp, u)' = NamedBy(m_rsdp, u)
    BY <1>2, ReachedUnchanged
<1>10. FromRootInUse'
    BY <1>1, <1>2, <1>5, <1>7, <1>9 DEF AcpiInv, FromRootInUse
<1>11. PathKnown'
    <2>1. acpi'["FACP"] # Null => acpi'["FACP"] \in Listed(m_rsdp)
        BY <1>1, <1>7 DEF AcpiInv, PathKnown, Known
    <2>2. \A i \in DOMAIN pending :
              pending[i] \in Listed(m_rsdp) \/ (acpi'["FACP"] # Null /\ pending[i] = NamedBy(m_rsdp, acpi'["FACP"]))
        BY <1>2, <1>3, <1>1, <1>7 DEF AcpiInv, PathKnown, Known
    <2>3. \A i \in DOMAIN Tail(pending) : i + 1 \in DOMAIN pending /\ Tail(pending)[i] = pending[i + 1]
        BY <1>5
    <2>4. CASE sig # "FACP"
        <3>1. pending' = Tail(pending)
            BY <1>2, <2>4
        <3> QED
            BY <1>2, <1>5, <1>9, <2>1, <2>2, <2>3, <3>1 DEF PathKnown
    <2>5. CASE sig = "FACP"
        <3>1. pending' = <<acpi_fadtInit(t)>> \o Tail(pending)
            BY <1>2, <2>5
        <3>2. acpi_fadtInit(t) = NamedBy(m_rsdp, acpi'["FACP"]) /\ acpi'["FACP"] # Null
            BY <1>1, <1>2, <1>3, <1>5, <1>7, <2>5 DEF acpi_fadtInit, NamedBy
        <3>3. \A i \in DOMAIN pending' :
                  pending'[i] = acpi_fadtInit(t) \/ (i \in DOMAIN pending /\ pending'[i] = pending[i])
            BY <1>1, <1>4, <1>5, <3>1
        <3> QED
            BY <1>2, <1>5, <1>9, <2>1, <2>2, <3>2, <3>3 DEF PathKnown
    <2> QED
        BY <2>4, <2>5
<1> QED
    BY <1>6, <1>8, <1>10, <1>11 DEF AcpiInv

\* Steps that change neither the firmware nor a registered table nor the root
\* pointer in use, and whose queue is a rest of the old one or has no meaning,
\* keep the path known.
LEMMA PathUntouched ==
    ASSUME AcpiInv, UNCHANGED <<fw, m_rsdp, m_acpi2, acpi>>, phase' # "rsdp",
           phase' = "tables" =>
               /\ phase = "tables"
               /\ \A i \in DOMAIN pending' : \E j \in DOMAIN pending : pending'[i] = pending[j]
    PROVE  PathKnown'
BY ReachedUnchanged DEF AcpiInv, PathKnown

\* Every step of the kernel's ACPI code preserves the invariant.
LEMMA AcpiInvStep == AcpiInv /\ [Next]_vars => AcpiInv'
<1> SUFFICES ASSUME AcpiInv, [Next]_vars PROVE AcpiInv'
    OBVIOUS
<1>1. ASSUME NEW r \in Rsdps, acpi_setRsdpLocation(r) PROVE AcpiInv'
    <2>1. TypeOK'
        BY <1>1 DEF acpi_setRsdpLocation, AcpiInv, TypeOK
    <2> QED
        BY <1>1, <2>1, TablesUntouched, PathUntouched DEF acpi_setRsdpLocation, AcpiInv
<1>2. CASE InitRefused
    <2>1. TypeOK'
        BY <1>2 DEF InitRefused, AcpiInv, TypeOK
    <2> QED
        BY <1>2, <2>1, TablesUntouched, PathUntouched DEF InitRefused, AcpiInv
<1>3. CASE InitStart
    <2>1. TypeOK'
        BY <1>3 DEF InitStart, AcpiInv, TypeOK, NoTables
    <2>2. \A s \in Known : acpi'[s] = Null
        BY <1>3 DEF InitStart, NoTables
    <2>3. Validated' /\ FromRootInUse'
        BY <2>2 DEF Validated, FromRootInUse
    <2>4. PathKnown'
        BY <1>3, <2>2 DEF InitStart, PathKnown, Known, NoTables
    <2> QED
        BY <2>1, <2>3, <2>4 DEF AcpiInv
<1>4. CASE RsdpRefused
    <2>1. TypeOK'
        BY <1>4 DEF RsdpRefused, AcpiInv, TypeOK
    <2> QED
        BY <1>4, <2>1, TablesUntouched, PathUntouched DEF RsdpRefused, AcpiInv
<1>5. CASE acpi_rsdpParse
    BY <1>5, RsdpParseKeeps
<1>6. CASE TableRegister
    BY <1>6, RegisterKeeps
<1>7. CASE TableIgnore
    <2>1. pending \in Seq(Tables) /\ pending # <<>> /\ pending' = Tail(pending)
        BY <1>7 DEF TableIgnore, AcpiInv, TypeOK
    <2>2. \A i \in DOMAIN pending' : i + 1 \in DOMAIN pending /\ pending'[i] = pending[i + 1]
        BY <2>1
    <2>3. TypeOK'
        BY <1>7, <2>1 DEF TableIgnore, AcpiInv, TypeOK
    <2> QED
        BY <1>7, <2>2, <2>3, TablesUntouched, PathUntouched DEF TableIgnore, AcpiInv
<1>8. CASE TablesDone
    <2>1. TypeOK'
        BY <1>8 DEF TablesDone, AcpiInv, TypeOK
    <2> QED
        BY <1>8, <2>1, TablesUntouched, PathUntouched DEF TablesDone, AcpiInv
<1>9. CASE acpi_dsdtParse
    <2>1. result' \in Int
        BY <1>9, FirmwareAssumption DEF acpi_dsdtParse
    <2>2. TypeOK'
        BY <1>9, <2>1 DEF acpi_dsdtParse, AcpiInv, TypeOK
    <2> QED
        BY <1>9, <2>2, TablesUntouched, PathUntouched DEF acpi_dsdtParse, AcpiInv
<1>10. CASE UNCHANGED vars
    <2>1. UNCHANGED <<fw, s_rsdp, m_rsdp, m_acpi2, acpi, pending, phase, result>>
        BY <1>10 DEF vars
    <2>2. TypeOK'
        BY <2>1 DEF AcpiInv, TypeOK
    <2>3. PathKnown'
        BY <2>1, ReachedUnchanged DEF AcpiInv, PathKnown
    <2> QED
        BY <2>1, <2>2, <2>3, TablesUntouched DEF AcpiInv
<1> QED
    BY <1>1, <1>2, <1>3, <1>4, <1>5, <1>6, <1>7, <1>8, <1>9, <1>10 DEF Next, acpi_init

\* In every state of acpi_init, on every firmware, the invariant holds: what is
\* registered is valid, and the way that led to it is known.
THEOREM AcpiInvariant == Spec => []AcpiInv
<1>1. Init => AcpiInv
    <2> SUFFICES ASSUME Init PROVE AcpiInv
        OBVIOUS
    <2>1. \A s \in Known : acpi[s] = Null
        BY DEF Init, NoTables
    <2>2. TypeOK
        <3>1. fw \in Firmware
            BY FirmwareAssumption DEF Init
        <3>2. acpi \in [Known -> Tables \cup {Null}]
            BY DEF Init, NoTables
        <3>3. m_acpi2 \in BOOLEAN
            BY Zenon DEF Init
        <3>4. pending \in Seq(Tables) /\ result \in Int /\ phase = "idle"
            BY DEF Init
        <3>5. s_rsdp = Null /\ m_rsdp = Null
            BY DEF Init
        <3> QED
            BY <3>1, <3>2, <3>3, <3>4, <3>5 DEF TypeOK
    <2>3. Validated /\ FromRootInUse
        BY <2>1 DEF Validated, FromRootInUse
    <2>4. PathKnown
        BY <2>1 DEF Init, PathKnown, Known
    <2> QED
        BY <2>2, <2>3, <2>4 DEF AcpiInv
<1> QED
    BY <1>1, AcpiInvStep, PTL DEF Spec

\* acpi_tableRegister never keeps a table with a wrong checksum, or in the
\* place of another kind, on any firmware.
THEOREM TablesValidated == Spec => []Validated
<1>1. AcpiInv => Validated
    BY DEF AcpiInv
<1> QED
    BY <1>1, AcpiInvariant, PTL

\* However often acpi_init is called, and with whatever root pointers, every
\* table in s_acpi comes from the root pointer in use, along the path for its
\* version.
THEOREM TablesFromRoot == Spec => []FromRootInUse
<1>1. AcpiInv => FromRootInUse
    BY DEF AcpiInv
<1> QED
    BY <1>1, AcpiInvariant, PTL

-----------------------------------------------------------------------------
\* What the tables are depends on the firmware alone.
LEMMA FirmwareUnchanged ==
    ASSUME UNCHANGED <<fw, m_rsdp>>
    PROVE  /\ \A t : Sig(t)' = Sig(t)
           /\ \A t : acpi_sdtComputeChecksum(t)' = acpi_sdtComputeChecksum(t)
           /\ \A t : ValidFadt(t)' = ValidFadt(t)
           /\ \A t : NamedBy(m_rsdp, t)' = NamedBy(m_rsdp, t)
           /\ RootOf(m_rsdp)' = RootOf(m_rsdp)
           /\ Listed(m_rsdp)' = Listed(m_rsdp)
<1>1. fw' = fw /\ m_rsdp' = m_rsdp
    OBVIOUS
<1>2. RootOf(m_rsdp)' = RootOf(m_rsdp)
    BY <1>1 DEF RootOf, Trusts64Bit
<1>3. \A t : Sig(t)' = Sig(t) /\ acpi_sdtComputeChecksum(t)' = acpi_sdtComputeChecksum(t)
    BY <1>1 DEF Sig, acpi_sdtComputeChecksum
<1>4. \A t : ValidFadt(t)' = ValidFadt(t)
    BY <1>1 DEF ValidFadt, Sig, acpi_sdtComputeChecksum
<1> QED
    BY <1>2, <1>3, <1>4, ReachedUnchanged

\* The rest of a list is empty at its end only, and a table put in front of it
\* can be taken away again.
LEMMA RestOfList ==
    ASSUME NEW E \in Seq(Tables), NEW k \in 1 .. Len(E) + 1, NEW d \in Tables
    PROVE  /\ SubSeq(E, k, Len(E)) \in Seq(Tables)
           /\ SubSeq(E, k, Len(E)) = <<>> <=> k = Len(E) + 1
           /\ <<d>> \o SubSeq(E, k, Len(E)) # <<>>
           /\ Head(<<d>> \o SubSeq(E, k, Len(E))) = d
           /\ Tail(<<d>> \o SubSeq(E, k, Len(E))) = SubSeq(E, k, Len(E))
<1> DEFINE rest == SubSeq(E, k, Len(E))
<1>1. rest \in Seq(Tables) /\ Len(rest) = Len(E) - k + 1
    OBVIOUS
<1>2. <<d>> \o rest # <<>> /\ Head(<<d>> \o rest) = d /\ Tail(<<d>> \o rest) = rest
    BY <1>1
<1>3. rest = <<>> <=> Len(rest) = 0
    <2> HIDE DEF rest
    <2> QED
        BY <1>1, EmptySeq
<1>4. rest = <<>> <=> k = Len(E) + 1
    <2> HIDE DEF rest
    <2> QED
        BY <1>1, <1>3
<1> QED
    BY <1>1, <1>2, <1>4

\* The queue's next table is the next one of the list, or else the DSDT of
\* m_fadt; the queue is known to be empty only at the end of the list.
LEMMA NextInQueue ==
    ASSUME AcpiInv, QueueKnown, phase = "tables", \A t \in Listed(m_rsdp) : Sig(t) # "DSDT",
           NEW E, E = fw.tables[RootOf(m_rsdp)].entries
    PROVE  /\ E \in Seq(Tables) /\ acpi_sdtComputeChecksum(RootOf(m_rsdp)) = 0
           /\ \E k \in 1 .. Len(E) + 1 :
                /\ Walked(E, k)
                /\ \/ k = Len(E) + 1 /\ pending = <<>> /\ acpi["DSDT"] = DsdtNamed
                   \/ /\ k \in 1 .. Len(E) /\ pending # <<>> /\ acpi["DSDT"] = DsdtNamed
                      /\ Head(pending) = E[k] /\ E[k] \in Listed(m_rsdp)
                      /\ Tail(pending) = SubSeq(E, k + 1, Len(E))
                   \/ /\ acpi["FACP"] # Null /\ pending # <<>>
                      /\ Head(pending) = NamedBy(m_rsdp, acpi["FACP"])
                      /\ Tail(pending) = SubSeq(E, k, Len(E))
                      /\ acpi["DSDT"] \in {Null, DsdtNamed}
<1>1. m_rsdp \in Rsdps /\ fw \in Firmware
    BY DEF AcpiInv, TypeOK, PathKnown
<1>2. E \in Seq(Tables)
    BY <1>1, FirmwareTyped DEF RootOf
<1>3. /\ acpi_sdtComputeChecksum(RootOf(m_rsdp)) = 0
      /\ \E k \in 1 .. Len(E) + 1 :
            /\ Walked(E, k)
            /\ \/ pending = SubSeq(E, k, Len(E)) /\ acpi["DSDT"] = DsdtNamed
               \/ /\ acpi["FACP"] # Null
                  /\ pending = <<NamedBy(m_rsdp, acpi["FACP"])>> \o SubSeq(E, k, Len(E))
                  /\ acpi["DSDT"] \in {Null, DsdtNamed}
    BY DEF QueueKnown
<1>4. PICK k \in 1 .. Len(E) + 1 :
            /\ Walked(E, k)
            /\ \/ pending = SubSeq(E, k, Len(E)) /\ acpi["DSDT"] = DsdtNamed
               \/ /\ acpi["FACP"] # Null
                  /\ pending = <<NamedBy(m_rsdp, acpi["FACP"])>> \o SubSeq(E, k, Len(E))
                  /\ acpi["DSDT"] \in {Null, DsdtNamed}
    BY <1>3
<1>5. \A i \in 1 .. Len(E) : E[i] \in Listed(m_rsdp)
    BY <1>2 DEF Listed, Range
<1>6. CASE pending = SubSeq(E, k, Len(E)) /\ acpi["DSDT"] = DsdtNamed
    <2>1. CASE k = Len(E) + 1
        <3>1. pending = <<>>
            BY <1>2, <1>6, <2>1
        <3> QED
            BY <1>2, <1>3, <1>4, <1>6, <2>1, <3>1
    <2>2. CASE k # Len(E) + 1
        <3>1. k \in 1 .. Len(E) /\ Len(E) \in k .. Len(E)
            BY <1>2, <2>2
        <3>2. Head(pending) = E[k] /\ Tail(pending) = SubSeq(E, k + 1, Len(E))
            BY <1>2, <1>6, <3>1, HeadTailOfSubSeq
        <3>3. pending # <<>>
            <4>1. E[k] \in Tables
                BY <1>2, <3>1
            <4> QED
                BY <1>2, <1>6, <2>2, <4>1, RestOfList
        <3> QED
            BY <1>2, <1>3, <1>4, <1>5, <1>6, <3>1, <3>2, <3>3
    <2> QED
        BY <2>1, <2>2
<1>7. CASE /\ acpi["FACP"] # Null
           /\ pending = <<NamedBy(m_rsdp, acpi["FACP"])>> \o SubSeq(E, k, Len(E))
           /\ acpi["DSDT"] \in {Null, DsdtNamed}
    <2>1. acpi["FACP"] \in Tables
        BY <1>7 DEF AcpiInv, TypeOK, Known
    <2>2. PICK d \in Tables : d = NamedBy(m_rsdp, acpi["FACP"])
        BY <1>1, <2>1, FirmwareTyped DEF NamedBy
    <2>3. pending # <<>> /\ Head(pending) = d /\ Tail(pending) = SubSeq(E, k, Len(E))
        BY <1>2, <1>7, <2>2, RestOfList
    <2> QED
        BY <1>2, <1>3, <1>4, <1>7, <2>2, <2>3
<1> QED
    BY <1>4, <1>6, <1>7

\* A list that is looked at one entry further.
LEMMA WalkOn ==
    ASSUME NEW E, NEW k \in Nat, Walked(E, k), k >= 1,
           acpi["FACP"] = Null => ~ValidFadt(E[k])
    PROVE  Walked(E, k + 1)
<1>1. CASE acpi["FACP"] = Null
    <2>1. \A j \in 1 .. (k + 1) - 1 : j \in 1 .. k - 1 \/ j = k
        OBVIOUS
    <2> QED
        BY <1>1, <2>1 DEF Walked
<1>2. CASE acpi["FACP"] # Null
    <2>1. \A j \in 1 .. k - 1 : j \in 1 .. (k + 1) - 1
        OBVIOUS
    <2> QED
        BY <1>2, <2>1 DEF Walked
<1> QED
    BY <1>1, <1>2

\* What QueueKnown says after a step of the loop, in the tables of before.
LEMMA QueueAfter ==
    ASSUME UNCHANGED <<fw, m_rsdp>>, NEW E, E = fw.tables[RootOf(m_rsdp)].entries,
           acpi_sdtComputeChecksum(RootOf(m_rsdp)) = 0,
           NEW k \in 1 .. Len(E) + 1, Walked(E, k)',
           \/ pending' = SubSeq(E, k, Len(E)) /\ acpi'["DSDT"] = DsdtNamed'
           \/ /\ acpi'["FACP"] # Null
              /\ pending' = <<NamedBy(m_rsdp, acpi'["FACP"])>> \o SubSeq(E, k, Len(E))
              /\ acpi'["DSDT"] \in {Null, DsdtNamed'}
    PROVE  QueueKnown'
<1>1. /\ fw'.tables[RootOf(m_rsdp)'].entries = E
      /\ acpi_sdtComputeChecksum(RootOf(m_rsdp))' = 0
      /\ NamedBy(m_rsdp, acpi["FACP"])' = NamedBy(m_rsdp, acpi'["FACP"])
    <2>1. fw' = fw /\ m_rsdp' = m_rsdp
        OBVIOUS
    <2>2. RootOf(m_rsdp)' = RootOf(m_rsdp)
        BY FirmwareUnchanged
    <2> QED
        BY <2>1, <2>2 DEF acpi_sdtComputeChecksum, NamedBy, Trusts64Bit
<1> QED
    BY <1>1 DEF QueueKnown

\* A table that acpi_tableRegister passes over.
LEMMA IgnoreKeepsQueue == ASSUME AcpiInv, QueueKnown, TableIgnore PROVE QueueKnown'
<1>1. /\ phase = "tables" /\ pending # <<>> /\ ~Accepted(Head(pending))
      /\ pending' = Tail(pending) /\ fw' = fw /\ m_rsdp' = m_rsdp /\ acpi' = acpi
    BY DEF TableIgnore
<1>2. /\ Listed(m_rsdp)' = Listed(m_rsdp) /\ \A t : Sig(t)' = Sig(t)
      /\ \A t : ValidFadt(t)' = ValidFadt(t)
    BY <1>1, FirmwareUnchanged
<1>3. SUFFICES ASSUME \A t \in Listed(m_rsdp) : Sig(t) # "DSDT" PROVE QueueKnown'
    BY <1>2 DEF QueueKnown
<1>4. PICK E : E = fw.tables[RootOf(m_rsdp)].entries
    OBVIOUS
<1>5. DsdtNamed' = DsdtNamed /\ \A k : Walked(E, k)' = Walked(E, k)
    BY <1>1 DEF DsdtNamed, Walked, ValidFadt, Sig, acpi_sdtComputeChecksum, NamedBy, Trusts64Bit
<1>6. E \in Seq(Tables) /\ acpi_sdtComputeChecksum(RootOf(m_rsdp)) = 0
    BY <1>1, <1>3, <1>4, NextInQueue
<1>7. PICK k \in 1 .. Len(E) + 1 :
          /\ Walked(E, k)
          /\ \/ /\ k \in 1 .. Len(E) /\ acpi["DSDT"] = DsdtNamed
                /\ Head(pending) = E[k]
                /\ Tail(pending) = SubSeq(E, k + 1, Len(E))
             \/ /\ acpi["FACP"] # Null
                /\ Head(pending) = NamedBy(m_rsdp, acpi["FACP"])
                /\ Tail(pending) = SubSeq(E, k, Len(E))
                /\ acpi["DSDT"] \in {Null, DsdtNamed}
    BY <1>1, <1>3, <1>4, NextInQueue
<1>8. CASE /\ k \in 1 .. Len(E) /\ acpi["DSDT"] = DsdtNamed
           /\ Head(pending) = E[k] /\ Tail(pending) = SubSeq(E, k + 1, Len(E))
    <2>1. acpi["FACP"] = Null => ~ValidFadt(E[k])
        BY <1>1, <1>8 DEF Accepted, ValidFadt, Known
    <2>2. Walked(E, k + 1)
        BY <1>7, <1>8, <2>1, WalkOn
    <2>3. k + 1 \in 1 .. Len(E) + 1
        BY <1>6, <1>8
    <2> QED
        BY <1>1, <1>4, <1>5, <1>6, <1>8, <2>2, <2>3, QueueAfter
<1>9. CASE /\ acpi["FACP"] # Null /\ Head(pending) = NamedBy(m_rsdp, acpi["FACP"])
           /\ Tail(pending) = SubSeq(E, k, Len(E)) /\ acpi["DSDT"] \in {Null, DsdtNamed}
    <2>1. DsdtNamed = Null
        BY <1>1, <1>9 DEF Accepted, DsdtNamed, Known
    <2> QED
        BY <1>1, <1>4, <1>5, <1>6, <1>7, <1>9, <2>1, QueueAfter
<1> QED
    BY <1>7, <1>8, <1>9

\* A table that acpi_tableRegister keeps: the next one of the list, whose DSDT
\* goes to the front of the queue if it is a FADT, or else that DSDT itself.
LEMMA RegisterKeepsQueue == ASSUME AcpiInv, QueueKnown, TableRegister PROVE QueueKnown'
<1> DEFINE t == Head(pending)
           sig == Sig(t)
<1>1. /\ phase = "tables" /\ pending # <<>> /\ fw' = fw /\ m_rsdp' = m_rsdp
      /\ acpi' = [acpi EXCEPT ![sig] = t]
      /\ pending' = IF sig = "FACP" THEN <<acpi_fadtInit(t)>> \o Tail(pending) ELSE Tail(pending)
      /\ acpi_sdtComputeChecksum(t) = 0 /\ sig \in Known
      /\ sig = "DSDT" \/ acpi[sig] \in {Null, t}
    BY DEF TableRegister, Accepted
<1>2. /\ Listed(m_rsdp)' = Listed(m_rsdp) /\ \A u : Sig(u)' = Sig(u)
      /\ \A u : ValidFadt(u)' = ValidFadt(u)
      /\ \A u : NamedBy(m_rsdp, u)' = NamedBy(m_rsdp, u)
      /\ \A u : acpi_sdtComputeChecksum(u)' = acpi_sdtComputeChecksum(u)
    BY <1>1, FirmwareUnchanged
<1>3. SUFFICES ASSUME \A u \in Listed(m_rsdp) : Sig(u) # "DSDT" PROVE QueueKnown'
    BY <1>2 DEF QueueKnown
<1>4. PICK E : E = fw.tables[RootOf(m_rsdp)].entries
    OBVIOUS
<1>5. /\ t \in Tables /\ t # Null
      /\ acpi'["FACP"] = IF sig = "FACP" THEN t ELSE acpi["FACP"]
      /\ acpi'["DSDT"] = IF sig = "DSDT" THEN t ELSE acpi["DSDT"]
      /\ acpi_fadtInit(t) = NamedBy(m_rsdp, t)
    <2>1. t \in Tables
        BY <1>1, HeadReached
    <2>2. t # Null
        BY <2>1, FirmwareAssumption
    <2>3. acpi \in [Known -> Tables \cup {Null}] /\ m_acpi2 = Trusts64Bit(m_rsdp)
        BY <1>1 DEF AcpiInv, TypeOK, PathKnown
    <2> QED
        BY <1>1, <2>1, <2>2, <2>3 DEF Known, acpi_fadtInit, NamedBy
<1>6. ASSUME acpi'["FACP"] = acpi["FACP"]
      PROVE  DsdtNamed' = DsdtNamed /\ \A k : Walked(E, k)' = Walked(E, k)
    <2>1. DsdtNamed' = DsdtNamed
        <3>1. NamedBy(m_rsdp, acpi["FACP"])' = NamedBy(m_rsdp, acpi["FACP"])
            BY <1>1, <1>6 DEF NamedBy, Trusts64Bit
        <3> QED
            BY <1>2, <1>6, <3>1 DEF DsdtNamed
    <2>2. \A k : Walked(E, k)' = Walked(E, k)
        BY <1>2, <1>6 DEF Walked
    <2> QED
        BY <2>1, <2>2
<1>7. E \in Seq(Tables) /\ acpi_sdtComputeChecksum(RootOf(m_rsdp)) = 0
    BY <1>1, <1>3, <1>4, NextInQueue
<1>8. PICK k \in 1 .. Len(E) + 1 :
          /\ Walked(E, k)
          /\ \/ /\ k \in 1 .. Len(E) /\ acpi["DSDT"] = DsdtNamed
                /\ t = E[k] /\ E[k] \in Listed(m_rsdp)
                /\ Tail(pending) = SubSeq(E, k + 1, Len(E))
             \/ /\ acpi["FACP"] # Null
                /\ t = NamedBy(m_rsdp, acpi["FACP"])
                /\ Tail(pending) = SubSeq(E, k, Len(E))
                /\ acpi["DSDT"] \in {Null, DsdtNamed}
    BY <1>1, <1>3, <1>4, NextInQueue
<1>9. CASE /\ k \in 1 .. Len(E) /\ acpi["DSDT"] = DsdtNamed
           /\ t = E[k] /\ E[k] \in Listed(m_rsdp) /\ Tail(pending) = SubSeq(E, k + 1, Len(E))
    <2>1. sig # "DSDT" /\ acpi'["DSDT"] = acpi["DSDT"]
        BY <1>3, <1>5, <1>9
    <2>2. k + 1 \in 1 .. Len(E) + 1
        BY <1>7, <1>9
    <2>3. CASE sig # "FACP"
        <3>1. acpi'["FACP"] = acpi["FACP"] /\ pending' = SubSeq(E, k + 1, Len(E))
            BY <1>1, <1>5, <1>9, <2>3
        <3>2. Walked(E, k + 1)
            BY <1>8, <1>9, <2>3, WalkOn DEF ValidFadt
        <3> QED
            BY <1>1, <1>4, <1>6, <1>7, <1>9, <2>1, <2>2, <3>1, <3>2, QueueAfter
    <2>4. CASE sig = "FACP"
        <3>1. /\ acpi'["FACP"] = t
              /\ pending' = <<NamedBy(m_rsdp, t)>> \o SubSeq(E, k + 1, Len(E))
            BY <1>1, <1>5, <1>9, <2>4
        <3>2. Walked(E, k + 1)' /\ acpi["DSDT"] \in {Null, DsdtNamed'}
            <4>1. CASE acpi["FACP"] = Null
                <5>1. \A j \in 1 .. k - 1 : ~ValidFadt(E[j])
                    BY <1>8, <4>1 DEF Walked
                <5>2. k \in 1 .. (k + 1) - 1
                    OBVIOUS
                <5>3. Walked(E, k + 1)'
                    BY <1>2, <1>5, <1>9, <3>1, <5>1, <5>2 DEF Walked
                <5> QED
                    BY <1>9, <4>1, <5>3 DEF DsdtNamed
            <4>2. CASE acpi["FACP"] # Null
                <5>1. acpi["FACP"] = t
                    BY <1>1, <2>4, <4>2
                <5>2. Walked(E, k + 1)
                    BY <1>8, <4>2, WalkOn
                <5> QED
                    BY <1>6, <1>9, <3>1, <5>1, <5>2
            <4> QED
                BY <4>1, <4>2
        <3> QED
            BY <1>1, <1>4, <1>5, <1>7, <2>1, <2>2, <3>1, <3>2, QueueAfter
    <2> QED
        BY <2>3, <2>4
<1>10. CASE /\ acpi["FACP"] # Null /\ t = NamedBy(m_rsdp, acpi["FACP"])
            /\ Tail(pending) = SubSeq(E, k, Len(E)) /\ acpi["DSDT"] \in {Null, DsdtNamed}
    <2>1. acpi'["FACP"] = acpi["FACP"]
        BY <1>1, <1>5, <1>10
    <2>2. Walked(E, k)' /\ DsdtNamed' = DsdtNamed
        BY <1>6, <1>8, <2>1
    <2>3. CASE sig = "FACP"
        <3>1. /\ pending' = <<NamedBy(m_rsdp, acpi'["FACP"])>> \o SubSeq(E, k, Len(E))
              /\ acpi'["DSDT"] = acpi["DSDT"] /\ acpi'["FACP"] # Null
            BY <1>1, <1>5, <1>10, <2>3
        <3> QED
            BY <1>1, <1>4, <1>7, <1>10, <2>2, <3>1, QueueAfter
    <2>4. CASE sig # "FACP"
        <3>1. pending' = SubSeq(E, k, Len(E))
            BY <1>1, <1>10, <2>4
        <3>2. acpi'["DSDT"] = DsdtNamed
            BY <1>1, <1>5, <1>10 DEF DsdtNamed
        <3> QED
            BY <1>1, <1>4, <1>7, <2>2, <3>1, <3>2, QueueAfter
    <2> QED
        BY <2>3, <2>4
<1> QED
    BY <1>8, <1>9, <1>10

\* At the end of the list m_fadt is its first valid FADT, and m_dsdt the DSDT
\* that this one names.
LEMMA ListWalked == ASSUME AcpiInv, QueueKnown, TablesDone PROVE DsdtOfFirstFadt'
<1>1. /\ phase = "tables" /\ pending = <<>> /\ fw' = fw /\ m_rsdp' = m_rsdp /\ acpi' = acpi
    BY DEF TablesDone
<1>2. /\ Listed(m_rsdp)' = Listed(m_rsdp) /\ \A u : Sig(u)' = Sig(u)
      /\ RootOf(m_rsdp)' = RootOf(m_rsdp)
      /\ \A u : NamedBy(m_rsdp, u)' = NamedBy(m_rsdp, u)
      /\ \A u : acpi_sdtComputeChecksum(u)' = acpi_sdtComputeChecksum(u)
    BY <1>1, FirmwareUnchanged
<1>3. SUFFICES ASSUME \A u \in Listed(m_rsdp) : Sig(u) # "DSDT" PROVE DsdtOfFirstFadt'
    BY <1>2 DEF DsdtOfFirstFadt
<1>4. PICK E : E = fw.tables[RootOf(m_rsdp)].entries
    OBVIOUS
<1>5. E \in Seq(Tables) /\ acpi_sdtComputeChecksum(RootOf(m_rsdp)) = 0
    BY <1>1, <1>3, <1>4, NextInQueue
<1>6. Walked(E, Len(E) + 1) /\ acpi["DSDT"] = DsdtNamed
    BY <1>1, <1>3, <1>4, NextInQueue
<1>7. PICK I : I = {i \in 1 .. Len(E) : ValidFadt(E[i])}
    OBVIOUS
<1>8. FirstListed("FACP")' = IF I # {} THEN Min(I) ELSE 0
    <2>1. PICK J : J = {i \in 1 .. Len(E) : Sig(E[i])' = "FACP" /\ acpi_sdtComputeChecksum(E[i])' = 0}
        OBVIOUS
    <2>2. J = I
        BY <1>2, <1>7, <2>1 DEF ValidFadt
    <2>3. fw'.tables[RootOf(m_rsdp)'].entries = E
        BY <1>1, <1>2, <1>4
    <2>4. FirstListed("FACP")' = IF J # {} THEN Min(J) ELSE 0
        BY <2>1, <2>3 DEF FirstListed, SelectInSeq
    <2> QED
        BY <2>2, <2>4
<1>9. (1 .. (Len(E) + 1) - 1) = 1 .. Len(E)
    BY <1>5
<1>10. CASE acpi["FACP"] = Null
    <2>1. I = {}
        BY <1>6, <1>7, <1>9, <1>10 DEF Walked
    <2>2. acpi["DSDT"] = Null
        BY <1>6, <1>10 DEF DsdtNamed
    <2> QED
        BY <1>1, <1>8, <1>10, <2>1, <2>2 DEF DsdtOfFirstFadt
<1>11. CASE acpi["FACP"] # Null
    <2>1. PICK i \in 1 .. Len(E) : acpi["FACP"] = E[i] /\ \A j \in 1 .. i - 1 : ~ValidFadt(E[j])
        BY <1>6, <1>9, <1>11 DEF Walked
    <2>2. ValidFadt(E[i])
        BY <1>11, <2>1 DEF AcpiInv, Validated, ValidFadt, Known
    <2>3. i \in I /\ \A j \in I : i <= j
        BY <1>5, <1>7, <2>1, <2>2
    <2>4. Min(I) = i
        <3>1. \A j \in I : j \in Int
            BY <1>5, <1>7
        <3>2. Min(I) \in I /\ \A j \in I : Min(I) <= j
            BY <2>3, Zenon DEF Min
        <3>3. PICK m : m = Min(I)
            OBVIOUS
        <3>4. m \in Int /\ i \in Int /\ m <= i /\ i <= m
            BY <2>3, <3>1, <3>2, <3>3
        <3> QED
            BY <3>3, <3>4
    <2>5. FirstListed("FACP")' = i /\ i # 0
        BY <1>8, <2>1, <2>3, <2>4
    <2>6. acpi'["FACP"] = fw'.tables[RootOf(m_rsdp)'].entries[i]
        BY <1>1, <1>2, <1>4, <2>1
    <2> QED
        BY <1>1, <1>2, <1>5, <1>6, <1>11, <2>5, <2>6 DEF DsdtOfFirstFadt, DsdtNamed
<1> QED
    BY <1>10, <1>11

\* Every step keeps the queue known and, at the end of it, m_fadt and m_dsdt
\* together.
LEMMA DsdtInvStep == DsdtInv /\ [Next]_vars => DsdtInv'
<1> SUFFICES ASSUME DsdtInv, [Next]_vars PROVE DsdtInv'
    OBVIOUS
<1>1. AcpiInv /\ QueueKnown /\ DsdtOfFirstFadt /\ AcpiInv'
    BY AcpiInvStep DEF DsdtInv
<1> SUFFICES QueueKnown' /\ DsdtOfFirstFadt'
    BY <1>1 DEF DsdtInv
<1>2. CASE phase' \notin {"tables", "dsdt"}
    BY <1>2 DEF QueueKnown, DsdtOfFirstFadt
<1>3. CASE RsdpRefused
    <2>1. phase' = "dsdt" /\ m_rsdp' = Null
        BY <1>1, <1>3 DEF RsdpRefused, AcpiInv, PathKnown
    <2> QED
        BY <2>1 DEF QueueKnown, DsdtOfFirstFadt
<1>4. CASE acpi_rsdpParse
    <2>1. /\ s_rsdp \in Rsdps /\ m_rsdp' = s_rsdp /\ RootOf(s_rsdp) \in Tables
          /\ acpi = NoTables /\ fw' = fw
        BY <1>1, <1>4, RsdpStep
    <2>2. PICK sig \in {"RSDT", "XSDT"} : RootParse(sig, RootOf(s_rsdp))
        BY <1>1, <1>4, RsdpStep
    <2>3. /\ RootOf(m_rsdp)' = RootOf(s_rsdp)
          /\ acpi_sdtComputeChecksum(RootOf(m_rsdp))' = acpi_sdtComputeChecksum(RootOf(s_rsdp))
        BY <2>1 DEF RootOf, Trusts64Bit, acpi_sdtComputeChecksum
    <2>4. acpi'["FACP"] = Null /\ acpi'["DSDT"] = Null
        BY <2>1, <2>2 DEF RootParse, NoTables, Known
    <2>5. CASE acpi_sdtComputeChecksum(RootOf(s_rsdp)) # 0
        <3>1. phase' = "dsdt"
            BY <2>2, <2>5 DEF RootParse
        <3> QED
            BY <2>3, <2>4, <2>5, <3>1 DEF QueueKnown, DsdtOfFirstFadt
    <2>6. CASE acpi_sdtComputeChecksum(RootOf(s_rsdp)) = 0
        <3>1. phase' = "tables" /\ pending' = fw.tables[RootOf(s_rsdp)].entries
            BY <2>2, <2>6 DEF RootParse
        <3>2. PICK E : E = fw.tables[RootOf(s_rsdp)].entries
            OBVIOUS
        <3>3. E \in Seq(Tables) /\ fw'.tables[RootOf(m_rsdp)'].entries = E
            BY <1>1, <2>1, <2>3, <3>2, FirmwareTyped DEF AcpiInv, TypeOK
        <3>4. Walked(E, 1)' /\ DsdtNamed' = Null
            BY <2>4 DEF Walked, DsdtNamed
        <3>5. pending' = SubSeq(E, 1, Len(E)) /\ 1 \in 1 .. Len(E) + 1
            BY <3>1, <3>2, <3>3, SubSeqFull
        <3>6. QueueKnown'
            BY <2>3, <2>4, <2>6, <3>3, <3>4, <3>5 DEF QueueKnown
        <3> QED
            BY <3>1, <3>6 DEF DsdtOfFirstFadt
    <2> QED
        BY <2>5, <2>6
<1>5. CASE TableRegister
    <2>1. phase' = "tables"
        BY <1>5 DEF TableRegister
    <2> QED
        BY <1>1, <1>5, <2>1, RegisterKeepsQueue DEF DsdtOfFirstFadt
<1>6. CASE TableIgnore
    <2>1. phase' = "tables"
        BY <1>6 DEF TableIgnore
    <2> QED
        BY <1>1, <1>6, <2>1, IgnoreKeepsQueue DEF DsdtOfFirstFadt
<1>7. CASE TablesDone
    <2>1. phase' = "dsdt"
        BY <1>7 DEF TablesDone
    <2> QED
        BY <1>1, <1>7, <2>1, ListWalked DEF QueueKnown
<1>8. CASE InitRefused \/ InitStart \/ acpi_dsdtParse \/ \E r \in Rsdps : acpi_setRsdpLocation(r)
    <2>1. phase' \in {"idle", "rsdp"}
        BY <1>8 DEF InitRefused, InitStart, acpi_dsdtParse, acpi_setRsdpLocation
    <2> QED
        BY <1>2, <2>1
<1>9. CASE UNCHANGED vars
    <2>1. UNCHANGED <<fw, m_rsdp, acpi, pending, phase>>
        BY <1>9 DEF vars
    <2>2. QueueKnown' = QueueKnown
        BY <2>1 DEF QueueKnown, Listed, RootOf, Trusts64Bit, Sig, acpi_sdtComputeChecksum, Walked,
               ValidFadt, DsdtNamed, NamedBy
    <2>3. /\ Listed(m_rsdp)' = Listed(m_rsdp) /\ \A u : Sig(u)' = Sig(u)
          /\ RootOf(m_rsdp)' = RootOf(m_rsdp)
          /\ NamedBy(m_rsdp, acpi["FACP"])' = NamedBy(m_rsdp, acpi["FACP"])
          /\ \A u : acpi_sdtComputeChecksum(u)' = acpi_sdtComputeChecksum(u)
          /\ acpi_sdtComputeChecksum(RootOf(m_rsdp))' = acpi_sdtComputeChecksum(RootOf(m_rsdp))
        BY <2>1, FirmwareUnchanged DEF NamedBy, Trusts64Bit, RootOf, acpi_sdtComputeChecksum
    <2>4. FirstListed("FACP")' = FirstListed("FACP")
        BY <2>1, <2>3 DEF FirstListed, SelectInSeq
    <2>5. DsdtOfFirstFadt' = DsdtOfFirstFadt
        BY <2>1, <2>3, <2>4 DEF DsdtOfFirstFadt
    <2> QED
        BY <1>1, <2>2, <2>5
<1> QED
    BY <1>3, <1>4, <1>5, <1>6, <1>7, <1>8, <1>9 DEF Next, acpi_init

\* On every firmware whose root table lists no DSDT, the DSDT that acpi_init keeps
\* and checks is that of the first valid FADT of the list, whatever else is
\* listed, how often, and in what order.
THEOREM DsdtIsOfFirstFadt == Spec => []DsdtOfFirstFadt
<1>1. Init /\ AcpiInv => DsdtInv
    BY DEF Init, DsdtInv, QueueKnown, DsdtOfFirstFadt
<1>2. DsdtInv => DsdtOfFirstFadt
    BY DEF DsdtInv
<1> QED
    BY <1>1, <1>2, AcpiInvariant, DsdtInvStep, PTL DEF Spec
=============================================================================
