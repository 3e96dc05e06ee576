------------------------------- MODULE MCAcpi -------------------------------
(***************************************************************************)
(* Firmwares for model checking Acpi: two FADTs (f, g), two DSDTs (d, e),  *)
(* a MADT (m), a table of another kind (h), a XSDT (x) and two RSDTs       *)
(* (r, q).                                                                 *)
(***************************************************************************)
EXTENDS Acpi

TableSet == {"f", "g", "d", "e", "m", "h", "x", "r", "q"}

\* Which tables are of which kind.
KindOf ==
    [t \in TableSet |->
        CASE t \in {"f", "g"} -> "FACP" [] t \in {"d", "e"} -> "DSDT" [] t = "m" -> "APIC"
          [] t = "h" -> "other" [] t = "x" -> "XSDT" [] OTHER -> "RSDT"]

\* Lists of a root table: the usual one; two FADTs; one FADT twice and another
\* root table; a DSDT listed after the FADT.
Lists == {<<"m", "h", "f">>, <<"g", "f", "m">>, <<"f", "r", "f">>, <<"f", "d">>}

\* At most one table is damaged; f may name itself.
TablesWith(damaged, xList, rList, xDsdt) ==
    [t \in TableSet |->
        [sig |-> KindOf[t], bytes |-> IF t = damaged THEN 257 ELSE 512,
         entries |-> CASE t = "x" -> xList [] t = "r" -> rList [] t = "q" -> <<"m">>
                       [] OTHER -> <<>>,
         dsdt |-> IF t = "f" THEN "d" ELSE "e",
         xDsdt |-> IF t = "f" THEN xDsdt ELSE "d"]]

\* One root pointer of either version, with right or wrong checksums, and one of ACPI 1.
RsdpsWith(first, rest, revision) ==
    [p |-> [first |-> first, rest |-> rest, revision |-> revision, rsdt |-> "r", xsdt |-> "x"],
     o |-> [first |-> 256, rest |-> 0, revision |-> 0, rsdt |-> "q", xsdt |-> "x"]]

FirmwareSet ==
    {[tables |-> TablesWith(damaged, xList, rList, xDsdt),
      rsdps |-> RsdpsWith(first, rest, revision)] :
        damaged \in {"none", "f", "g", "e", "x", "m"}, xList \in Lists, rList \in Lists,
        xDsdt \in {"e", "f"}, first \in {256, 257}, rest \in {255, 512}, revision \in {0, 2}}

Answers == {-1, 0}
=============================================================================
