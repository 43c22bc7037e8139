------------------------------ MODULE MCPaging ------------------------------
(* Tables of six entries.  The direct map starts at top level entry 3 and  *)
(* the kernel's image is in entry 5.  The framebuffer ends six pages below *)
(* the end of entry 3, so the heap reaches the registers of the interrupt  *)
(* controllers and then entry 4, which nothing else uses.  Map entries at  *)
(* half pages, and one too small to hold a page.  Two usable regions have  *)
(* two frames, of which pmm_init takes one, and counts one too many: the   *)
(* frame past the last region, which nobody maps, is the second table of   *)
(* the start, and the one past the first region, which is somebody else's  *)
(* memory, the last frame of all.                                          *)
EXTENDS Paging

MCMemMap == <<
  [base |-> 0, length |-> 2, type |-> "RESERVED"],
  [base |-> 2, length |-> 4, type |-> "USABLE"],
  [base |-> 6, length |-> 2, type |-> "BOOTLOADER_RECLAIMABLE"],
  [base |-> 9, length |-> 5, type |-> "ACPI_RECLAIMABLE"],
  [base |-> 15, length |-> 1, type |-> "ACPI_NVS"],
  [base |-> 16, length |-> 32, type |-> "USABLE"],
  [base |-> 48, length |-> 6, type |-> "EXECUTABLE_AND_MODULES"],
  [base |-> 54, length |-> 4, type |-> "USABLE"],
  [base |-> 58, length |-> 2, type |-> "BAD_MEMORY"],
  [base |-> 424, length |-> 4, type |-> "FRAMEBUFFER"]>>

MCSection == [text |-> [start |-> 1080, end |-> 1081],
              rodata |-> [start |-> 1081, end |-> 1082],
              mut_data |-> [start |-> 1082, end |-> 1083]]

\* The regions of pmm_init, last first, each without its first frame.
MCPool == <<28, 29>> \o [i \in 1 .. 15 |-> 8 + i] \o <<2, 3>>
=============================================================================
