------------------------------ MODULE Ramdisk ------------------------------
(***************************************************************************)
(* The initial ramdisk (kernel/initrd): where it is, as the device tree    *)
(* says, and the reader of its cpio archive.                               *)
(*                                                                         *)
(* archive gives, for the addresses at which a header with the magic       *)
(* stands, what the header says: the name of the file, the size of the     *)
(* name and the size of the file, in bytes.                                *)
(***************************************************************************)
EXTENDS DeviceTree

CONSTANTS
  HeaderSize,   \* sizeof(struct cpio_newc_header)
  VirtualBase   \* virtual_kernel_offset

ASSUME HeaderAssumption == HeaderSize \in Nat \ {0} /\ VirtualBase \in Nat

VARIABLES archive, initrd_start_addr, initrd_end_addr

ramdisk == <<archive, initrd_start_addr, initrd_end_addr>>

pa2va(addr) == addr + VirtualBase

\* The first fields of /chosen are 64 bits wide, whatever the cells of the
\* root are.  Without both the addresses stay 0; a missing magic is reported
\* to nobody.
initrd_setup ==
  LET chosen == fdt_node_addr_by_path(<< <<"chosen", "">> >>)
      start == fdt_property_by_name(chosen, "linux,initrd-start")
      end == fdt_property_by_name(chosen, "linux,initrd-end")
  IN  /\ IF start # 0 /\ end # 0
         THEN /\ initrd_start_addr' = pa2va(Wide(start, 1))
              /\ initrd_end_addr' = pa2va(Wide(end, 1))
         ELSE UNCHANGED <<initrd_start_addr, initrd_end_addr>>
      /\ UNCHANGED archive

initrd_check_magic(addr) == addr \in DOMAIN archive

\* (addr + 3) & ~3
Aligned(addr) == ((addr + 3) \div 4) * 4

DataAddr(file) == Aligned(file + HeaderSize + archive[file].namesize)

initrd_get_filedata(file) ==
  IF initrd_check_magic(file)
  THEN [addr |-> DataAddr(file), size |-> archive[file].filesize]
  ELSE [addr |-> 0, size |-> 0]

Trailer == "TRAILER!!!"

\* Faulty variant: the next header is looked for right behind the data.
NextHeaderUnaligned(file) == DataAddr(file) + archive[file].filesize

NextHeader(file) == Aligned(DataAddr(file) + archive[file].filesize)

initrd_get_next_file_addr(file) ==
  IF /\ initrd_check_magic(file)
     /\ initrd_check_magic(NextHeader(file))
     /\ archive[NextHeader(file)].name # Trailer
  THEN NextHeader(file)
  ELSE 0

\* command_cat walks the same way.
initrd_get_file_addr(path) ==
  LET F[file \in {0} \cup DOMAIN archive] ==
        IF file = 0 THEN 0
        ELSE IF archive[file].name = path THEN file
        ELSE F[initrd_get_next_file_addr(file)]
  IN  IF initrd_check_magic(initrd_start_addr) THEN F[initrd_start_addr] ELSE 0

\* The files command_ls counts and prints.
Listed ==
  {file \in DOMAIN archive :
     LET F[a \in {0} \cup DOMAIN archive] ==
           a # 0 /\ (a = file \/ F[initrd_get_next_file_addr(a)])
     IN  initrd_check_magic(initrd_start_addr) /\ F[initrd_start_addr]}

-----------------------------------------------------------------------------
(* Properties.                                                             *)

\* The files of the archive: what stands before its trailer.
Files == {a \in DOMAIN archive : \A b \in DOMAIN archive :
            archive[b].name = Trailer => a < b}

\* Once the ramdisk has been found, every file of the archive is listed and
\* nothing else; a path leads to the first file of that name and to no other,
\* a path that is not there to none; and the data of a file, at any length of
\* its name and of the files before it, overlaps no header and lies within the
\* region that memory_setup reserves.
FilesFound ==
  initrd_start_addr # 0 =>
    /\ Listed = Files
    /\ \A a \in Files :
         LET path == archive[a].name
             data == initrd_get_filedata(a)
         IN  /\ initrd_get_file_addr(path) = FirstOf({b \in Files : archive[b].name = path})
             /\ data.addr + data.size <= initrd_end_addr
             /\ \A b \in DOMAIN archive :
                  b + HeaderSize + archive[b].namesize <= data.addr
                  \/ data.addr + data.size <= b
    /\ initrd_get_file_addr("none") = 0
=============================================================================
