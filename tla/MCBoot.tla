------------------------------- MODULE MCBoot -------------------------------
(* Instance of KernelMap for TLC: five boards. *)
EXTENDS KernelMap, TLC

\* Requests on both sides of the powers of two, and of more than there is.
MCSizes == {0, 4, 5, 9, 17}

-----------------------------------------------------------------------------
(* Device trees.                                                           *)

RamAddr == 64
Virtual(offset) == RamAddr + VirtualBase + offset

Number(cells, n) == IF cells = 1 THEN <<n>> ELSE <<n \div CellBase, n % CellBase>>
Cells(ac, sc) == <<Prop("#address-cells", <<ac>>), Prop("#size-cells", <<sc>>)>>
Reg(ac, sc, offset, size) == Prop("reg", Number(ac, RamAddr + offset) \o Number(sc, size))
Type(type) == Prop("device_type", <<type>>)
Compatible(names) == Prop("compatible", names)

Nop == <<Token("nop")>>
Close0 == <<Token("end_node")>>
Open(base, unit) == <<Begin(<<base, unit>>, FALSE)>>

Tree(root) == Nop \o <<Begin(Root, FALSE)>> \o root \o Close0 \o <<Token("end")>>

Memory0(ac, sc) ==
  Open("memory", "40") \o <<Type("memory"), Reg(ac, sc, 0, End)>> \o Close0
Region(ac, sc, unit, offset, size) ==
  Open("region", unit) \o Nop \o <<Reg(ac, sc, offset, size)>> \o Close0
Chosen(start, end) ==
  Open("chosen", "")
  \o <<Prop("linux,initrd-start", Number(2, RamAddr + start)),
       Prop("bootargs", << >>),
       Prop("linux,initrd-end", Number(2, RamAddr + end))>> \o Close0

Device(base, unit, low0, names, addr, size) ==
  <<Begin(<<base, unit>>, low0), Prop("reg", <<addr, size>>), Compatible(names)>> \o Close0

\* A bus with cells of its own and two serial lines, the first of which cannot
\* be found by what it is compatible with, and so one of the interrupt
\* controllers; behind it a memory node in the wrong place.
Bus ==
  Open("soc", "") \o Cells(1, 1) \o <<Compatible(<<"bus">>)>> \o Nop
  \o Device("serial", "4", TRUE, <<"ns16550a">>, 4, 1)
  \o Device("serial", "8", FALSE, <<"uart", "ns16550a">>, 8, 4)
  \o Device("plic", "c", TRUE, <<"riscv,plic0">>, 12, 4)
  \o Device("plic", "10", FALSE, <<"sifive,plic", "riscv,plic0">>, 16, 5)
  \o Close0
  \o Open("memory-controller", "1") \o Open("memory", "40") \o Close0 \o Close0

FwCfg ==
  Open("fw-cfg", "18") \o <<Prop("reg", <<0, 24, 0, 3>>), Compatible(<<"qemu,fw-cfg-mmio">>)>>
  \o Open("port", "") \o Close0 \o Close0

File(name, namesize, filesize) ==
  [name |-> name, namesize |-> namesize, filesize |-> filesize]

NoArchive == << >>

Board(root, files, fdt_offset, fdt_size, kernel_offset) ==
  [dt |-> Tree(root), archive |-> files,
   fdt |-> [addr |-> Virtual(fdt_offset), size |-> fdt_size],
   kernel |-> [addr |-> Virtual(kernel_offset), size |-> 16]]

\* An archive with files whose names and data have all lengths modulo 4, two of
\* them of one name; wide cells; NOPs everywhere.
FullBoard ==
  Board(Cells(2, 2) \o <<Compatible(<<"board", "bus">>)>> \o Bus \o Nop \o FwCfg
        \o Chosen(40, 76) \o Memory0(2, 2)
        \o Open("reserved-memory", "") \o Cells(2, 2)
        \o Region(2, 2, "5c", 92, 4) \o Close0,
        Virtual(40) :> File("a", 2, 5) @@ Virtual(52) :> File("b", 3, 1)
        @@ Virtual(64) :> File("a", 1, 4) @@ Virtual(72) :> File(Trailer, 2, 0),
        0, 5, 16)

\* No ramdisk, and one region more than the kernel has room for.
CrowdedBoard ==
  Board(Cells(1, 1) \o Memory0(1, 1)
        \o Open("reserved-memory", "") \o Cells(2, 1)
        \o Region(2, 1, "14", 20, 4) \o Region(2, 1, "18", 24, 20)
        \o Region(2, 1, "1c", 56, 4) \o Close0 \o Bus,
        NoArchive, 16, 4, 0)

\* Regions out of order, partly outside the memory and not whole pages; the
\* frame array has to go around a region.
CutBoard ==
  Board(Cells(2, 1) \o Open("reserved-memory", "") \o Nop \o Cells(2, 1)
        \o Region(2, 1, "3c", -4, 8) \o Region(2, 1, "80", 64, 6) \o Close0
        \o Memory0(2, 1) \o Chosen(48, 56)
        \o Open("memory", "41") \o <<Type("memory"), Reg(2, 1, 0, 4)>> \o Close0
        \o Bus,
        Virtual(48) :> File("x", 1, 0) @@ Virtual(52) :> File(Trailer, 2, 0),
        84, 9, 32)

\* A region as large as the memory.
FullyReservedBoard ==
  Board(Cells(2, 2) \o Chosen(40, 76) \o Memory0(2, 2)
        \o Open("reserved-memory", "") \o Cells(2, 2)
        \o Region(2, 2, "40", 0, End) \o Close0,
        NoArchive, 0, 4, 16)

\* No memory where it is looked for.
BareBoard == Board(Cells(2, 2) \o Bus \o Chosen(40, 76), NoArchive, 0, 4, 16)

MCBoards == {FullBoard, CrowdedBoard, CutBoard, FullyReservedBoard, BareBoard}
=============================================================================
