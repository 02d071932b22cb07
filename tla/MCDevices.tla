------------------------------ MODULE MCDevices -------------------------------
(* Small devices for TLC. *)
EXTENDS Devices

\* eleven seconds a minute, so that a second has two digits
MCRadix == <<11, 2, 2, 2, 2, 2>>

Tex(pixels, w, h, x1, y1, w1, h1, sib) ==
  [type |-> "texture", pixels |-> pixels, w |-> w, h |-> h, x1 |-> x1, y1 |-> y1, w1 |-> w1, h1 |-> h1,
   sibling |-> sib, child |-> -1]
Sub(child, w, h, x1, y1, w1, h1, sib) ==
  [type |-> "subtree", pixels |-> 0, w |-> w, h |-> h, x1 |-> x1, y1 |-> y1, w1 |-> w1, h1 |-> h1,
   sibling |-> sib, child |-> child]

\* a scaled texture; two that overlap; a tree in a tree
MCScenes == {
  <<Tex(1, 1, 2, 1, 0, 2, 2, -1)>>,
  <<Sub(2, 3, 2, 0, 0, 3, 2, -1), Tex(0, 2, 2, 0, 0, 3, 1, 3), Tex(2, 2, 1, 1, 0, 2, 2, -1)>>,
  <<Sub(2, 2, 2, 0, 0, 3, 2, -1), Tex(3, 1, 1, 0, 0, 2, 1, 3), Sub(4, 1, 2, 0, 0, 1, 2, 5),
    Tex(0, 1, 1, 0, 1, 1, 1, -1), Sub(6, 2, 1, 1, 1, 1, 1, -1), Tex(2, 2, 2, 0, 0, 2, 1, -1)>>}
MCCorners == {<<0, 0>>, <<1, 0>>, <<2, 1>>, <<3, 1>>, <<1, 2>>}
MCSizes == {<<1, 1>>, <<2, 2>>, <<3, 1>>, <<0, 2>>}

Seg(offset, paddr, filesz, memsz) ==
  [offset |-> offset, paddr |-> paddr, filesz |-> filesz, memsz |-> memsz]

\* one segment as the linker makes it; two that share a sector; two that do not; one without bytes
MCKernels == {
  <<Seg(1, 17, 4, 9)>>,
  <<Seg(2, 18, 3, 3), Seg(5, 21, 5, 6)>>,
  <<Seg(1, 17, 3, 5), Seg(5, 23, 2, 4)>>,
  <<Seg(3, 17, 2, 2), Seg(0, 20, 0, 0)>>}
\* types of the entries of the MP table; 0 is a processor
MCMPTables == {<<0, 1, 2>>, <<0, 0, 3, 3, 2>>, <<0, 0, 0, 1>>, <<0>>}
=============================================================================
