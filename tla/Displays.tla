------------------------------- MODULE Displays -------------------------------
(***************************************************************************)
(* The screens: the frame buffer and the canvas trees of x86-qemu          *)
(* (x86/qemu/ioe.c), the frame buffer of nemu, the SDL surface of native.  *)
(* Memory is one array of pixels: the frame buffer at 0, the canaries      *)
(* behind it, the memory of the GPU at Vmem, its scratch buffer at Vbuf.   *)
(***************************************************************************)
EXTENDS Integers, Sequences, FiniteSets

CONSTANTS DisplayW, DisplayH, Canary, VmemSize, VbufSize,
          Chan,         \* how many values a channel has: 256
          Corners, Sizes, \* of the rectangles drawn
          Scenes,       \* canvas trees in GPU memory: functions from nodes; the root is node 1
          MaxDraws

Vmem == DisplayW * DisplayH + Canary
Vbuf == Vmem + VmemSize
Address == 0..(Vbuf + VbufSize - 1)
AM_GPU_NULL == -1

VARIABLES screen,       \* "x86", "nemu" or "native"
          mem, draws,
          cfg_w,        \* nemu's cfg_now.width
          shown,        \* what should be seen at column x, row y
          flat,         \* nemu: the pixels by addresses, with lines of cfg_w
          astray        \* has nemu drawn where it should not?

nemu_vars == <<cfg_w, flat, astray>>
gvars == <<screen, mem, draws, shown, nemu_vars>>

Black == <<0, 0, 0>>

DisplaysInit ==
  /\ screen \in {"x86", "nemu", "native"} /\ draws = 0
  /\ mem = [a \in Address |-> Black]
  /\ cfg_w = 0 /\ flat = mem /\ astray = FALSE
  /\ shown = [p \in (0..DisplayW-1) \X (0..DisplayH-1) |-> Black]

R(p) == (p \div (Chan * Chan)) % Chan
G(p) == (p \div Chan) % Chan
B(p) == p % Chan
Pixel(p) == <<R(p), G(p), B(p)>>

\* the k-th pixel of the n-th picture
Picture(n, k) == (n * 11 + k * 7 + 1) % (Chan * Chan * Chan)

Written(ws) == [a \in Address |-> IF \E w \in ws : w[1] = a
                                  THEN (CHOOSE w \in ws : w[1] = a)[2] ELSE mem[a]]

-----------------------------------------------------------------------------
(* Drawing a rectangle. *)

gpu_fbdraw(x, y, w, h, pixels) ==
  LET len == IF x + w >= DisplayW THEN DisplayW - x ELSE w
  IN Written({<<x + (j + y) * DisplayW + i, Pixel(pixels[j * w + i])>> :
                <<i, j>> \in {<<i, j>> \in (0..len-1) \X (0..h-1) : y + j < DisplayH}})

\* nobody calls __am_gpu_init; an application may
__am_gpu_init ==
  /\ screen = "nemu" /\ cfg_w' = DisplayW
  /\ UNCHANGED <<screen, mem, draws, shown, flat, astray>>

\* nemu does not clip; the i-th line begins at idx, buffer_idx of the code
nemu_fbdraw(x, y, w, h, pixels) ==
  LET after[i \in 0..h] ==
        IF i = 0 THEN [m |-> mem, idx |-> y * cfg_w + x]
        ELSE LET l == after[i-1]
             IN [m |-> [a \in Address |-> IF a \in l.idx..l.idx+w-1
                          THEN Pixel(pixels[(i-1) * w + (a - l.idx)]) ELSE l.m[a]],
                 idx |-> (l.idx + w) + (cfg_w - w)]
  IN after[h].m

\* SDL copies what lies on the surface
native_fbdraw(x, y, w, h, pixels) ==
  IF w = 0 \/ h = 0 THEN mem
  ELSE Written({<<(y + j) * DisplayW + x + i, Pixel(pixels[j * w + i])>> : <<i, j>> \in
                  {<<i, j>> \in (0..w-1) \X (0..h-1) : x + i < DisplayW /\ y + j < DisplayH}})

\* a picture laid on the pixels f in lines of W: the last of those that meet
Laid(f, W, x, y, w, h, pixels) ==
  [a \in Address |->
     LET over == {i \in 0..h-1 : a \in W * (y + i) + x .. W * (y + i) + x + w - 1}
         last == CHOOSE i \in over : \A k \in over : k <= i
     IN IF over = {} THEN f[a]
        ELSE Pixel(pixels[last * w + (a - (W * (y + last) + x))])]

fbdraw ==
  /\ draws < MaxDraws /\ draws' = draws + 1 /\ UNCHANGED <<screen, cfg_w>>
  /\ \E at \in Corners, size \in Sizes :
       LET x == at[1]  y == at[2]  w == size[1]  h == size[2]
           pixels == [k \in 0..w*h-1 |-> Picture(draws, k)]
       IN /\ mem' = CASE screen = "x86" -> gpu_fbdraw(x, y, w, h, pixels)
                      [] screen = "nemu" -> nemu_fbdraw(x, y, w, h, pixels)
                      [] OTHER -> native_fbdraw(x, y, w, h, pixels)
          /\ flat' = IF screen = "nemu" THEN Laid(flat, cfg_w, x, y, w, h, pixels) ELSE flat
          /\ astray' = (\/ astray
                        \/ /\ screen = "nemu" /\ w > 0 /\ h > 0
                           /\ \/ x + w > DisplayW
                              \/ y + h > (IF cfg_w = DisplayW THEN DisplayH ELSE 1))
          /\ shown' = [p \in DOMAIN shown |->
               IF p[1] \in x..x+w-1 /\ p[2] \in y..y+h-1
               THEN Pixel(pixels[(p[2] - y) * w + (p[1] - x)]) ELSE shown[p]]

-----------------------------------------------------------------------------
(* The canvas trees of x86-qemu. *)

to_host(ptr) == IF ptr = AM_GPU_NULL THEN AM_GPU_NULL ELSE Vmem + ptr

\* textures are copied, as pixels, to where they fit
gpu_memcpy ==
  /\ screen = "x86" /\ draws < MaxDraws /\ draws' = draws + 1
  /\ UNCHANGED <<screen, shown, nemu_vars>>
  /\ \E dest \in {0, 1}, size \in {VmemSize - 1} :
       mem' = Written({<<to_host(dest) + i, Pixel(Picture(draws, i))>> : i \in 0..size-1})

\* mutant: the buffer is not cleared
vbuf_allocStale(m, size) == [m EXCEPT !.head = @ + size]

\* a buffer of black pixels; that the buffers fit is assumed: the code panics
vbuf_alloc(m, size) == [head |-> m.head + size,
  mem |-> [a \in Address |-> IF a \in m.head..m.head+size-1 THEN Black ELSE m.mem[a]]]

RECURSIVE render(_, _, _, _, _), Children(_, _, _, _, _)

Children(scene, ch, W, px, m) ==
  IF ch = AM_GPU_NULL THEN m
  ELSE Children(scene, scene[ch].sibling, W, px, render(scene, ch, W, px, m))

\* node n is drawn on the canvas of width W at px
render(scene, n, W, px, m) ==
  LET cv == scene[n]
      subtree == cv.type = "subtree"
      local == IF subtree THEN m.head ELSE to_host(cv.pixels)
      in == IF subtree THEN Children(scene, cv.child, cv.w, local, vbuf_alloc(m, cv.w * cv.h)) ELSE m
      From(a) == CHOOSE ij \in (0..cv.w1-1) \X (0..cv.h1-1) :
                   a = px + W * (cv.y1 + ij[2]) + cv.x1 + ij[1]
      Drawn == {px + W * (cv.y1 + j) + cv.x1 + i : <<i, j>> \in (0..cv.w1-1) \X (0..cv.h1-1)}
  IN [in EXCEPT !.mem = [a \in Address |-> IF a \notin Drawn THEN @[a]
       ELSE LET i == From(a)[1]  j == From(a)[2]
            IN @[local + cv.w * ((j * cv.h) \div cv.h1) + ((i * cv.w) \div cv.w1)]]]

\* what a canvas shows at x, y: its last child there, scaled
RECURSIVE Look(_, _, _, _), Over(_, _, _, _, _)

Over(scene, ch, x, y, below) ==
  IF ch = AM_GPU_NULL THEN below
  ELSE LET cv == scene[ch]
       IN Over(scene, cv.sibling, x, y,
               IF x \in cv.x1..cv.x1+cv.w1-1 /\ y \in cv.y1..cv.y1+cv.h1-1
               THEN Look(scene, ch, ((x - cv.x1) * cv.w) \div cv.w1, ((y - cv.y1) * cv.h) \div cv.h1)
               ELSE below)

Look(scene, n, x, y) ==
  IF scene[n].type = "texture" THEN mem[to_host(scene[n].pixels) + scene[n].w * y + x]
  ELSE Over(scene, scene[n].child, x, y, Black)

gpu_render ==
  /\ screen = "x86" /\ draws < MaxDraws /\ draws' = draws + 1
  /\ UNCHANGED <<screen, nemu_vars>>
  /\ \E scene \in Scenes :
       /\ mem' = render(scene, 1, DisplayW, 0, [mem |-> mem, head |-> Vbuf]).mem
       /\ shown' = [p \in DOMAIN shown |-> Over(scene, 1, p[1], p[2], shown[p])]

DisplaysNext == fbdraw \/ __am_gpu_init \/ gpu_memcpy \/ gpu_render

-----------------------------------------------------------------------------
(* Whatever is drawn, in whatever order, on x86-qemu and native the frame     *)
(* buffer holds line by line what should be seen, and the pixels behind it    *)
(* are untouched: rectangles end where they should and at the edge of the     *)
(* screen, scaled canvases take no pixel from outside, and a nested canvas    *)
(* never writes over another one that is being put together.                  *)
(* So it is on nemu until a rectangle leaves the screen or has a line below   *)
(* the first of the screen while cfg_now.width is 0, as it stays: nothing     *)
(* calls __am_gpu_init.  From then on a line that is too long goes on in the  *)
(* next one and behind the frame buffer, and with the width 0 all lines lie   *)
(* over each other in the first, the last one above.                          *)
PixelsIso ==
  /\ ~astray => /\ \A p \in DOMAIN shown : mem[p[2] * DisplayW + p[1]] = shown[p]
                /\ \A a \in 0..Vmem-1 : a >= DisplayW * DisplayH => mem[a] = Black
  /\ screen = "nemu" => mem = flat
=============================================================================
