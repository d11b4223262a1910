------------------------------ MODULE GfxDriver ------------------------------
(***************************************************************************)
(* The graphics library of sw/gfx/drivers/gfx/bare in its two builds: the  *)
(* driver of the accelerator (orgfx.c, orgfx_plus.c) and the software      *)
(* implementation programs are tested with (orgfx_sw.c), side by side      *)
(* under the same calls of a program.  What the pixels of a primitive are  *)
(* is the subject of GfxRaster.                                            *)
(*                                                                         *)
(* The driver keeps a copy of the control register, a set of bits here,    *)
(* and of the surfaces bound, and waits for the engine before it writes a  *)
(* register; a call is one step that starts with the engine idle, but for  *)
(* flip and for texts and meshes, which draw one primitive after another.  *)
(* The engine and the VGA core, which changes pages at the end of a frame, *)
(* are external.  Depths and coordinates of primitives are left out, and   *)
(* so are the calls that write pixels or depths past the engine and wait   *)
(* for nothing (orgfx_set_pixel, orgfx_clear_zbuffer).                     *)
(***************************************************************************)
EXTENDS Integers, Sequences

CONSTANTS NUM_SURFACES,
          Screen,     \* size of the screen, [w, h]
          Sizes,      \* sizes of images
          Rects,      \* rectangles a program names
          Values,     \* colours, colour keys, alphas and matrices
          Far,        \* what is added to the address of the second screen
          Pieces,     \* bound: primitives of a text or a mesh
          MaxCalls    \* bound: calls of the program

\* The surfaces: the images from 1 on.
None == -1
screen0 == 0
screen1 == NUM_SURFACES + 1
depthBuffer == NUM_SURFACES + 2
Names == 0 .. NUM_SURFACES + 2
Enables == {"texture", "blend", "colorkey", "clipping", "zbuffer"}
Size(w, h) == 2 * w * h

\* NUM_SURFACES is the size of two tables: of images, and in orgfx_sw.c also of all surfaces.
ASSUME GfxAssumption ==
    /\ {NUM_SURFACES, Far, Pieces, MaxCalls} \subseteq Nat
    /\ {Screen.w, Screen.h} \subseteq Nat /\ \A s \in Sizes : {s.w, s.h} \subseteq Nat
    /\ Rects \subseteq Nat \X Nat \X Nat \X Nat
ScreenSize == Size(Screen.w, Screen.h)
\* The second screen lies beyond everything allocated after it: there is room for every image.
Enough(m) == (\A s \in Sizes : Size(s.w, s.h) <= m) /\ 3 * ScreenSize + NUM_SURFACES * m <= Far
ASSUME RoomAssumption == \E m \in 0 .. Far : Enough(m)

VARIABLES hw,      \* the driver: copies, surfaces, allocation, and the engine's registers
          soft,    \* the software implementation
          engine,  \* the primitive it draws: bytes from .. upto - 1 of memory
          vga,     \* page addresses, the page shown, the bank switch bit
          host     \* the program: where it is, what is left of a text or mesh, calls, images;
                   \* history: the builds have gone apart

gfxvars == <<hw, soft, engine, vga, host>>

NoSurface == [addr |-> 0, w |-> 0, h |-> 0]
Full(s) == <<0, 0, s.w, s.h>>

-----------------------------------------------------------------------------
(* orgfx.c.                                                                *)

orgfx_srcrect(h, r) == [h EXCEPT !.reg.src = r]
orgfx_cliprect(h, r) == [h EXCEPT !.reg.clip = r]
orgfx_init_src(h) ==
    IF "texture" \in h.ctrl /\ h.tex0 # None THEN orgfx_srcrect(h, Full(h.surf[h.tex0]))
    ELSE IF h.target # None THEN orgfx_srcrect(h, Full(h.surf[h.target])) ELSE h

orgfx_init_surface(h, s, w, ht) ==
    [h EXCEPT !.surf[s] = [addr |-> h.base, w |-> w, h |-> ht], !.base = @ + Size(w, ht)]
orgfx_bind_rendertarget(h, s) ==
    orgfx_cliprect([h EXCEPT !.target = s, !.reg.target = h.surf[s]], Full(h.surf[s]))
\* Fault: the source rectangle of the texture before stays.
orgfx_bind_tex0_KeepsSource(h, s) == [h EXCEPT !.tex0 = s, !.reg.tex0 = h.surf[s]]
orgfx_bind_tex0(h, s) == orgfx_init_src([h EXCEPT !.tex0 = s, !.reg.tex0 = h.surf[s]])
orgfx_bind_zbuffer(h, s) == [h EXCEPT !.zbuf = s, !.reg.zbuf = h.surf[s].addr]

\* The enables: the bit in the copy, the copy into the register.
Enable(h, bit, on) ==
    LET c == IF on THEN h.ctrl \cup {bit} ELSE h.ctrl \ {bit} IN [h EXCEPT !.ctrl = c, !.reg.ctrl = c]
orgfx_enable_tex0(h, on) == orgfx_init_src(Enable(h, "texture", on))
orgfx_set(h, reg, v) == [h EXCEPT !.reg[reg] = v]
orgfx_enable_transform(h, on) == [h EXCEPT !.transform = on]

\* Points go with a control word that moves them, through the matrix or not; the last word starts.
Primitive(h) == [h EXCEPT !.reg.ctrl = h.ctrl, !.reg.moved = h.transform]
\* Whether a curve is filled inside stays in the copy for what is drawn next.
orgfx_curve(h, inside) ==
    LET c == IF inside THEN h.ctrl \cup {"inside"} ELSE h.ctrl \ {"inside"}
    IN Primitive([h EXCEPT !.ctrl = c])

-----------------------------------------------------------------------------
(* The same in orgfx_sw.c: surfaces are numbered, rectangles have a width. *)

sw_rect(r) == <<r[1], r[2], r[3] - r[1], r[4] - r[2]>>
sw_full(i) == <<0, 0, soft.sizes[i].w, soft.sizes[i].h>>
sw_srcrect(s, r) == [s EXCEPT !.src = sw_rect(r)]
sw_cliprect(s, r) == [s EXCEPT !.clip = sw_rect(r)]
sw_init_src(s) ==
    LET full(i) == sw_rect(<<0, 0, s.sizes[i].w, s.sizes[i].h>>)
    IN IF "texture" \in s.on /\ s.tex0 # 0 THEN [s EXCEPT !.src = full(s.tex0)]
       ELSE IF s.target # 0 THEN [s EXCEPT !.src = full(s.target)] ELSE s
sw_init_surface(s, name, w, h) ==
    [s EXCEPT !.sizes = Append(@, [w |-> w, h |-> h]), !.addr[name] = Len(s.sizes) + 1]
sw_bind_rendertarget(s, name) ==
    LET i == s.addr[name]
    IN sw_cliprect([s EXCEPT !.target = i], <<0, 0, s.sizes[i].w, s.sizes[i].h>>)
sw_bind_tex0(s, name) == sw_init_src([s EXCEPT !.tex0 = s.addr[name]])
sw_enable(s, bit, on) == [s EXCEPT !.on = IF on THEN @ \cup {bit} ELSE @ \ {bit}]
sw_enable_tex0(s, on) == sw_init_src(sw_enable(s, "texture", on))
sw_set(s, reg, v) == [s EXCEPT !.val[reg] = v]

-----------------------------------------------------------------------------
(* The program's calls: orgfx_plus.c and what orgfx_sw.c has in its place. *)

Ready == host.at = "ready" /\ host.todo = <<>> /\ host.calls < MaxCalls
\* Fault: registers and memory are written whatever the engine does.
orgfx_wait_Not == TRUE
orgfx_wait == ~engine.busy
Counted == [host EXCEPT !.calls = @ + 1]
Call(h, s) ==
    /\ Ready /\ orgfx_wait
    /\ hw' = h /\ soft' = s /\ host' = Counted
    /\ UNCHANGED <<engine, vga>>
Start(h) == engine' = [busy |-> TRUE, from |-> h.reg.target.addr,
                       upto |-> h.reg.target.addr + Size(h.reg.target.w, h.reg.target.h)]
Draw(h, s) ==
    /\ Ready /\ orgfx_wait
    /\ hw' = Primitive(h) /\ soft' = s /\ host' = Counted
    /\ Start(h)
    /\ UNCHANGED vga

orgfxplus_init(double, zbuffer) ==
    LET h0 == orgfx_init_surface([hw EXCEPT !.double = double], screen0, Screen.w, Screen.h)
        h1 == orgfx_init_surface(h0, screen1, Screen.w, Screen.h)
        far == [h1 EXCEPT !.surf[screen1].addr = @ + Far]
        h2 == IF double THEN orgfx_bind_rendertarget(far, screen1) ELSE orgfx_bind_rendertarget(h0, screen0)
        h3 == orgfx_bind_zbuffer(orgfx_init_surface(h2, depthBuffer, Screen.w, Screen.h), depthBuffer)
        s1 == sw_bind_rendertarget(sw_init_surface(soft, screen0, Screen.w, Screen.h), screen0)
        s2 == sw_init_surface(s1, depthBuffer, Screen.w, Screen.h)
    IN /\ host.at = "start" /\ host' = [host EXCEPT !.at = "ready"]
       /\ hw' = IF zbuffer THEN h3 ELSE h2
       /\ soft' = IF zbuffer THEN [s2 EXCEPT !.zbuf = s2.addr[depthBuffer]] ELSE s1
       /\ vga' = IF double THEN [vga EXCEPT !.vbarb = h2.surf[screen1].addr] ELSE vga
       /\ UNCHANGED engine

\* -1 stands for the screen: the page that is not shown.
Page(h) == IF h.double /\ h.activeScreen = 1 THEN screen1 ELSE screen0
Target(i, h) == IF i = -1 THEN Page(h) ELSE i
sw_Target(i) == IF i = -1 THEN screen0 ELSE i

\* The image is written by the processor, into the surface bound for it; then the screen is
\* bound, whatever was bound before: activeSurface never changes.
orgfxplus_init_surface(size) ==
    /\ host.images < NUM_SURFACES
    /\ Ready /\ orgfx_wait
    /\ LET i == host.images + 1
           h == orgfx_bind_rendertarget(orgfx_init_surface(hw, i, size.w, size.h), i)
           s == sw_bind_rendertarget(sw_init_surface(soft, i, size.w, size.h), i)
       IN /\ hw' = orgfx_bind_rendertarget(h, Page(h))
          /\ soft' = sw_bind_rendertarget(s, screen0)
    /\ host' = [Counted EXCEPT !.images = @ + 1, !.apart = FALSE]
    /\ UNCHANGED <<engine, vga>>

orgfxplus_bind_rendertarget(i) ==
    /\ Ready /\ orgfx_wait
    /\ hw' = orgfx_bind_rendertarget(hw, Target(i, hw))
    /\ soft' = sw_bind_rendertarget(soft, sw_Target(i))
    /\ host' = [Counted EXCEPT !.apart = FALSE]
    /\ UNCHANGED <<engine, vga>>
orgfxplus_bind_tex0(i) == Call(orgfx_bind_tex0(hw, i), sw_bind_tex0(soft, i))
orgfxplus_clip(r, on) ==
    Call(orgfx_cliprect(Enable(hw, "clipping", on), r), sw_cliprect(sw_enable(soft, "clipping", on), r))
EnableTex0(on) == Call(orgfx_enable_tex0(hw, on), sw_enable_tex0(soft, on))
SrcRect(r) == Call(orgfx_srcrect(hw, r), sw_srcrect(soft, r))
EnableZbuffer(on) == Call(Enable(hw, "zbuffer", on), sw_enable(soft, "zbuffer", on))
orgfxplus_colorkey(v, on) ==
    Call(orgfx_set(Enable(hw, "colorkey", on), "colorkey", v), sw_set(sw_enable(soft, "colorkey", on), "colorkey", v))
orgfxplus_alpha(v, on) ==
    Call(orgfx_set(Enable(hw, "blend", on), "alpha", v), sw_set(sw_enable(soft, "blend", on), "alpha", v))
SetMatrix(v) == Call(orgfx_set(hw, "matrix", v), sw_set(soft, "matrix", v))
\* The only call that touches no register.
EnableTransform(on) ==
    /\ Ready
    /\ hw' = orgfx_enable_transform(hw, on) /\ soft' = [soft EXCEPT !.transform = on] /\ host' = Counted
    /\ UNCHANGED <<engine, vga>>

Plain(h, v) == orgfx_set(orgfx_enable_tex0(h, FALSE), "color", v)
sw_Plain(s, v) == sw_set(sw_enable_tex0(s, FALSE), "color", v)
\* orgfxplus_fill, _line, _triangle; _curve.
Shape(v) == Draw(Plain(hw, v), sw_Plain(soft, v))
orgfxplus_curve(v, inside) == Draw(orgfx_curve(Plain(hw, v), inside), sw_Plain(soft, v))
Textured(h, i) == orgfx_bind_tex0(orgfx_enable_tex0(h, TRUE), i)
sw_Textured(s, i) == sw_bind_tex0(sw_enable_tex0(s, TRUE), i)
orgfxplus_draw_surface(i) == Draw(Textured(hw, i), sw_Textured(soft, i))
orgfxplus_draw_surface_section(i, r) ==
    Draw(orgfx_srcrect(Textured(hw, i), r), sw_srcrect(sw_Textured(soft, i), r))

\* A text of tiles; a mesh, with the matrix on until its last face.
orgfx_put_bitmap_text(i, tiles) ==
    /\ Ready /\ orgfx_wait
    /\ hw' = orgfx_bind_tex0(orgfx_enable_tex0(hw, TRUE), i)
    /\ soft' = sw_bind_tex0(sw_enable_tex0(soft, TRUE), i)
    /\ host' = [Counted EXCEPT !.todo = [k \in 1 .. Len(tiles) |-> [image |-> i, rect |-> tiles[k], color |-> 0]]]
    /\ UNCHANGED <<engine, vga>>
orgfx3d_draw_mesh(n, textured, v) ==
    /\ Ready /\ orgfx_wait
    /\ hw' = orgfx_set(orgfx_enable_transform(orgfx_enable_tex0(hw, textured), TRUE), "matrix", v)
    /\ soft' = sw_set([sw_enable_tex0(soft, textured) EXCEPT !.transform = TRUE], "matrix", v)
    /\ host' = [Counted EXCEPT !.todo = [k \in 1 .. n |-> [image |-> 0, rect |-> <<0, 0, 0, 0>>, color |-> v]]]
    /\ UNCHANGED <<engine, vga>>
NextPiece ==
    /\ host.todo # <<>> /\ orgfx_wait
    /\ LET p == Head(host.todo)
           h == IF p.image = 0 THEN orgfx_set(hw, "color", p.color) ELSE orgfx_srcrect(Textured(hw, p.image), p.rect)
           s == IF p.image = 0 THEN sw_set(soft, "color", p.color) ELSE sw_srcrect(sw_Textured(soft, p.image), p.rect)
           last == p.image = 0 /\ Len(host.todo) = 1
       IN /\ hw' = IF last THEN orgfx_enable_transform(Primitive(h), FALSE) ELSE Primitive(h)
          /\ soft' = IF last THEN [s EXCEPT !.transform = FALSE] ELSE s
          /\ Start(h)
    /\ host' = [host EXCEPT !.todo = Tail(@)]
    /\ UNCHANGED vga

\* The pages change places when the VGA says so; the page now hidden is bound, and what the
\* program had bound before is not.
orgfxplus_flip ==
    /\ Ready /\ hw.double /\ orgfx_wait
    /\ vga' = [vga EXCEPT !.switch = TRUE]
    /\ host' = [Counted EXCEPT !.at = "flip"]
    /\ UNCHANGED <<hw, soft, engine>>
\* Fault: the bank switch is not waited for.
Switched_Assumed == TRUE
Switched == vga.page = hw.activeScreen
FlipDone ==
    /\ host.at = "flip" /\ Switched
    /\ LET h == [hw EXCEPT !.activeScreen = 1 - @] IN hw' = orgfx_bind_rendertarget(h, Page(h))
    /\ host' = [host EXCEPT !.at = "ready",
                            !.apart = @ \/ soft.target # soft.addr[screen0] \/ soft.clip # sw_full(soft.target)]
    /\ UNCHANGED <<soft, engine, vga>>

-----------------------------------------------------------------------------
(* Engine and VGA core.                                                    *)

EngineDone == engine.busy /\ engine' = [engine EXCEPT !.busy = FALSE] /\ UNCHANGED <<hw, soft, vga, host>>
FrameEnds ==
    /\ vga.switch /\ vga' = [vga EXCEPT !.page = 1 - @, !.switch = FALSE]
    /\ UNCHANGED <<hw, soft, engine, host>>

\* After orgfx_init and the video mode: both page addresses at the start of memory, the target's
\* size that of the screen.
GfxInit ==
    /\ hw = [base |-> 0, surf |-> [s \in Names |-> NoSurface], double |-> FALSE, activeScreen |-> 1,
             target |-> None, tex0 |-> None, zbuf |-> None, ctrl |-> {}, transform |-> FALSE,
             reg |-> [target |-> [addr |-> 0, w |-> Screen.w, h |-> Screen.h], tex0 |-> NoSurface, zbuf |-> 0,
                      clip |-> <<0, 0, 0, 0>>, src |-> <<0, 0, 0, 0>>, ctrl |-> {}, moved |-> FALSE,
                      color |-> 0, colorkey |-> 0, alpha |-> 0, matrix |-> 0]]
    /\ soft = [sizes |-> <<>>, addr |-> [s \in Names |-> 0], target |-> 0, tex0 |-> 0, zbuf |-> 0, on |-> {},
             transform |-> FALSE, clip |-> <<0, 0, 0, 0>>, src |-> <<0, 0, 0, 0>>,
             val |-> [color |-> 0, colorkey |-> 0, alpha |-> 0, matrix |-> 0]]
    /\ engine = [busy |-> FALSE, from |-> 0, upto |-> 0]
    /\ vga = [vbara |-> 0, vbarb |-> 0, page |-> 0, switch |-> FALSE]
    /\ host = [at |-> "start", todo |-> <<>>, calls |-> 0, images |-> 0, apart |-> FALSE]

Held == 1 .. host.images
Begin == \E double, z \in BOOLEAN : orgfxplus_init(double, z)
\* No program loads an image for which the table of all surfaces has no room left: neither build
\* looks, and what the software implementation then does, writing behind its table, is undefined.
RoomInTable == Len(soft.sizes) < NUM_SURFACES
Load == RoomInTable /\ \E s \in Sizes : orgfxplus_init_surface(s)
Bind == (\E i \in Held \cup {-1} : orgfxplus_bind_rendertarget(i)) \/ (\E i \in Held : orgfxplus_bind_tex0(i))
Setting == \/ \E r \in Rects, on \in BOOLEAN : orgfxplus_clip(r, on)
           \/ \E on \in BOOLEAN : EnableTex0(on) \/ EnableZbuffer(on) \/ EnableTransform(on)
           \/ \E r \in Rects : SrcRect(r)
           \/ \E v \in Values, on \in BOOLEAN : orgfxplus_colorkey(v, on) \/ orgfxplus_alpha(v, on)
           \/ \E v \in Values : SetMatrix(v)
Drawing == \/ \E v \in Values : Shape(v) \/ \E inside \in BOOLEAN : orgfxplus_curve(v, inside)
           \/ \E i \in Held : orgfxplus_draw_surface(i) \/ \E r \in Rects : orgfxplus_draw_surface_section(i, r)
Sequence == \/ \E i \in Held, r \in Rects, q \in Rects : orgfx_put_bitmap_text(i, <<r, q>>)
            \/ \E n \in 1 .. Pieces, textured \in BOOLEAN, v \in Values : orgfx3d_draw_mesh(n, textured, v)
GfxNext == Begin \/ Load \/ Bind \/ Setting \/ Drawing \/ Sequence \/ NextPiece \/ orgfxplus_flip \/ FlipDone
        \/ EngineDone \/ FrameEnds
GfxSpec == GfxInit /\ [][GfxNext]_gfxvars

-----------------------------------------------------------------------------
(* Properties.                                                             *)

\* Double buffering: nothing the engine draws appears in the page shown, nor does it draw there,
\* whatever the program has bound, loaded and drawn.
Shown == IF vga.page = 0 THEN vga.vbara ELSE vga.vbarb
NoTearing ==
    hw.double /\ engine.busy => engine.upto <= Shown \/ Shown + Size(Screen.w, Screen.h) <= engine.from

\* The settings of both builds agree: the surface drawn on and its clipping; the texture and the part
\* of it; enables and values.
Shared(s) == IF s = screen1 THEN screen0 ELSE s
TargetsAgree(h, s) ==
    /\ h.reg.target = h.surf[h.target] /\ s.addr[Shared(h.target)] = s.target
    /\ sw_rect(h.reg.clip) = s.clip
TexturesAgree(h, s) ==
    /\ h.tex0 = None <=> s.tex0 = 0
    /\ h.tex0 # None => /\ h.reg.tex0 = h.surf[h.tex0] /\ s.addr[h.tex0] = s.tex0
                        /\ "texture" \in h.ctrl => sw_rect(h.reg.src) = s.src
EnablesAgree(h, s) ==
    /\ h.ctrl \cap Enables = s.on /\ h.ctrl = h.reg.ctrl /\ h.transform = s.transform
    /\ h.reg.color = s.val.color /\ h.reg.colorkey = s.val.colorkey
    /\ h.reg.alpha = s.val.alpha /\ h.reg.matrix = s.val.matrix

\* A program tested with the software implementation finds the accelerator set up the same way:
\* target, rectangles, texture, enables and values, but for what a flip binds.
SettingsAgree ==
    host.at # "start" => /\ ~host.apart => TargetsAgree(hw, soft)
                         /\ TexturesAgree(hw, soft) /\ EnablesAgree(hw, soft)
DriverRight == NoTearing /\ SettingsAgree

-----------------------------------------------------------------------------
(* The inductive invariant.                                                *)

Surface == [addr : Nat, w : Nat, h : Nat]
Rectangle == Int \X Int \X Int \X Int
Controls == Enables \cup {"inside"}
Numbers == Values \cup {0}
Registers == [target : Surface, tex0 : Surface, zbuf : Nat, clip : Rectangle, src : Rectangle,
              ctrl : SUBSET Controls, moved : BOOLEAN,
              color : Numbers, colorkey : Numbers, alpha : Numbers, matrix : Numbers]
Driver == [base : Nat, surf : [Names -> Surface], double : BOOLEAN, activeScreen : {0, 1},
           target : Names \cup {None}, tex0 : Names \cup {None}, zbuf : Names \cup {None},
           ctrl : SUBSET Controls, transform : BOOLEAN, reg : Registers]
Software == [sizes : Seq([w : Nat, h : Nat]), addr : [Names -> Nat], target : Nat, tex0 : Nat, zbuf : Nat,
             on : SUBSET Enables, transform : BOOLEAN, clip : Rectangle, src : Rectangle,
             val : [color : Numbers, colorkey : Numbers, alpha : Numbers, matrix : Numbers]]
Piece(n) == [image : 0 .. n, rect : Rectangle, color : Numbers]
GfxTypeOK ==
    /\ hw \in Driver /\ soft \in Software
    /\ engine \in [busy : BOOLEAN, from : Int, upto : Int]
    /\ vga \in [vbara : {0}, vbarb : Nat, page : {0, 1}, switch : BOOLEAN]
    /\ host \in [at : {"start", "ready", "flip"}, todo : Seq(Piece(host.images)), calls : Nat,
                 images : 0 .. NUM_SURFACES, apart : BOOLEAN]

\* Before orgfxplus_init, nothing is drawn or shown.
AtStart == host.at = "start" => GfxInit

\* What has been allocated, n images, has the same size in both builds' tables.
Tables(h, s, n) ==
    /\ h.target \in Names /\ s.target \in DOMAIN s.sizes /\ h.tex0 \in 1 .. n \cup {None}
    /\ h.surf[screen0] = [addr |-> 0, w |-> Screen.w, h |-> Screen.h]
    /\ \A i \in 0 .. n : /\ s.addr[i] \in DOMAIN s.sizes
                         /\ s.sizes[s.addr[i]] = [w |-> h.surf[i].w, h |-> h.surf[i].h]

\* With two screens: the first lies at the start of memory, the second far behind, the images between;
\* the target is an image or the screen that is not shown.
Share == CHOOSE m \in 0 .. Far : Enough(m)
Layout(h, n) ==
    /\ h.surf[screen1] = [addr |-> ScreenSize + Far, w |-> Screen.w, h |-> Screen.h]
    /\ ScreenSize <= h.base /\ h.base <= 3 * ScreenSize + n * Share
    /\ \A i \in 1 .. n : /\ ScreenSize <= h.surf[i].addr
                         /\ h.surf[i].addr + Size(h.surf[i].w, h.surf[i].h) <= h.base
Hidden(h, n) == h.reg.target = h.surf[h.target] /\ h.target \in {Page(h)} \cup 1 .. n
\* The page changes while a flip waits for it, and the engine rests then.
Paging ==
    /\ host.at = "ready" => ~vga.switch /\ vga.page = 1 - hw.activeScreen
    /\ host.at = "flip" => /\ ~engine.busy /\ host.todo = <<>>
                           /\ vga.page = IF vga.switch THEN 1 - hw.activeScreen ELSE hw.activeScreen
GfxInv ==
    /\ GfxTypeOK /\ AtStart /\ DriverRight
    /\ host.at # "start" =>
          /\ Tables(hw, soft, host.images) /\ Paging
          /\ hw.double => /\ Layout(hw, host.images) /\ Hidden(hw, host.images)
                          /\ vga.vbarb = ScreenSize + Far
=============================================================================
