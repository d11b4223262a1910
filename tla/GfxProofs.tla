------------------------------ MODULE GfxProofs ------------------------------
(***************************************************************************)
(* The two builds of the graphics library stay set up alike, whatever a    *)
(* program binds, sets and draws, and nothing is drawn into the page       *)
(* shown: for any number and size of surfaces for which there is room.     *)
(***************************************************************************)
EXTENDS GfxDriver, TLAPS

-----------------------------------------------------------------------------
(* Settings of both builds, and what they leave alone.                      *)

TexturesBound(h, s) ==
    /\ h.tex0 = None <=> s.tex0 = 0
    /\ h.tex0 # None => h.reg.tex0 = h.surf[h.tex0] /\ s.addr[h.tex0] = s.tex0
Bound(h, s, n) == /\ h \in Driver /\ s \in Software /\ n \in 0 .. NUM_SURFACES
                  /\ Tables(h, s, n) /\ TexturesBound(h, s) /\ EnablesAgree(h, s)
Alike(h, s, n) == Bound(h, s, n) /\ TexturesAgree(h, s)
SameDriver(g, h) ==
    /\ g.base = h.base /\ g.surf = h.surf /\ g.double = h.double /\ g.activeScreen = h.activeScreen
    /\ g.target = h.target /\ g.reg.target = h.reg.target
SameSoftware(t, s) == t.sizes = s.sizes /\ t.addr = s.addr /\ t.target = s.target
SamePlace(g, t, h, s) == SameDriver(g, h) /\ SameSoftware(t, s)
Keeps(g, t, h, s) == SamePlace(g, t, h, s) /\ g.reg.clip = h.reg.clip /\ t.clip = s.clip

LEMMA GfxNumbers ==
    /\ NUM_SURFACES \in Nat /\ Far \in Nat /\ Screen.w \in Nat /\ Screen.h \in Nat
    /\ None \notin Names /\ screen0 \in Names /\ screen1 \in Names /\ depthBuffer \in Names
    /\ \A i \in 0 .. NUM_SURFACES : i \in Names /\ i # screen1 /\ i # depthBuffer /\ i # None
    /\ screen0 # screen1 /\ screen1 # depthBuffer /\ screen0 # depthBuffer
<1>1. NUM_SURFACES \in Nat /\ Far \in Nat /\ Screen.w \in Nat /\ Screen.h \in Nat
  BY GfxAssumption
<1> QED BY <1>1 DEF None, Names, screen0, screen1, depthBuffer

LEMMA SizeType ==
    ASSUME NEW w \in Nat, NEW h \in Nat
    PROVE  Size(w, h) \in Nat
<1>1. w * h \in Nat
  OBVIOUS
<1> QED BY <1>1 DEF Size

LEMMA Rectangles ==
    ASSUME NEW r \in Rectangle
    PROVE  sw_rect(r) \in Rectangle
BY DEF Rectangle, sw_rect

LEMMA ElementOfSeq ==
    ASSUME NEW S, NEW q \in Seq(S), NEW i \in DOMAIN q
    PROVE  q[i] \in S
OBVIOUS

LEMMA Appended ==
    ASSUME NEW S, NEW q \in Seq(S), NEW e \in S
    PROVE  LET k == Len(q) + 1 IN
           /\ Append(q, e) \in Seq(S) /\ DOMAIN Append(q, e) = 1 .. k
           /\ Append(q, e)[k] = e /\ DOMAIN q = 1 .. k - 1
           /\ \A x \in DOMAIN q : x \in DOMAIN Append(q, e) /\ Append(q, e)[x] = q[x]
<1>1. Len(q) \in Nat /\ DOMAIN q = 1 .. Len(q)
  OBVIOUS
<1>2. Append(q, e) \in Seq(S) /\ Len(Append(q, e)) = Len(q) + 1
  OBVIOUS
<1>3. DOMAIN Append(q, e) = 1 .. Len(q) + 1
  BY <1>1, <1>2
<1>4. Append(q, e)[Len(q) + 1] = e
  BY <1>1
<1>5. \A x \in DOMAIN q : Append(q, e)[x] = q[x]
  BY <1>1
<1>6. Len(q) + 1 - 1 = Len(q) /\ \A x \in DOMAIN q : x \in DOMAIN Append(q, e)
  BY <1>1, <1>3
<1> QED BY <1>1, <1>2, <1>3, <1>4, <1>5, <1>6

LEMMA SrcRects ==
    ASSUME NEW h, NEW s, NEW n, Bound(h, s, n), NEW r \in Rectangle
    PROVE  /\ Alike(orgfx_srcrect(h, r), sw_srcrect(s, r), n)
           /\ Keeps(orgfx_srcrect(h, r), sw_srcrect(s, r), h, s)
<1> DEFINE g == orgfx_srcrect(h, r)
           t == sw_srcrect(s, r)
<1>1. h \in Driver /\ s \in Software /\ sw_rect(r) \in Rectangle
  BY Rectangles DEF Bound
<1>2. g \in Driver /\ SameDriver(g, h) /\ g.reg.clip = h.reg.clip /\ g.reg.src = r
      /\ g.tex0 = h.tex0 /\ g.reg.tex0 = h.reg.tex0 /\ g.ctrl = h.ctrl /\ g.reg.ctrl = h.reg.ctrl
      /\ g.transform = h.transform /\ g.reg.color = h.reg.color /\ g.reg.colorkey = h.reg.colorkey
      /\ g.reg.alpha = h.reg.alpha /\ g.reg.matrix = h.reg.matrix
  BY <1>1 DEF orgfx_srcrect, Driver, Registers, SameDriver
<1>3. t \in Software /\ SameSoftware(t, s) /\ t.clip = s.clip /\ t.src = sw_rect(r)
      /\ t.tex0 = s.tex0 /\ t.on = s.on /\ t.transform = s.transform /\ t.val = s.val
  BY <1>1 DEF sw_srcrect, Software, SameSoftware
<1> HIDE DEF g, t
<1>4. Tables(g, t, n) /\ EnablesAgree(g, t) /\ TexturesBound(g, t) /\ TexturesAgree(g, t)
  BY <1>2, <1>3 DEF Bound, Tables, EnablesAgree, TexturesBound, TexturesAgree, SameDriver, SameSoftware
<1> QED BY <1>2, <1>3, <1>4 DEF Alike, Bound, Keeps, SamePlace, g, t

LEMMA ClipRects ==
    ASSUME NEW h, NEW s, NEW n, Bound(h, s, n), NEW r \in Rectangle
    PROVE  /\ Bound(orgfx_cliprect(h, r), sw_cliprect(s, r), n)
           /\ TexturesAgree(h, s) => TexturesAgree(orgfx_cliprect(h, r), sw_cliprect(s, r))
           /\ SamePlace(orgfx_cliprect(h, r), sw_cliprect(s, r), h, s)
           /\ orgfx_cliprect(h, r).reg.clip = r /\ sw_cliprect(s, r).clip = sw_rect(r)
<1> DEFINE g == orgfx_cliprect(h, r)
           t == sw_cliprect(s, r)
<1>1. h \in Driver /\ s \in Software /\ sw_rect(r) \in Rectangle
  BY Rectangles DEF Bound
<1>2. g \in Driver /\ SameDriver(g, h) /\ g.reg.clip = r /\ g.reg.src = h.reg.src
      /\ g.tex0 = h.tex0 /\ g.reg.tex0 = h.reg.tex0 /\ g.ctrl = h.ctrl /\ g.reg.ctrl = h.reg.ctrl
      /\ g.transform = h.transform /\ g.reg.color = h.reg.color /\ g.reg.colorkey = h.reg.colorkey
      /\ g.reg.alpha = h.reg.alpha /\ g.reg.matrix = h.reg.matrix
  BY <1>1 DEF orgfx_cliprect, Driver, Registers, SameDriver
<1>3. t \in Software /\ SameSoftware(t, s) /\ t.clip = sw_rect(r) /\ t.src = s.src
      /\ t.tex0 = s.tex0 /\ t.on = s.on /\ t.transform = s.transform /\ t.val = s.val
  BY <1>1 DEF sw_cliprect, Software, SameSoftware
<1> HIDE DEF g, t
<1>4. Tables(g, t, n) /\ EnablesAgree(g, t) /\ TexturesBound(g, t)
      /\ (TexturesAgree(h, s) => TexturesAgree(g, t))
  BY <1>2, <1>3 DEF Bound, Tables, EnablesAgree, TexturesBound, TexturesAgree, SameDriver, SameSoftware
<1> QED BY <1>2, <1>3, <1>4 DEF Bound, SamePlace, g, t

\* The source becomes the whole texture, or the whole target when there is none.
LEMMA InitSources ==
    ASSUME NEW h, NEW s, NEW n, Bound(h, s, n)
    PROVE  Alike(orgfx_init_src(h), sw_init_src(s), n) /\ Keeps(orgfx_init_src(h), sw_init_src(s), h, s)
<1>1. h \in Driver /\ s \in Software /\ Tables(h, s, n) /\ TexturesBound(h, s) /\ EnablesAgree(h, s)
      /\ n \in Nat /\ n <= NUM_SURFACES
  BY GfxNumbers DEF Bound
<1>2. h.target # None /\ h.target \in Names /\ s.target # 0 /\ s.target \in DOMAIN s.sizes
      /\ s.sizes \in Seq([w : Nat, h : Nat])
  <2>1. h.target \in Names /\ s.target \in DOMAIN s.sizes
    BY <1>1 DEF Tables
  <2>2. s.sizes \in Seq([w : Nat, h : Nat])
    BY <1>1 DEF Software
  <2>3. s.target # 0
    BY <2>1, <2>2
  <2> QED BY <2>1, <2>2, <2>3, GfxNumbers
<1> DEFINE Whole(i) == sw_rect(<<0, 0, s.sizes[i].w, s.sizes[i].h>>)
<1>3. ASSUME NEW a \in Surface, NEW b \in DOMAIN s.sizes
      PROVE  Full(a) \in Rectangle /\ <<0, 0, s.sizes[b].w, s.sizes[b].h>> \in Rectangle
  <2>1. s.sizes[b] \in [w : Nat, h : Nat]
    BY <1>2, ElementOfSeq
  <2> QED BY <2>1 DEF Full, Rectangle, Surface
<1>4. CASE "texture" \in h.ctrl /\ h.tex0 # None
  <2>1. h.tex0 \in 1 .. n /\ s.tex0 # 0 /\ s.addr[h.tex0] = s.tex0 /\ "texture" \in s.on
    BY <1>1, <1>4 DEF Tables, TexturesBound, EnablesAgree, Enables
  <2>2. h.tex0 \in 0 .. n /\ h.tex0 \in Names
    BY <1>1, <2>1, GfxNumbers
  <2>3. s.tex0 \in DOMAIN s.sizes /\ s.sizes[s.tex0].w = h.surf[h.tex0].w
        /\ s.sizes[s.tex0].h = h.surf[h.tex0].h
    <3>1. \A i \in 0 .. n : s.addr[i] \in DOMAIN s.sizes
                            /\ s.sizes[s.addr[i]] = [w |-> h.surf[i].w, h |-> h.surf[i].h]
      BY <1>1 DEF Tables
    <3>2. s.tex0 \in DOMAIN s.sizes /\ s.sizes[s.tex0] = [w |-> h.surf[h.tex0].w, h |-> h.surf[h.tex0].h]
      BY <2>1, <2>2, <3>1
    <3> QED BY <3>2
  <2> DEFINE r == Full(h.surf[h.tex0])
  <2>4. r \in Rectangle /\ r = <<0, 0, s.sizes[s.tex0].w, s.sizes[s.tex0].h>>
    BY <1>1, <1>3, <2>2, <2>3 DEF Driver, Full
  <2>5. orgfx_init_src(h) = orgfx_srcrect(h, r)
    BY <1>4 DEF orgfx_init_src
  <2>6. sw_init_src(s) = sw_srcrect(s, r)
    BY <2>1, <2>4 DEF sw_init_src, sw_srcrect
  <2> QED BY <2>4, <2>5, <2>6, SrcRects
<1>5. CASE ~("texture" \in h.ctrl /\ h.tex0 # None)
  <2> DEFINE a == Full(h.surf[h.target])
             b == <<0, 0, s.sizes[s.target].w, s.sizes[s.target].h>>
  <2>1. a \in Rectangle /\ b \in Rectangle
    BY <1>1, <1>2, <1>3 DEF Driver
  <2>2. ~("texture" \in s.on /\ s.tex0 # 0)
    BY <1>1, <1>5 DEF TexturesBound, EnablesAgree
  <2> DEFINE g == orgfx_srcrect(h, a)
             t == sw_srcrect(s, b)
  <2>3. orgfx_init_src(h) = g
    BY <1>2, <1>5 DEF orgfx_init_src
  <2>4. sw_init_src(s) = [s EXCEPT !.src = sw_rect(b)]
    BY <1>2, <2>2 DEF sw_init_src
  <2>5. sw_init_src(s) = t
    BY <2>4 DEF sw_srcrect
  <2>6. Bound(g, sw_srcrect(s, a), n) /\ Keeps(g, sw_srcrect(s, a), h, s)
        /\ Bound(orgfx_srcrect(h, b), t, n) /\ Keeps(orgfx_srcrect(h, b), t, h, s)
    BY <2>1, SrcRects DEF Alike
  <2>7. g.tex0 = h.tex0 /\ g.reg.tex0 = h.reg.tex0 /\ g.ctrl = h.ctrl /\ g.reg.ctrl = h.reg.ctrl
        /\ g.transform = h.transform /\ g.reg.color = h.reg.color /\ g.reg.colorkey = h.reg.colorkey
        /\ g.reg.alpha = h.reg.alpha /\ g.reg.matrix = h.reg.matrix /\ g \in Driver
    BY <1>1, <2>6 DEF orgfx_srcrect, Driver, Registers, Bound
  <2>8. t.tex0 = s.tex0 /\ t.on = s.on /\ t.transform = s.transform /\ t.val = s.val /\ t \in Software
    BY <1>1, <2>6 DEF sw_srcrect, Software, Bound
  <2>9. SameDriver(g, h) /\ g.reg.clip = h.reg.clip /\ SameSoftware(t, s) /\ t.clip = s.clip
    BY <2>6 DEF Keeps, SamePlace
  <2> HIDE DEF g, t
  <2>10. Tables(g, t, n) /\ EnablesAgree(g, t) /\ TexturesBound(g, t) /\ TexturesAgree(g, t)
    BY <1>1, <1>5, <2>7, <2>8, <2>9
       DEF Tables, EnablesAgree, TexturesBound, TexturesAgree, SameDriver, SameSoftware
  <2> QED BY <1>1, <2>3, <2>5, <2>7, <2>8, <2>9, <2>10 DEF Alike, Bound, Keeps, SamePlace
<1> QED BY <1>4, <1>5

\* An enable bit, the texture's too as long as the source is set after it.
LEMMA EnableBits ==
    ASSUME NEW h, NEW s, NEW n, Bound(h, s, n), NEW bit \in Enables, NEW on \in BOOLEAN
    PROVE  /\ Bound(Enable(h, bit, on), sw_enable(s, bit, on), n)
           /\ Keeps(Enable(h, bit, on), sw_enable(s, bit, on), h, s)
           /\ TexturesAgree(h, s) /\ bit # "texture"
                 => TexturesAgree(Enable(h, bit, on), sw_enable(s, bit, on))
<1> DEFINE g == Enable(h, bit, on)
           t == sw_enable(s, bit, on)
           c == IF on THEN h.ctrl \cup {bit} ELSE h.ctrl \ {bit}
           d == IF on THEN s.on \cup {bit} ELSE s.on \ {bit}
<1>1. h \in Driver /\ s \in Software /\ EnablesAgree(h, s)
  BY DEF Bound
<1>2. h.ctrl \in SUBSET Controls /\ s.on \in SUBSET Enables
  BY <1>1 DEF Driver, Software
<1>3. c \in SUBSET Controls /\ d \in SUBSET Enables /\ bit \in Enables
  BY <1>2 DEF Controls
<1>4. c \cap Enables = d /\ (bit # "texture" => ("texture" \in c <=> "texture" \in h.ctrl))
  BY <1>1, <1>3 DEF EnablesAgree
<1> HIDE DEF c, d
<1>5. g = [h EXCEPT !.ctrl = c, !.reg.ctrl = c] /\ t = [s EXCEPT !.on = d]
  BY DEF Enable, sw_enable, c, d
<1> HIDE DEF g, t
<1>6. g \in Driver /\ SameDriver(g, h) /\ g.reg.clip = h.reg.clip /\ g.reg.src = h.reg.src
      /\ g.tex0 = h.tex0 /\ g.reg.tex0 = h.reg.tex0 /\ g.ctrl = c /\ g.reg.ctrl = c
      /\ g.transform = h.transform /\ g.reg.color = h.reg.color /\ g.reg.colorkey = h.reg.colorkey
      /\ g.reg.alpha = h.reg.alpha /\ g.reg.matrix = h.reg.matrix
  BY <1>1, <1>3, <1>5 DEF Driver, Registers, SameDriver
<1>7. t \in Software /\ SameSoftware(t, s) /\ t.clip = s.clip /\ t.src = s.src
      /\ t.tex0 = s.tex0 /\ t.on = d /\ t.transform = s.transform /\ t.val = s.val
  BY <1>1, <1>3, <1>5 DEF Software, SameSoftware
<1>8. Tables(g, t, n) /\ EnablesAgree(g, t) /\ TexturesBound(g, t)
  BY <1>4, <1>6, <1>7 DEF Bound, Tables, EnablesAgree, TexturesBound, SameDriver, SameSoftware
<1>9. TexturesAgree(h, s) /\ bit # "texture" => TexturesAgree(g, t)
  BY <1>4, <1>6, <1>7 DEF TexturesAgree, SameDriver, SameSoftware
<1> QED BY <1>6, <1>7, <1>8, <1>9 DEF Bound, Keeps, SamePlace, g, t

LEMMA KeepsTwice ==
    ASSUME NEW h, NEW s, NEW g, NEW t, NEW f, NEW r, Keeps(g, t, h, s), Keeps(f, r, g, t)
    PROVE  Keeps(f, r, h, s)
BY DEF Keeps, SamePlace, SameDriver, SameSoftware

LEMMA EnableTextures ==
    ASSUME NEW h, NEW s, NEW n, Bound(h, s, n), NEW on \in BOOLEAN
    PROVE  Alike(orgfx_enable_tex0(h, on), sw_enable_tex0(s, on), n)
           /\ Keeps(orgfx_enable_tex0(h, on), sw_enable_tex0(s, on), h, s)
<1> DEFINE g == Enable(h, "texture", on)
           t == sw_enable(s, "texture", on)
<1>1. Bound(g, t, n) /\ Keeps(g, t, h, s)
  BY EnableBits DEF Enables
<1>2. orgfx_enable_tex0(h, on) = orgfx_init_src(g) /\ sw_enable_tex0(s, on) = sw_init_src(t)
  BY DEF orgfx_enable_tex0, sw_enable_tex0
<1> HIDE DEF g, t
<1> QED BY <1>1, <1>2, InitSources, KeepsTwice

LEMMA BindTextures ==
    ASSUME NEW h, NEW s, NEW n, Bound(h, s, n), NEW i \in 1 .. n
    PROVE  Alike(orgfx_bind_tex0(h, i), sw_bind_tex0(s, i), n)
           /\ Keeps(orgfx_bind_tex0(h, i), sw_bind_tex0(s, i), h, s)
<1> DEFINE g == [h EXCEPT !.tex0 = i, !.reg.tex0 = h.surf[i]]
           t == [s EXCEPT !.tex0 = s.addr[i]]
<1>1. h \in Driver /\ s \in Software /\ Tables(h, s, n) /\ n \in Nat /\ n <= NUM_SURFACES
  BY GfxNumbers DEF Bound
<1>2. i \in Names /\ i \in 0 .. n /\ i # None
  BY <1>1, GfxNumbers
<1>3. h.surf[i] \in Surface /\ s.sizes \in Seq([w : Nat, h : Nat])
  BY <1>1, <1>2 DEF Driver, Software
<1>4. s.addr[i] \in DOMAIN s.sizes
  BY <1>1, <1>2 DEF Tables
<1>5. s.addr[i] \in Nat \ {0}
  BY <1>3, <1>4
<1>6. g \in Driver /\ SameDriver(g, h) /\ g.reg.clip = h.reg.clip /\ g.reg.src = h.reg.src
      /\ g.tex0 = i /\ g.reg.tex0 = h.surf[i] /\ g.ctrl = h.ctrl /\ g.reg.ctrl = h.reg.ctrl
      /\ g.transform = h.transform /\ g.reg.color = h.reg.color /\ g.reg.colorkey = h.reg.colorkey
      /\ g.reg.alpha = h.reg.alpha /\ g.reg.matrix = h.reg.matrix
  BY <1>1, <1>2, <1>3 DEF Driver, Registers, SameDriver
<1>7. t \in Software /\ SameSoftware(t, s) /\ t.clip = s.clip /\ t.src = s.src
      /\ t.tex0 = s.addr[i] /\ t.on = s.on /\ t.transform = s.transform /\ t.val = s.val
  BY <1>1, <1>5 DEF Software, SameSoftware
<1>8. orgfx_bind_tex0(h, i) = orgfx_init_src(g) /\ sw_bind_tex0(s, i) = sw_init_src(t)
  BY DEF orgfx_bind_tex0, sw_bind_tex0
<1> HIDE DEF g, t
<1>9. Tables(g, t, n) /\ EnablesAgree(g, t) /\ TexturesBound(g, t)
  <2>1. Tables(g, t, n)
    BY <1>1, <1>6, <1>7 DEF Tables, SameDriver, SameSoftware
  <2>2. EnablesAgree(g, t)
    BY <1>6, <1>7 DEF Bound, EnablesAgree
  <2>3. TexturesBound(g, t)
    BY <1>2, <1>5, <1>6, <1>7 DEF TexturesBound, SameDriver, SameSoftware
  <2> QED BY <2>1, <2>2, <2>3
<1>10. Bound(g, t, n) /\ Keeps(g, t, h, s)
  BY <1>6, <1>7, <1>9 DEF Bound, Keeps, SamePlace
<1> QED BY <1>8, <1>10, InitSources, KeepsTwice

\* What holds of a driver that differs in a value and in nothing placed.
LEMMA SameElse ==
    ASSUME NEW h, NEW s, NEW n, Alike(h, s, n), NEW g \in Driver, NEW t \in Software,
           SameDriver(g, h), SameSoftware(t, s), EnablesAgree(g, t),
           g.reg.clip = h.reg.clip, g.reg.src = h.reg.src, g.tex0 = h.tex0, g.reg.tex0 = h.reg.tex0,
           "texture" \in g.ctrl <=> "texture" \in h.ctrl,
           t.clip = s.clip, t.src = s.src, t.tex0 = s.tex0
    PROVE  Alike(g, t, n) /\ Keeps(g, t, h, s)
<1>1. Tables(g, t, n) /\ TexturesBound(g, t) /\ TexturesAgree(g, t)
  BY DEF Alike, Bound, Tables, TexturesBound, TexturesAgree, SameDriver, SameSoftware
<1> QED BY <1>1 DEF Alike, Bound, Keeps, SamePlace

ValueRegisters == {"color", "colorkey", "alpha", "matrix"}
LEMMA SetValues ==
    ASSUME NEW h, NEW s, NEW n, Alike(h, s, n), NEW reg \in ValueRegisters, NEW v \in Numbers
    PROVE  /\ Alike(orgfx_set(h, reg, v), sw_set(s, reg, v), n)
           /\ Keeps(orgfx_set(h, reg, v), sw_set(s, reg, v), h, s)
<1>1. h \in Driver /\ s \in Software /\ EnablesAgree(h, s)
  BY DEF Alike, Bound
<1>2. CASE reg = "color"
  <2> DEFINE g == orgfx_set(h, "color", v)
             t == sw_set(s, "color", v)
  <2>1. g \in Driver /\ SameDriver(g, h) /\ EnablesAgree(g, t) /\ g.reg.clip = h.reg.clip /\ g.reg.src = h.reg.src
        /\ g.tex0 = h.tex0 /\ g.reg.tex0 = h.reg.tex0 /\ g.ctrl = h.ctrl
    BY <1>1 DEF orgfx_set, sw_set, Driver, Registers, Software, SameDriver, EnablesAgree
  <2>2. t \in Software /\ SameSoftware(t, s) /\ t.clip = s.clip /\ t.src = s.src /\ t.tex0 = s.tex0
    BY <1>1 DEF sw_set, Software, SameSoftware
  <2> HIDE DEF g, t
  <2>3. Alike(g, t, n) /\ Keeps(g, t, h, s)
    BY <2>1, <2>2, SameElse
  <2> QED BY <1>2, <2>3 DEF g, t
<1>3. CASE reg = "colorkey"
  <2> DEFINE g == orgfx_set(h, "colorkey", v)
             t == sw_set(s, "colorkey", v)
  <2>1. g \in Driver /\ SameDriver(g, h) /\ EnablesAgree(g, t) /\ g.reg.clip = h.reg.clip /\ g.reg.src = h.reg.src
        /\ g.tex0 = h.tex0 /\ g.reg.tex0 = h.reg.tex0 /\ g.ctrl = h.ctrl
    BY <1>1 DEF orgfx_set, sw_set, Driver, Registers, Software, SameDriver, EnablesAgree
  <2>2. t \in Software /\ SameSoftware(t, s) /\ t.clip = s.clip /\ t.src = s.src /\ t.tex0 = s.tex0
    BY <1>1 DEF sw_set, Software, SameSoftware
  <2> HIDE DEF g, t
  <2>3. Alike(g, t, n) /\ Keeps(g, t, h, s)
    BY <2>1, <2>2, SameElse
  <2> QED BY <1>3, <2>3 DEF g, t
<1>4. CASE reg = "alpha"
  <2> DEFINE g == orgfx_set(h, "alpha", v)
             t == sw_set(s, "alpha", v)
  <2>1. g \in Driver /\ SameDriver(g, h) /\ EnablesAgree(g, t) /\ g.reg.clip = h.reg.clip /\ g.reg.src = h.reg.src
        /\ g.tex0 = h.tex0 /\ g.reg.tex0 = h.reg.tex0 /\ g.ctrl = h.ctrl
    BY <1>1 DEF orgfx_set, sw_set, Driver, Registers, Software, SameDriver, EnablesAgree
  <2>2. t \in Software /\ SameSoftware(t, s) /\ t.clip = s.clip /\ t.src = s.src /\ t.tex0 = s.tex0
    BY <1>1 DEF sw_set, Software, SameSoftware
  <2> HIDE DEF g, t
  <2>3. Alike(g, t, n) /\ Keeps(g, t, h, s)
    BY <2>1, <2>2, SameElse
  <2> QED BY <1>4, <2>3 DEF g, t
<1>5. CASE reg = "matrix"
  <2> DEFINE g == orgfx_set(h, "matrix", v)
             t == sw_set(s, "matrix", v)
  <2>1. g \in Driver /\ SameDriver(g, h) /\ EnablesAgree(g, t) /\ g.reg.clip = h.reg.clip /\ g.reg.src = h.reg.src
        /\ g.tex0 = h.tex0 /\ g.reg.tex0 = h.reg.tex0 /\ g.ctrl = h.ctrl
    BY <1>1 DEF orgfx_set, sw_set, Driver, Registers, Software, SameDriver, EnablesAgree
  <2>2. t \in Software /\ SameSoftware(t, s) /\ t.clip = s.clip /\ t.src = s.src /\ t.tex0 = s.tex0
    BY <1>1 DEF sw_set, Software, SameSoftware
  <2> HIDE DEF g, t
  <2>3. Alike(g, t, n) /\ Keeps(g, t, h, s)
    BY <2>1, <2>2, SameElse
  <2> QED BY <1>5, <2>3 DEF g, t
<1> QED BY <1>2, <1>3, <1>4, <1>5 DEF ValueRegisters

\* The matrix switched on or off is no register.
LEMMA SetTransform ==
    ASSUME NEW h, NEW s, NEW n, Alike(h, s, n), NEW on \in BOOLEAN
    PROVE  /\ Alike(orgfx_enable_transform(h, on), [s EXCEPT !.transform = on], n)
           /\ Keeps(orgfx_enable_transform(h, on), [s EXCEPT !.transform = on], h, s)
<1> DEFINE g == orgfx_enable_transform(h, on)
           t == [s EXCEPT !.transform = on]
<1>1. h \in Driver /\ s \in Software /\ EnablesAgree(h, s)
  BY DEF Alike, Bound
<1>2. g \in Driver /\ SameDriver(g, h) /\ EnablesAgree(g, t) /\ g.reg.clip = h.reg.clip /\ g.reg.src = h.reg.src
      /\ g.tex0 = h.tex0 /\ g.reg.tex0 = h.reg.tex0 /\ g.ctrl = h.ctrl
  BY <1>1 DEF orgfx_enable_transform, Driver, Registers, Software, SameDriver, EnablesAgree
<1>3. t \in Software /\ SameSoftware(t, s) /\ t.clip = s.clip /\ t.src = s.src /\ t.tex0 = s.tex0
  BY <1>1 DEF Software, SameSoftware
<1> HIDE DEF g, t
<1>4. Alike(g, t, n) /\ Keeps(g, t, h, s)
  BY <1>2, <1>3, SameElse
<1> QED BY <1>4 DEF g, t

\* A primitive writes the copy of the control register, and the matrix when it moves its points.
LEMMA Primitives ==
    ASSUME NEW h, NEW s, NEW n, Alike(h, s, n)
    PROVE  Alike(Primitive(h), s, n) /\ Keeps(Primitive(h), s, h, s)
<1> DEFINE g == Primitive(h)
<1>1. h \in Driver /\ s \in Software /\ EnablesAgree(h, s)
  BY DEF Alike, Bound
<1>2. g \in Driver /\ SameDriver(g, h) /\ EnablesAgree(g, s) /\ g.reg.clip = h.reg.clip /\ g.reg.src = h.reg.src
      /\ g.tex0 = h.tex0 /\ g.reg.tex0 = h.reg.tex0 /\ g.ctrl = h.ctrl
  BY <1>1 DEF Primitive, Driver, Registers, SameDriver, EnablesAgree
<1> HIDE DEF g
<1>3. Alike(g, s, n) /\ Keeps(g, s, h, s)
  BY <1>1, <1>2, SameElse DEF SameSoftware
<1> QED BY <1>3 DEF g

LEMMA Curves ==
    ASSUME NEW h, NEW s, NEW n, Alike(h, s, n), NEW inside \in BOOLEAN
    PROVE  Alike(orgfx_curve(h, inside), s, n) /\ Keeps(orgfx_curve(h, inside), s, h, s)
<1> DEFINE c == IF inside THEN h.ctrl \cup {"inside"} ELSE h.ctrl \ {"inside"}
           g == Primitive([h EXCEPT !.ctrl = c])
<1>1. h \in Driver /\ s \in Software /\ EnablesAgree(h, s)
  BY DEF Alike, Bound
<1>2. c \in SUBSET Controls /\ ("texture" \in c <=> "texture" \in h.ctrl) /\ c \cap Enables = h.ctrl \cap Enables
  <2>1. h.ctrl \in SUBSET Controls
    BY <1>1 DEF Driver
  <2> QED BY <2>1 DEF Controls, Enables
<1>3. orgfx_curve(h, inside) = g
  BY DEF orgfx_curve
<1> HIDE DEF c
<1>4. g \in Driver /\ SameDriver(g, h) /\ EnablesAgree(g, s) /\ g.reg.clip = h.reg.clip /\ g.reg.src = h.reg.src
      /\ g.tex0 = h.tex0 /\ g.reg.tex0 = h.reg.tex0 /\ g.ctrl = c
  BY <1>1, <1>2 DEF Primitive, Driver, Registers, SameDriver, EnablesAgree
<1> HIDE DEF g
<1>5. Alike(g, s, n) /\ Keeps(g, s, h, s)
  BY <1>1, <1>2, <1>4, SameElse DEF SameSoftware
<1> QED BY <1>3, <1>5

-----------------------------------------------------------------------------
(* Surfaces: allocated, bound.                                              *)

\* The tables, whatever is bound.
Listed(h, s, n) ==
    /\ h.surf[screen0] = [addr |-> 0, w |-> Screen.w, h |-> Screen.h]
    /\ \A i \in 0 .. n : /\ s.addr[i] \in DOMAIN s.sizes
                         /\ s.sizes[s.addr[i]] = [w |-> h.surf[i].w, h |-> h.surf[i].h]
Free(h, s, n) == /\ h \in Driver /\ s \in Software /\ n \in 0 .. NUM_SURFACES
                 /\ Listed(h, s, n) /\ h.tex0 \in 1 .. n \cup {None}
                 /\ TexturesBound(h, s) /\ TexturesAgree(h, s) /\ EnablesAgree(h, s)
\* A surface of the driver, and the one that stands for it in the software.
Stands(h, s, j) == /\ j \in Names /\ s.addr[Shared(j)] \in DOMAIN s.sizes
                   /\ s.sizes[s.addr[Shared(j)]].w = h.surf[j].w /\ s.sizes[s.addr[Shared(j)]].h = h.surf[j].h
SameTables(g, t, h, s) ==
    /\ g.base = h.base /\ g.surf = h.surf /\ g.double = h.double /\ g.activeScreen = h.activeScreen
    /\ t.sizes = s.sizes /\ t.addr = s.addr

LEMMA FreeIsAlike ==
    ASSUME NEW h, NEW s, NEW n
    PROVE  Alike(h, s, n) <=> Free(h, s, n) /\ h.target \in Names /\ s.target \in DOMAIN s.sizes
BY DEF Alike, Bound, Free, Tables, Listed

LEMMA BindTargets ==
    ASSUME NEW h, NEW s, NEW n, Free(h, s, n), NEW j, Stands(h, s, j)
    PROVE  /\ Alike(orgfx_bind_rendertarget(h, j), sw_bind_rendertarget(s, Shared(j)), n)
           /\ TargetsAgree(orgfx_bind_rendertarget(h, j), sw_bind_rendertarget(s, Shared(j)))
           /\ SameTables(orgfx_bind_rendertarget(h, j), sw_bind_rendertarget(s, Shared(j)), h, s)
           /\ orgfx_bind_rendertarget(h, j).target = j
<1> DEFINE a == s.addr[Shared(j)]
           r == Full(h.surf[j])
           g == orgfx_bind_rendertarget(h, j)
           t == sw_bind_rendertarget(s, Shared(j))
<1>1. h \in Driver /\ s \in Software /\ a \in DOMAIN s.sizes /\ j \in Names
  BY DEF Free, Stands
<1>2. h.surf[j] \in Surface /\ a \in Nat
  <2>1. h.surf \in [Names -> Surface] /\ s.sizes \in Seq([w : Nat, h : Nat])
    BY <1>1 DEF Driver, Software
  <2> QED BY <1>1, <2>1
<1>3. r \in Rectangle /\ r = <<0, 0, s.sizes[a].w, s.sizes[a].h>> /\ sw_rect(r) \in Rectangle
  <2>1. r \in Rectangle
    BY <1>2 DEF Rectangle, Full, Surface
  <2>2. r = <<0, 0, s.sizes[a].w, s.sizes[a].h>>
    BY DEF Full, Stands
  <2> QED BY <2>1, <2>2, Rectangles
<1> HIDE DEF r, a
<1>4. g = [h EXCEPT !.target = j, !.reg.target = h.surf[j], !.reg.clip = r]
  BY <1>1 DEF orgfx_bind_rendertarget, orgfx_cliprect, Driver, Registers, r
<1>5. t = [s EXCEPT !.target = a, !.clip = sw_rect(r)]
  BY <1>1, <1>3 DEF sw_bind_rendertarget, sw_cliprect, Software, a
<1> HIDE DEF g, t
<1>6. g \in Driver /\ g.base = h.base /\ g.surf = h.surf /\ g.double = h.double /\ g.activeScreen = h.activeScreen
      /\ g.target = j /\ g.reg.target = h.surf[j] /\ g.reg.clip = r /\ g.reg.src = h.reg.src
      /\ g.tex0 = h.tex0 /\ g.reg.tex0 = h.reg.tex0 /\ g.ctrl = h.ctrl /\ g.reg.ctrl = h.reg.ctrl
      /\ g.transform = h.transform /\ g.reg.color = h.reg.color /\ g.reg.colorkey = h.reg.colorkey
      /\ g.reg.alpha = h.reg.alpha /\ g.reg.matrix = h.reg.matrix
  BY <1>1, <1>2, <1>3, <1>4 DEF Driver, Registers
<1>7. t \in Software /\ t.sizes = s.sizes /\ t.addr = s.addr /\ t.target = a /\ t.clip = sw_rect(r)
      /\ t.src = s.src /\ t.tex0 = s.tex0 /\ t.on = s.on /\ t.transform = s.transform /\ t.val = s.val
  BY <1>1, <1>2, <1>3, <1>5 DEF Software
<1>8. Free(g, t, n)
  BY <1>6, <1>7 DEF Free, Listed, TexturesBound, TexturesAgree, EnablesAgree
<1>9. g.target \in Names /\ t.target \in DOMAIN t.sizes
  BY <1>1, <1>6, <1>7
<1>10. TargetsAgree(g, t) /\ SameTables(g, t, h, s)
  BY <1>6, <1>7 DEF TargetsAgree, SameTables, a
<1> QED BY <1>6, <1>8, <1>9, <1>10, FreeIsAlike DEF g, t

\* One more image, of any size.
LEMMA NewSurfaces ==
    ASSUME NEW h, NEW s, NEW n, Alike(h, s, n), n + 1 \in 0 .. NUM_SURFACES,
           NEW w \in Nat, NEW ht \in Nat
    PROVE  LET g == orgfx_init_surface(h, n + 1, w, ht)
               t == sw_init_surface(s, n + 1, w, ht)
           IN /\ Free(g, t, n + 1) /\ g.base = h.base + Size(w, ht)
              /\ \A i \in Names : i # n + 1 => g.surf[i] = h.surf[i] /\ t.addr[i] = s.addr[i]
              /\ g.surf[n + 1] = [addr |-> h.base, w |-> w, h |-> ht]
              /\ g.double = h.double /\ g.activeScreen = h.activeScreen /\ g.target = h.target
              /\ g.reg.target = h.reg.target
<1> DEFINE i == n + 1
           g == orgfx_init_surface(h, i, w, ht)
           t == sw_init_surface(s, i, w, ht)
           k == Len(s.sizes) + 1
<1>1. h \in Driver /\ s \in Software /\ n \in Nat /\ n <= NUM_SURFACES /\ h.tex0 \in 1 .. n \cup {None}
      /\ Tables(h, s, n) /\ TexturesBound(h, s) /\ TexturesAgree(h, s) /\ EnablesAgree(h, s)
  BY GfxNumbers DEF Alike, Bound, Tables
<1>2. i \in Names /\ i # screen0 /\ Size(w, ht) \in Nat /\ i \notin 0 .. n /\ i \in 0 .. NUM_SURFACES
  <2>1. i \in Names /\ i \in 0 .. NUM_SURFACES
    BY GfxNumbers
  <2>2. i # 0 /\ i \notin 0 .. n
    BY <1>1
  <2>3. Size(w, ht) \in Nat
    BY SizeType
  <2> QED BY <2>1, <2>2, <2>3 DEF screen0
<1>3. s.sizes \in Seq([w : Nat, h : Nat]) /\ h.base \in Nat /\ h.surf \in [Names -> Surface]
      /\ s.addr \in [Names -> Nat] /\ k \in Nat
  <2>1. s.sizes \in Seq([w : Nat, h : Nat]) /\ h.base \in Nat /\ h.surf \in [Names -> Surface]
        /\ s.addr \in [Names -> Nat]
    BY <1>1 DEF Driver, Software
  <2> QED BY <2>1
<1> DEFINE b == [addr |-> h.base, w |-> w, h |-> ht]
           e == [w |-> w, h |-> ht]
<1>4. b \in Surface /\ e \in [w : Nat, h : Nat] /\ h.base + Size(w, ht) \in Nat
  BY <1>2, <1>3 DEF Surface
<1>5. /\ Append(s.sizes, e) \in Seq([w : Nat, h : Nat]) /\ DOMAIN Append(s.sizes, e) = 1 .. k
      /\ Append(s.sizes, e)[k] = e /\ DOMAIN s.sizes = 1 .. k - 1
      /\ \A x \in DOMAIN s.sizes : x \in DOMAIN Append(s.sizes, e) /\ Append(s.sizes, e)[x] = s.sizes[x]
  <2> HIDE DEF e, k
  <2> DEFINE S == [w : Nat, h : Nat]
  <2>1. s.sizes \in Seq(S) /\ e \in S
    BY <1>3, <1>4
  <2> HIDE DEF S
  <2>2. /\ Append(s.sizes, e) \in Seq(S) /\ DOMAIN Append(s.sizes, e) = 1 .. Len(s.sizes) + 1
        /\ Append(s.sizes, e)[Len(s.sizes) + 1] = e /\ DOMAIN s.sizes = 1 .. Len(s.sizes) + 1 - 1
        /\ \A x \in DOMAIN s.sizes : x \in DOMAIN Append(s.sizes, e) /\ Append(s.sizes, e)[x] = s.sizes[x]
    BY <2>1, Appended
  <2> QED BY <2>2 DEF S, k
<1> HIDE DEF i, k
<1>6. g = [h EXCEPT !.surf = [h.surf EXCEPT ![i] = b], !.base = h.base + Size(w, ht)]
  BY <1>1, <1>2, <1>3 DEF orgfx_init_surface, Driver
<1>7. t = [s EXCEPT !.sizes = Append(s.sizes, e), !.addr = [s.addr EXCEPT ![i] = k]]
  BY <1>1, <1>2, <1>3 DEF sw_init_surface, Software, k
<1> HIDE DEF g, t, b, e
<1>8. g \in Driver /\ g.base = h.base + Size(w, ht) /\ g.surf = [h.surf EXCEPT ![i] = b]
      /\ g.double = h.double /\ g.activeScreen = h.activeScreen /\ g.target = h.target /\ g.reg = h.reg
      /\ g.tex0 = h.tex0 /\ g.ctrl = h.ctrl /\ g.transform = h.transform
  BY <1>1, <1>3, <1>4, <1>6 DEF Driver
<1>9. t \in Software /\ t.sizes = Append(s.sizes, e) /\ t.addr = [s.addr EXCEPT ![i] = k] /\ t.target = s.target
      /\ t.clip = s.clip /\ t.src = s.src /\ t.tex0 = s.tex0 /\ t.on = s.on /\ t.transform = s.transform
      /\ t.val = s.val
  BY <1>1, <1>3, <1>5, <1>7 DEF Software
<1>10. /\ \A x \in Names : x # i => g.surf[x] = h.surf[x] /\ t.addr[x] = s.addr[x]
       /\ g.surf[i] = b /\ t.addr[i] = k
  BY <1>2, <1>3, <1>8, <1>9
<1>11. \A x \in 0 .. n : x \in Names /\ x # i
  BY <1>1, <1>2, GfxNumbers
<1>12. Listed(g, t, i)
  <2>1. ASSUME NEW x \in 0 .. i
        PROVE  t.addr[x] \in DOMAIN t.sizes
               /\ t.sizes[t.addr[x]] = [w |-> g.surf[x].w, h |-> g.surf[x].h]
    <3>1. CASE x = i
      <4>1. t.addr[x] = k /\ t.sizes[k] = e /\ k \in DOMAIN t.sizes /\ g.surf[x] = b
        BY <1>3, <1>5, <1>9, <1>10, <3>1 DEF k
      <4> QED BY <4>1 DEF b, e
    <3>2. CASE x # i
      <4>1. x \in 0 .. n
        BY <1>1, <3>2 DEF i
      <4>2. s.addr[x] \in DOMAIN s.sizes /\ s.sizes[s.addr[x]] = [w |-> h.surf[x].w, h |-> h.surf[x].h]
        BY <1>1, <4>1 DEF Tables
      <4>3. t.addr[x] = s.addr[x] /\ g.surf[x] = h.surf[x]
        BY <1>10, <1>11, <4>1
      <4>4. s.addr[x] \in DOMAIN t.sizes /\ t.sizes[s.addr[x]] = s.sizes[s.addr[x]]
        BY <1>5, <1>9, <4>2
      <4> QED BY <4>2, <4>3, <4>4
    <3> QED BY <3>1, <3>2
  <2>2. g.surf[screen0] = [addr |-> 0, w |-> Screen.w, h |-> Screen.h]
    BY <1>1, <1>2, <1>10, GfxNumbers DEF Tables
  <2> QED BY <2>1, <2>2 DEF Listed
<1>13. TexturesBound(g, t) /\ TexturesAgree(g, t)
  <2>1. CASE h.tex0 = None
    BY <1>1, <1>8, <1>9, <2>1 DEF TexturesBound, TexturesAgree
  <2>2. CASE h.tex0 # None
    <3>1. h.tex0 \in 0 .. n
      BY <1>1, <2>2
    <3>2. g.surf[h.tex0] = h.surf[h.tex0] /\ t.addr[h.tex0] = s.addr[h.tex0]
      BY <1>10, <1>11, <3>1
    <3> QED BY <1>1, <1>8, <1>9, <3>2 DEF TexturesBound, TexturesAgree
  <2> QED BY <2>1, <2>2
<1>14. EnablesAgree(g, t) /\ g.tex0 \in 1 .. i \cup {None}
  BY <1>1, <1>8, <1>9 DEF EnablesAgree, i
<1>15. Free(g, t, i)
  BY <1>2, <1>8, <1>9, <1>12, <1>13, <1>14 DEF Free
<1> QED BY <1>8, <1>10, <1>15 DEF g, t, b, i

-----------------------------------------------------------------------------
(* Where surfaces lie.                                                      *)

LEMMA ScreenSizes == ScreenSize \in Nat /\ Size(Screen.w, Screen.h) = ScreenSize
BY GfxNumbers, SizeType DEF ScreenSize

LEMMA Shares ==
    /\ Share \in Nat /\ 3 * ScreenSize + NUM_SURFACES * Share <= Far
    /\ \A s \in Sizes : s.w \in Nat /\ s.h \in Nat /\ Size(s.w, s.h) <= Share
<1>1. Share \in 0 .. Far /\ Enough(Share)
  <2>1. \E m \in 0 .. Far : Enough(m)
    BY RoomAssumption
  <2> QED BY <2>1 DEF Share
<1>2. \A s \in Sizes : s.w \in Nat /\ s.h \in Nat
  BY GfxAssumption
<1> QED BY <1>1, <1>2, GfxNumbers DEF Enough

\* All that is allocated ends before the second screen.
LEMMA BaseBelow ==
    ASSUME NEW n \in 0 .. NUM_SURFACES, NEW base \in Nat, base <= 3 * ScreenSize + n * Share
    PROVE  base <= Far
<1>1. n \in Nat /\ n <= NUM_SURFACES /\ NUM_SURFACES \in Nat /\ Share \in Nat /\ Far \in Nat /\ ScreenSize \in Nat
  BY GfxNumbers, Shares, ScreenSizes
<1> DEFINE d == NUM_SURFACES - n
<1>2. d \in Nat /\ NUM_SURFACES = n + d
  BY <1>1
<1>3. NUM_SURFACES * Share = n * Share + d * Share
  BY <1>1, <1>2
<1>4. d * Share \in Nat /\ n * Share \in Nat
  BY <1>1, <1>2
<1> HIDE DEF d
<1>5. 3 * ScreenSize + NUM_SURFACES * Share <= Far
  BY Shares
<1> QED BY <1>1, <1>3, <1>4, <1>5

\* The page that is shown, in a driver that draws on the other.
OtherPage(h) == IF h.activeScreen = 1 THEN 0 ELSE ScreenSize + Far
End(x) == x.addr + Size(x.w, x.h)

LEMMA Ends ==
    ASSUME NEW x \in Surface
    PROVE  x.addr \in Nat /\ End(x) \in Nat
<1>1. x.addr \in Nat /\ x.w \in Nat /\ x.h \in Nat
  BY DEF Surface
<1>2. Size(x.w, x.h) \in Nat
  BY <1>1, SizeType
<1> QED BY <1>1, <1>2 DEF End

LEMMA TargetHidden ==
    ASSUME NEW h \in Driver, NEW n \in 0 .. NUM_SURFACES, h.double, Layout(h, n), Hidden(h, n),
           h.surf[screen0] = [addr |-> 0, w |-> Screen.w, h |-> Screen.h]
    PROVE  End(h.reg.target) <= OtherPage(h) \/ OtherPage(h) + ScreenSize <= h.reg.target.addr
<1>1. h.reg.target = h.surf[h.target] /\ h.target \in {Page(h)} \cup 1 .. n
  BY DEF Hidden
<1>2. ScreenSize \in Nat /\ Far \in Nat
  BY GfxNumbers, ScreenSizes
<1>3. CASE h.target = Page(h) /\ h.activeScreen = 1
  <2>1. h.reg.target = [addr |-> ScreenSize + Far, w |-> Screen.w, h |-> Screen.h]
    BY <1>1, <1>3 DEF Page, Layout
  <2> QED BY <1>2, <1>3, <2>1 DEF OtherPage
<1>4. CASE h.target = Page(h) /\ h.activeScreen # 1
  <2>1. h.reg.target = [addr |-> 0, w |-> Screen.w, h |-> Screen.h]
    BY <1>1, <1>4 DEF Page
  <2>2. End(h.reg.target) = ScreenSize
    BY <1>2, <2>1, ScreenSizes DEF End
  <2> QED BY <1>2, <1>4, <2>2 DEF OtherPage
<1>5. CASE h.target \in 1 .. n
  <2>1. ScreenSize <= h.reg.target.addr /\ End(h.reg.target) <= h.base
    BY <1>1, <1>5 DEF Layout, End
  <2>2. h.base \in Nat /\ h.base <= 3 * ScreenSize + n * Share
    BY DEF Driver, Layout
  <2>3. h.base <= Far
    BY <2>2, BaseBelow
  <2>4. h.reg.target \in Surface
    BY DEF Driver, Registers
  <2>5. h.reg.target.addr \in Nat /\ End(h.reg.target) \in Nat
    BY <2>4, Ends
  <2> QED BY <1>2, <2>1, <2>2, <2>3, <2>5 DEF OtherPage
<1> QED BY <1>1, <1>3, <1>4, <1>5

-----------------------------------------------------------------------------
(* Steps.                                                                   *)

\* What an invariant needs of a state behind orgfxplus_init.
Inside == host.at # "start" /\ GfxInv

LEMMA Insides ==
    ASSUME Inside
    PROVE  /\ Alike(hw, soft, host.images) /\ (~host.apart => TargetsAgree(hw, soft))
           /\ hw \in Driver /\ soft \in Software /\ host.images \in 0 .. NUM_SURFACES
           /\ GfxTypeOK /\ Paging /\ NoTearing
           /\ hw.double => /\ Layout(hw, host.images) /\ Hidden(hw, host.images)
                           /\ vga.vbarb = ScreenSize + Far
<1>1. /\ GfxTypeOK /\ DriverRight /\ Tables(hw, soft, host.images) /\ Paging
      /\ hw.double => /\ Layout(hw, host.images) /\ Hidden(hw, host.images)
                      /\ vga.vbarb = ScreenSize + Far
  BY DEF Inside, GfxInv
<1>2. /\ ~host.apart => TargetsAgree(hw, soft)
      /\ TexturesAgree(hw, soft) /\ EnablesAgree(hw, soft) /\ NoTearing
  BY <1>1 DEF Inside, DriverRight, SettingsAgree
<1>3. TexturesBound(hw, soft)
  BY <1>2 DEF TexturesAgree, TexturesBound
<1>4. hw \in Driver /\ soft \in Software /\ host.images \in 0 .. NUM_SURFACES
  BY <1>1 DEF GfxTypeOK
<1> QED BY <1>1, <1>2, <1>3, <1>4 DEF Alike, Bound

LEMMA InsideNext ==
    ASSUME host'.at # "start", GfxTypeOK', Alike(hw', soft', host'.images),
           ~host'.apart => TargetsAgree(hw', soft'), Paging', NoTearing',
           hw'.double => /\ Layout(hw', host'.images) /\ Hidden(hw', host'.images)
                         /\ vga'.vbarb = ScreenSize + Far
    PROVE  GfxInv'
<1>1. Tables(hw, soft, host.images)' /\ TexturesAgree(hw, soft)' /\ EnablesAgree(hw, soft)'
  BY DEF Alike, Bound, Tables, TexturesAgree, EnablesAgree
<1>2. SettingsAgree'
  BY <1>1 DEF SettingsAgree, TargetsAgree
<1> QED BY <1>1, <1>2 DEF GfxInv, DriverRight, AtStart, Layout, Hidden, Page

\* Nothing moves: a setting, or a primitive that is started.
Settles(g, t, h, s) ==
    /\ SamePlace(g, t, h, s)
    /\ Keeps(g, t, h, s) \/ sw_rect(g.reg.clip) = t.clip
LEMMA SettingKeeps ==
    ASSUME Inside, host.at = "ready", Alike(hw', soft', host.images), Settles(hw', soft', hw, soft),
           vga' = vga, host' \in [at : {"ready"}, todo : Seq(Piece(host.images)), calls : Nat,
                                  images : {host.images}, apart : {host.apart}],
           engine' = engine \/ engine' = [busy |-> TRUE, from |-> hw'.reg.target.addr, upto |-> End(hw'.reg.target)]
    PROVE  GfxInv'
<1> DEFINE n == host.images
<1>1. /\ ~host.apart => TargetsAgree(hw, soft)
      /\ hw \in Driver /\ n \in 0 .. NUM_SURFACES /\ GfxTypeOK /\ Paging /\ NoTearing
      /\ hw.double => Layout(hw, n) /\ Hidden(hw, n) /\ vga.vbarb = ScreenSize + Far
  BY Insides
<1>2. host'.at = "ready" /\ host'.images = n /\ host'.apart = host.apart
  OBVIOUS
<1>3. /\ hw'.base = hw.base /\ hw'.surf = hw.surf /\ hw'.double = hw.double /\ hw'.activeScreen = hw.activeScreen
      /\ hw'.target = hw.target /\ hw'.reg.target = hw.reg.target
      /\ soft'.sizes = soft.sizes /\ soft'.addr = soft.addr /\ soft'.target = soft.target
      /\ \/ hw'.reg.clip = hw.reg.clip /\ soft'.clip = soft.clip
         \/ sw_rect(hw'.reg.clip) = soft'.clip
  BY DEF Settles, Keeps, SamePlace, SameDriver, SameSoftware
<1>4. hw' \in Driver /\ soft' \in Software /\ hw'.reg.target \in Surface
      /\ hw'.surf[screen0] = [addr |-> 0, w |-> Screen.w, h |-> Screen.h]
  BY DEF Alike, Bound, Driver, Registers, Tables
<1>5. ~host'.apart => TargetsAgree(hw', soft')
  BY <1>1, <1>2, <1>3 DEF TargetsAgree
<1>6. hw'.double => Layout(hw', n) /\ Hidden(hw', n) /\ vga'.vbarb = ScreenSize + Far
  BY <1>1, <1>3 DEF Layout, Hidden, Page
<1>7. Paging'
  BY <1>1, <1>2, <1>3 DEF Paging
<1>8. hw'.reg.target.addr \in Nat /\ End(hw'.reg.target) \in Nat
  BY <1>4, Ends
<1>9. GfxTypeOK'
  <2>1. engine' \in [busy : BOOLEAN, from : Int, upto : Int]
    <3>1. engine \in [busy : BOOLEAN, from : Int, upto : Int]
      BY <1>1 DEF GfxTypeOK
    <3>2. [busy |-> TRUE, from |-> hw'.reg.target.addr, upto |-> End(hw'.reg.target)]
             \in [busy : BOOLEAN, from : Int, upto : Int]
      BY <1>8
    <3> QED BY <3>1, <3>2
  <2>2. host' \in [at : {"start", "ready", "flip"}, todo : Seq(Piece(host'.images)), calls : Nat,
                   images : 0 .. NUM_SURFACES, apart : BOOLEAN]
    BY <1>1, <1>2 DEF GfxTypeOK
  <2>3. vga' \in [vbara : {0}, vbarb : Nat, page : {0, 1}, switch : BOOLEAN]
    BY <1>1 DEF GfxTypeOK
  <2> QED BY <1>4, <2>1, <2>2, <2>3 DEF GfxTypeOK
<1>10. NoTearing'
  <2>1. CASE engine' = engine
    BY <1>1, <1>3, <2>1 DEF NoTearing, Shown
  <2>2. CASE engine' = [busy |-> TRUE, from |-> hw'.reg.target.addr, upto |-> End(hw'.reg.target)]
    <3>1. SUFFICES ASSUME hw'.double PROVE NoTearing'
      BY DEF NoTearing
    <3>2. End(hw'.reg.target) <= OtherPage(hw') \/ OtherPage(hw') + ScreenSize <= hw'.reg.target.addr
      BY <1>1, <1>4, <1>6, <3>1, TargetHidden
    <3>3. vga'.vbarb = ScreenSize + Far /\ vga'.vbara = 0 /\ vga'.page = 1 - hw'.activeScreen
          /\ hw'.activeScreen \in {0, 1}
      BY <1>1, <1>2, <1>4, <1>6, <1>7, <3>1 DEF GfxTypeOK, Paging, Driver
    <3>4. Shown' = OtherPage(hw')
      BY <3>3 DEF Shown, OtherPage
    <3>5. engine'.from = hw'.reg.target.addr /\ engine'.upto = End(hw'.reg.target)
      BY <2>2
    <3>6. (Shown + Size(Screen.w, Screen.h))' = Shown' + ScreenSize
      BY DEF ScreenSize
    <3> QED BY <3>2, <3>4, <3>5, <3>6 DEF NoTearing
  <2> QED BY <2>1, <2>2
<1> QED BY <1>2, <1>5, <1>6, <1>7, <1>9, <1>10, InsideNext

LEMMA ReadyInside ==
    ASSUME GfxInv, Ready
    PROVE  /\ Inside /\ host.at = "ready" /\ host.todo = <<>>
           /\ Alike(hw, soft, host.images) /\ Bound(hw, soft, host.images)
           /\ host \in [at : {"start", "ready", "flip"}, todo : Seq(Piece(host.images)), calls : Nat,
                        images : 0 .. NUM_SURFACES, apart : BOOLEAN]
<1>1. host.at = "ready" /\ host.todo = <<>> /\ Inside
  BY DEF Ready, Inside
<1> QED BY <1>1, Insides DEF Alike, GfxTypeOK

LEMMA CountedHost ==
    ASSUME GfxInv, Ready
    PROVE  Counted \in [at : {"ready"}, todo : Seq(Piece(host.images)), calls : Nat,
                        images : {host.images}, apart : {host.apart}]
BY ReadyInside DEF Counted

LEMMA CallKeeps ==
    ASSUME GfxInv, NEW h, NEW s, Call(h, s),
           Alike(h, s, host.images), Settles(h, s, hw, soft)
    PROVE  GfxInv'
BY ReadyInside, CountedHost, SettingKeeps DEF Call

LEMMA DrawKeeps ==
    ASSUME GfxInv, NEW h, NEW s, Draw(h, s),
           Alike(h, s, host.images), Keeps(h, s, hw, soft)
    PROVE  GfxInv'
<1>1. Ready /\ hw' = Primitive(h) /\ soft' = s /\ host' = Counted /\ Start(h) /\ vga' = vga
  BY DEF Draw
<1>2. Alike(hw', soft', host.images) /\ Keeps(hw', soft', h, s)
  BY <1>1, Primitives
<1>3. Settles(hw', soft', hw, soft)
  BY <1>1, <1>2, KeepsTwice DEF Settles, Keeps
<1>4. h.reg.target = hw'.reg.target
  BY <1>2 DEF Keeps, SamePlace, SameDriver
<1>5. engine' = [busy |-> TRUE, from |-> hw'.reg.target.addr, upto |-> End(hw'.reg.target)]
  BY <1>1, <1>4 DEF Start, End
<1> QED BY <1>1, <1>2, <1>3, <1>5, ReadyInside, CountedHost, SettingKeeps

\* What a shape and a sprite set first.
LEMMA Plains ==
    ASSUME NEW h, NEW s, NEW n, Alike(h, s, n), NEW v \in Values
    PROVE  Alike(Plain(h, v), sw_Plain(s, v), n) /\ Keeps(Plain(h, v), sw_Plain(s, v), h, s)
<1> DEFINE g == orgfx_enable_tex0(h, FALSE)
           t == sw_enable_tex0(s, FALSE)
<1>1. Alike(g, t, n) /\ Keeps(g, t, h, s)
  BY EnableTextures DEF Alike
<1>2. Plain(h, v) = orgfx_set(g, "color", v) /\ sw_Plain(s, v) = sw_set(t, "color", v)
      /\ "color" \in ValueRegisters /\ v \in Numbers
  BY DEF Plain, sw_Plain, ValueRegisters, Numbers
<1> HIDE DEF g, t
<1>3. Alike(orgfx_set(g, "color", v), sw_set(t, "color", v), n)
      /\ Keeps(orgfx_set(g, "color", v), sw_set(t, "color", v), g, t)
  BY <1>1, <1>2, SetValues
<1> QED BY <1>1, <1>2, <1>3, KeepsTwice

LEMMA Texturing ==
    ASSUME NEW h, NEW s, NEW n, Alike(h, s, n), NEW i \in 1 .. n
    PROVE  Alike(Textured(h, i), sw_Textured(s, i), n) /\ Keeps(Textured(h, i), sw_Textured(s, i), h, s)
<1> DEFINE g == orgfx_enable_tex0(h, TRUE)
           t == sw_enable_tex0(s, TRUE)
<1>1. Alike(g, t, n) /\ Keeps(g, t, h, s)
  BY EnableTextures DEF Alike
<1>2. Textured(h, i) = orgfx_bind_tex0(g, i) /\ sw_Textured(s, i) = sw_bind_tex0(t, i)
  BY DEF Textured, sw_Textured
<1> HIDE DEF g, t
<1>3. Alike(orgfx_bind_tex0(g, i), sw_bind_tex0(t, i), n)
      /\ Keeps(orgfx_bind_tex0(g, i), sw_bind_tex0(t, i), g, t)
  BY <1>1, BindTextures DEF Alike
<1> QED BY <1>1, <1>2, <1>3, KeepsTwice

LEMMA Sections ==
    ASSUME NEW h, NEW s, NEW n, Alike(h, s, n), NEW i \in 1 .. n, NEW r \in Rectangle
    PROVE  /\ Alike(orgfx_srcrect(Textured(h, i), r), sw_srcrect(sw_Textured(s, i), r), n)
           /\ Keeps(orgfx_srcrect(Textured(h, i), r), sw_srcrect(sw_Textured(s, i), r), h, s)
BY Texturing, SrcRects, KeepsTwice DEF Alike

LEMMA RectsTyped == \A r \in Rects : r \in Rectangle
BY GfxAssumption DEF Rectangle

LEMMA DrawingKeeps ==
    ASSUME GfxInv, Drawing
    PROVE  GfxInv'
<1> DEFINE n == host.images
<1>1. ASSUME NEW v \in Values, Shape(v)
      PROVE  GfxInv'
  <2>1. Draw(Plain(hw, v), sw_Plain(soft, v))
    BY <1>1 DEF Shape
  <2>2. Alike(hw, soft, n)
    BY <2>1, ReadyInside DEF Draw
  <2> QED BY <2>1, <2>2, Plains, DrawKeeps
<1>2. ASSUME NEW v \in Values, NEW inside \in BOOLEAN, orgfxplus_curve(v, inside)
      PROVE  GfxInv'
  <2>1. Draw(orgfx_curve(Plain(hw, v), inside), sw_Plain(soft, v))
    BY <1>2 DEF orgfxplus_curve
  <2>2. Alike(hw, soft, n)
    BY <2>1, ReadyInside DEF Draw
  <2>3. Alike(Plain(hw, v), sw_Plain(soft, v), n) /\ Keeps(Plain(hw, v), sw_Plain(soft, v), hw, soft)
    BY <2>2, Plains
  <2>4. Alike(orgfx_curve(Plain(hw, v), inside), sw_Plain(soft, v), n)
        /\ Keeps(orgfx_curve(Plain(hw, v), inside), sw_Plain(soft, v), hw, soft)
    BY <2>3, Curves, KeepsTwice
  <2> QED BY <2>1, <2>4, DrawKeeps
<1>3. ASSUME NEW i \in Held, orgfxplus_draw_surface(i)
      PROVE  GfxInv'
  <2>1. Draw(Textured(hw, i), sw_Textured(soft, i)) /\ i \in 1 .. n
    BY <1>3 DEF orgfxplus_draw_surface, Held
  <2>2. Alike(hw, soft, n)
    BY <2>1, ReadyInside DEF Draw
  <2> QED BY <2>1, <2>2, Texturing, DrawKeeps
<1>4. ASSUME NEW i \in Held, NEW r \in Rects, orgfxplus_draw_surface_section(i, r)
      PROVE  GfxInv'
  <2>1. Draw(orgfx_srcrect(Textured(hw, i), r), sw_srcrect(sw_Textured(soft, i), r)) /\ i \in 1 .. n
        /\ r \in Rectangle
    BY <1>4, RectsTyped DEF orgfxplus_draw_surface_section, Held
  <2>2. Alike(hw, soft, n)
    BY <2>1, ReadyInside DEF Draw
  <2> QED BY <2>1, <2>2, Sections, DrawKeeps
<1> QED BY <1>1, <1>2, <1>3, <1>4 DEF Drawing

LEMMA SettingStep ==
    ASSUME GfxInv, Setting
    PROVE  GfxInv'
<1> DEFINE n == host.images
<1>1. Ready
  BY DEF Setting, orgfxplus_clip, EnableTex0, EnableZbuffer, EnableTransform, SrcRect, orgfxplus_colorkey,
         orgfxplus_alpha, SetMatrix, Call
<1>2. Alike(hw, soft, n) /\ Bound(hw, soft, n)
  BY <1>1, ReadyInside
<1>3. ASSUME NEW h, NEW s, Alike(h, s, n), Keeps(h, s, hw, soft), Call(h, s)
      PROVE  GfxInv'
  BY <1>3, CallKeeps DEF Settles, Keeps
<1>4. ASSUME NEW r \in Rects, NEW on \in BOOLEAN, orgfxplus_clip(r, on)
      PROVE  GfxInv'
  <2> DEFINE g == Enable(hw, "clipping", on)
             t == sw_enable(soft, "clipping", on)
  <2>1. Call(orgfx_cliprect(g, r), sw_cliprect(t, r)) /\ r \in Rectangle
    BY <1>4, RectsTyped DEF orgfxplus_clip
  <2>2. Alike(g, t, n) /\ Keeps(g, t, hw, soft)
    BY <1>2, EnableBits DEF Alike, Enables
  <2> HIDE DEF g, t
  <2>3. /\ Alike(orgfx_cliprect(g, r), sw_cliprect(t, r), n)
        /\ SamePlace(orgfx_cliprect(g, r), sw_cliprect(t, r), g, t)
        /\ orgfx_cliprect(g, r).reg.clip = r /\ sw_cliprect(t, r).clip = sw_rect(r)
    BY <2>1, <2>2, ClipRects DEF Alike
  <2>4. Settles(orgfx_cliprect(g, r), sw_cliprect(t, r), hw, soft)
    BY <2>2, <2>3 DEF Settles, Keeps, SamePlace, SameDriver, SameSoftware
  <2> QED BY <2>1, <2>3, <2>4, CallKeeps
<1>5. ASSUME NEW on \in BOOLEAN, EnableTex0(on)
      PROVE  GfxInv'
  BY <1>2, <1>3, <1>5, EnableTextures DEF EnableTex0
<1>6. ASSUME NEW on \in BOOLEAN, EnableZbuffer(on)
      PROVE  GfxInv'
  <2>1. Alike(Enable(hw, "zbuffer", on), sw_enable(soft, "zbuffer", on), n)
        /\ Keeps(Enable(hw, "zbuffer", on), sw_enable(soft, "zbuffer", on), hw, soft)
    BY <1>2, EnableBits DEF Alike, Enables
  <2> QED BY <1>3, <1>6, <2>1 DEF EnableZbuffer
<1>7. ASSUME NEW on \in BOOLEAN, EnableTransform(on)
      PROVE  GfxInv'
  <2>1. hw' = orgfx_enable_transform(hw, on) /\ soft' = [soft EXCEPT !.transform = on] /\ host' = Counted
        /\ engine' = engine /\ vga' = vga
    BY <1>7 DEF EnableTransform
  <2>2. Alike(hw', soft', n) /\ Keeps(hw', soft', hw, soft)
    BY <1>2, <2>1, SetTransform
  <2> QED BY <1>1, <2>1, <2>2, ReadyInside, CountedHost, SettingKeeps DEF Settles, Keeps
<1>8. ASSUME NEW r \in Rects, SrcRect(r)
      PROVE  GfxInv'
  BY <1>2, <1>3, <1>8, RectsTyped, SrcRects DEF SrcRect
<1>9. ASSUME NEW v \in Values, NEW on \in BOOLEAN, NEW bit \in Enables \ {"texture"}, NEW reg \in ValueRegisters
      PROVE  /\ Alike(orgfx_set(Enable(hw, bit, on), reg, v), sw_set(sw_enable(soft, bit, on), reg, v), n)
             /\ Keeps(orgfx_set(Enable(hw, bit, on), reg, v), sw_set(sw_enable(soft, bit, on), reg, v), hw, soft)
  <2> DEFINE g == Enable(hw, bit, on)
             t == sw_enable(soft, bit, on)
  <2>1. Alike(g, t, n) /\ Keeps(g, t, hw, soft) /\ v \in Numbers
    BY <1>2, EnableBits DEF Alike, Numbers
  <2> HIDE DEF g, t
  <2>2. Alike(orgfx_set(g, reg, v), sw_set(t, reg, v), n)
        /\ Keeps(orgfx_set(g, reg, v), sw_set(t, reg, v), hw, soft)
    BY <2>1, SetValues, KeepsTwice
  <2> QED BY <2>2 DEF g, t
<1>10. ASSUME NEW v \in Values, NEW on \in BOOLEAN, orgfxplus_colorkey(v, on) \/ orgfxplus_alpha(v, on)
       PROVE  GfxInv'
  <2>1. {"colorkey", "blend"} \subseteq Enables \ {"texture"} /\ {"colorkey", "alpha"} \subseteq ValueRegisters
    BY DEF Enables, ValueRegisters
  <2>2. CASE orgfxplus_colorkey(v, on)
    BY <1>3, <1>9, <2>1, <2>2 DEF orgfxplus_colorkey
  <2>3. CASE orgfxplus_alpha(v, on)
    BY <1>3, <1>9, <2>1, <2>3 DEF orgfxplus_alpha
  <2> QED BY <1>10, <2>2, <2>3
<1>11. ASSUME NEW v \in Values, SetMatrix(v)
       PROVE  GfxInv'
  <2>1. "matrix" \in ValueRegisters /\ v \in Numbers
    BY DEF ValueRegisters, Numbers
  <2> QED BY <1>2, <1>3, <1>11, <2>1, SetValues DEF SetMatrix
<1> QED BY <1>4, <1>5, <1>6, <1>7, <1>8, <1>10, <1>11 DEF Setting

-----------------------------------------------------------------------------
(* Targets bound, images loaded, pages flipped.                              *)

\* Every image and the hidden page have their counterpart in the software.
LEMMA Standing ==
    ASSUME NEW h \in Driver, NEW s \in Software, NEW n \in 0 .. NUM_SURFACES, Listed(h, s, n),
           h.double => h.surf[screen1].w = Screen.w /\ h.surf[screen1].h = Screen.h,
           NEW j \in {Page(h)} \cup 0 .. n
    PROVE  Stands(h, s, j)
<1>1. n \in Nat /\ n <= NUM_SURFACES /\ 0 \in 0 .. n
  BY GfxNumbers
<1>2. ASSUME NEW i \in 0 .. n
      PROVE  i \in Names /\ i # screen1 /\ s.addr[i] \in DOMAIN s.sizes
             /\ s.sizes[s.addr[i]].w = h.surf[i].w /\ s.sizes[s.addr[i]].h = h.surf[i].h
  <2>1. i \in 0 .. NUM_SURFACES
    BY <1>1, GfxNumbers
  <2>2. s.sizes[s.addr[i]] = [w |-> h.surf[i].w, h |-> h.surf[i].h] /\ s.addr[i] \in DOMAIN s.sizes
    BY DEF Listed
  <2> QED BY <2>1, <2>2, GfxNumbers
<1>3. CASE j \in 0 .. n
  BY <1>2, <1>3 DEF Stands, Shared
<1>4. CASE j = screen1 /\ h.double
  <2>1. Shared(j) = 0 /\ j \in Names
    BY <1>4, GfxNumbers DEF Shared, screen0
  <2>2. s.addr[0] \in DOMAIN s.sizes /\ s.sizes[s.addr[0]].w = Screen.w /\ s.sizes[s.addr[0]].h = Screen.h
    BY <1>1, <1>2 DEF Listed, screen0
  <2> QED BY <1>4, <2>1, <2>2 DEF Stands
<1>5. CASE j = screen0
  BY <1>1, <1>3, <1>5 DEF screen0
<1> QED BY <1>3, <1>4, <1>5 DEF Page

LEMMA SharedNames ==
    /\ \A i \in 0 .. NUM_SURFACES : Shared(i) = i
    /\ \A h : Shared(Page(h)) = screen0 /\ Page(h) \in Names
BY GfxNumbers DEF Shared, Page

LEMMA PlaceKeeps ==
    ASSUME Inside, host.at # "start", ~engine.busy, engine' = engine,
           vga' = vga, Paging', host'.at # "start",
           host' \in [at : {"ready", "flip"}, todo : Seq(Piece(host'.images)), calls : Nat,
                      images : 0 .. NUM_SURFACES, apart : BOOLEAN],
           Alike(hw', soft', host'.images), ~host'.apart => TargetsAgree(hw', soft'),
           hw'.double = hw.double,
           hw'.double => Layout(hw', host'.images) /\ Hidden(hw', host'.images)
    PROVE  GfxInv'
<1>1. GfxTypeOK /\ (hw.double => vga.vbarb = ScreenSize + Far)
  BY Insides
<1>2. NoTearing'
  BY DEF NoTearing
<1>3. GfxTypeOK'
  <2>1. hw' \in Driver /\ soft' \in Software
    BY DEF Alike, Bound
  <2>2. host' \in [at : {"start", "ready", "flip"}, todo : Seq(Piece(host'.images)), calls : Nat,
                   images : 0 .. NUM_SURFACES, apart : BOOLEAN]
    OBVIOUS
  <2> QED BY <1>1, <2>1, <2>2 DEF GfxTypeOK
<1> QED BY <1>1, <1>2, <1>3, InsideNext

\* The screen's second page is as large as the first.
LEMMA InsidePages ==
    ASSUME Inside
    PROVE  /\ Free(hw, soft, host.images)
           /\ hw.double => hw.surf[screen1].w = Screen.w /\ hw.surf[screen1].h = Screen.h
BY Insides, FreeIsAlike DEF Layout

\* A new target, with the tables as they are.
LEMMA TargetBound ==
    ASSUME Inside, NEW j \in {Page(hw)} \cup 1 .. host.images,
           NEW g, NEW t, g = orgfx_bind_rendertarget(hw, j), t = sw_bind_rendertarget(soft, Shared(j))
    PROVE  /\ Alike(g, t, host.images) /\ TargetsAgree(g, t) /\ g.double = hw.double /\ g.activeScreen = hw.activeScreen
           /\ hw.double => Layout(g, host.images) /\ Hidden(g, host.images)
<1> DEFINE n == host.images
<1>1. hw \in Driver /\ soft \in Software /\ n \in 0 .. NUM_SURFACES /\ Free(hw, soft, n) /\ Listed(hw, soft, n)
      /\ (hw.double => hw.surf[screen1].w = Screen.w /\ hw.surf[screen1].h = Screen.h)
      /\ (hw.double => Layout(hw, n))
  BY Insides, InsidePages DEF Free
<1>2. j \in {Page(hw)} \cup 0 .. n
  OBVIOUS
<1>3. Stands(hw, soft, j)
  BY <1>1, <1>2, Standing
<1>4. Alike(g, t, n) /\ TargetsAgree(g, t) /\ SameTables(g, t, hw, soft) /\ g.target = j
  BY <1>1, <1>3, BindTargets
<1>5. hw.double => Layout(g, n) /\ Hidden(g, n)
  BY <1>1, <1>4 DEF Layout, Hidden, SameTables, TargetsAgree, Page
<1> QED BY <1>4, <1>5 DEF SameTables

LEMMA BindKeeps ==
    ASSUME GfxInv, Bind
    PROVE  GfxInv'
<1> DEFINE n == host.images
<1>1. ASSUME NEW i \in Held \cup {-1}, orgfxplus_bind_rendertarget(i)
      PROVE  GfxInv'
  <2> DEFINE j == Target(i, hw)
  <2>1. Ready /\ ~engine.busy /\ hw' = orgfx_bind_rendertarget(hw, j)
        /\ soft' = sw_bind_rendertarget(soft, sw_Target(i)) /\ host' = [Counted EXCEPT !.apart = FALSE]
        /\ engine' = engine /\ vga' = vga
    BY <1>1 DEF orgfxplus_bind_rendertarget, orgfx_wait
  <2>2. Inside /\ host.at = "ready" /\ n \in 0 .. NUM_SURFACES /\ Paging
    BY <2>1, ReadyInside, Insides
  <2>3. sw_Target(i) = Shared(j) /\ j \in {Page(hw)} \cup 1 .. n
    <3>1. CASE i = -1
      BY <3>1, SharedNames DEF Target, sw_Target
    <3>2. CASE i # -1
      <4>1. i \in 1 .. n /\ i \in 0 .. NUM_SURFACES
        BY <2>2, <3>2, GfxNumbers DEF Held
      <4> QED BY <3>2, <4>1, SharedNames DEF Target, sw_Target
    <3> QED BY <3>1, <3>2
  <2> HIDE DEF j
  <2>4. /\ Alike(hw', soft', n) /\ TargetsAgree(hw', soft') /\ hw'.double = hw.double
        /\ hw'.activeScreen = hw.activeScreen
        /\ hw.double => Layout(hw', n) /\ Hidden(hw', n)
    BY <2>1, <2>2, <2>3, TargetBound
  <2>5. host' \in [at : {"ready"}, todo : Seq(Piece(n)), calls : Nat, images : {n}, apart : {FALSE}]
    BY <2>1, CountedHost
  <2>6. Paging'
    BY <2>1, <2>2, <2>4, <2>5 DEF Paging
  <2>7. host'.images = n /\ host'.at = "ready"
        /\ host' \in [at : {"ready", "flip"}, todo : Seq(Piece(host'.images)), calls : Nat,
                      images : 0 .. NUM_SURFACES, apart : BOOLEAN]
    BY <2>2, <2>5
  <2> QED BY <2>1, <2>2, <2>4, <2>6, <2>7, PlaceKeeps
<1>2. ASSUME NEW i \in Held, orgfxplus_bind_tex0(i)
      PROVE  GfxInv'
  <2>1. Call(orgfx_bind_tex0(hw, i), sw_bind_tex0(soft, i)) /\ i \in 1 .. n
    BY <1>2 DEF orgfxplus_bind_tex0, Held
  <2>2. Bound(hw, soft, n)
    BY <2>1, ReadyInside DEF Call
  <2> QED BY <2>1, <2>2, BindTextures, CallKeeps DEF Settles, Keeps
<1> QED BY <1>1, <1>2 DEF Bind

LEMMA FlipKeeps ==
    ASSUME GfxInv, FlipDone
    PROVE  GfxInv'
<1> DEFINE n == host.images
           h == [hw EXCEPT !.activeScreen = 1 - hw.activeScreen]
<1>1. host.at = "flip" /\ Switched /\ hw' = orgfx_bind_rendertarget(h, Page(h)) /\ soft' = soft
      /\ host' = [host EXCEPT !.at = "ready",
                    !.apart = @ \/ soft.target # soft.addr[screen0] \/ soft.clip # sw_full(soft.target)]
      /\ engine' = engine /\ vga' = vga
  BY DEF FlipDone
<1>2. Inside
  BY <1>1 DEF Inside
<1>3. /\ hw \in Driver /\ soft \in Software /\ n \in 0 .. NUM_SURFACES /\ GfxTypeOK /\ Paging
      /\ Alike(hw, soft, n) /\ (~host.apart => TargetsAgree(hw, soft))
      /\ (hw.double => Layout(hw, n) /\ Hidden(hw, n))
  BY <1>2, Insides
<1>4. h \in Driver /\ h.activeScreen = 1 - hw.activeScreen /\ h.double = hw.double /\ h.surf = hw.surf
      /\ h.base = hw.base /\ h.reg = hw.reg /\ h.tex0 = hw.tex0 /\ h.ctrl = hw.ctrl /\ h.transform = hw.transform
  BY <1>3 DEF Driver
<1> HIDE DEF h
<1>5. Free(h, soft, n) /\ (h.double => h.surf[screen1].w = Screen.w /\ h.surf[screen1].h = Screen.h)
  BY <1>3, <1>4, FreeIsAlike DEF Free, Listed, TexturesBound, TexturesAgree, EnablesAgree, Layout
<1>6. Stands(h, soft, Page(h))
  <2>1. Listed(h, soft, n)
    BY <1>5 DEF Free
  <2> QED BY <1>3, <1>4, <1>5, <2>1, Standing
<1> DEFINE t == sw_bind_rendertarget(soft, screen0)
<1>7. Alike(hw', t, n) /\ TargetsAgree(hw', t) /\ SameTables(hw', t, h, soft) /\ hw'.target = Page(h)
  BY <1>1, <1>5, <1>6, BindTargets, SharedNames
<1>8. t.target = soft.addr[screen0] /\ t.clip = sw_rect(<<0, 0, soft.sizes[t.target].w, soft.sizes[t.target].h>>)
      /\ t.sizes = soft.sizes /\ t.addr = soft.addr /\ t.tex0 = soft.tex0 /\ t.src = soft.src /\ t.on = soft.on
      /\ t.transform = soft.transform /\ t.val = soft.val
  BY <1>3 DEF sw_bind_rendertarget, sw_cliprect, Software
<1> HIDE DEF t
<1>9. Alike(hw', soft', n)
  BY <1>1, <1>3, <1>7, <1>8 DEF Alike, Bound, Tables, TexturesBound, TexturesAgree, EnablesAgree
<1>10. ~host'.apart => TargetsAgree(hw', soft')
  <2>1. SUFFICES ASSUME ~host'.apart PROVE TargetsAgree(hw', soft')
    OBVIOUS
  <2>2. soft.target = soft.addr[screen0] /\ soft.clip = sw_full(soft.target)
    BY <1>1, <1>3, <2>1 DEF GfxTypeOK
  <2>3. sw_full(soft.target) = t.clip
    <3>1. \A w \in Nat, ht \in Nat : sw_rect(<<0, 0, w, ht>>) = <<0, 0, w, ht>>
      BY DEF sw_rect
    <3>2. soft.addr[screen0] \in DOMAIN soft.sizes /\ soft.sizes \in Seq([w : Nat, h : Nat])
      <4>1. screen0 \in 0 .. n
        BY <1>3, GfxNumbers DEF screen0
      <4> QED BY <1>3, <4>1 DEF Alike, Bound, Tables, Software
    <3>3. soft.sizes[soft.target] \in [w : Nat, h : Nat]
      BY <2>2, <3>2, ElementOfSeq
    <3> QED BY <1>8, <2>2, <3>1, <3>3 DEF sw_full
  <2> QED BY <1>1, <1>7, <1>8, <2>2, <2>3 DEF TargetsAgree
<1>11. hw'.double = hw.double /\ hw'.activeScreen = h.activeScreen
  BY <1>4, <1>7 DEF SameTables
<1>12. hw'.double => Layout(hw', n) /\ Hidden(hw', n)
  BY <1>3, <1>4, <1>7, <1>11 DEF Layout, Hidden, SameTables, TargetsAgree, Page
<1>13. host'.at = "ready" /\ host'.images = n /\ host'.todo = host.todo
       /\ host' \in [at : {"ready", "flip"}, todo : Seq(Piece(host'.images)), calls : Nat,
                     images : 0 .. NUM_SURFACES, apart : BOOLEAN]
  BY <1>1, <1>3 DEF GfxTypeOK
<1>14. Paging' /\ ~engine.busy
  <2>1. ~engine.busy /\ vga.page = hw.activeScreen /\ hw.activeScreen \in {0, 1}
        /\ vga.page = (IF vga.switch THEN 1 - hw.activeScreen ELSE hw.activeScreen)
        /\ vga.switch \in BOOLEAN
    BY <1>1, <1>3 DEF Paging, Switched, GfxTypeOK, Driver
  <2>2. ~vga.switch /\ vga.page = 1 - (1 - hw.activeScreen)
    BY <2>1
  <2> QED BY <1>1, <1>4, <1>11, <1>13, <2>1, <2>2 DEF Paging
<1> QED BY <1>1, <1>2, <1>9, <1>10, <1>11, <1>12, <1>13, <1>14, PlaceKeeps

LEMMA LoadKeeps ==
    ASSUME GfxInv, Load
    PROVE  GfxInv'
<1> DEFINE n == host.images
           i == n + 1
<1>1. PICK size \in Sizes : orgfxplus_init_surface(size)
  BY DEF Load
<1> DEFINE h1 == orgfx_init_surface(hw, i, size.w, size.h)
           s1 == sw_init_surface(soft, i, size.w, size.h)
           h2 == orgfx_bind_rendertarget(h1, i)
           s2 == sw_bind_rendertarget(s1, i)
<1>2. Ready /\ ~engine.busy /\ n < NUM_SURFACES /\ hw' = orgfx_bind_rendertarget(h2, Page(h2))
      /\ soft' = sw_bind_rendertarget(s2, screen0)
      /\ host' = [Counted EXCEPT !.images = n + 1, !.apart = FALSE] /\ engine' = engine /\ vga' = vga
  <2>1. Ready /\ ~engine.busy /\ n < NUM_SURFACES /\ hw' = orgfx_bind_rendertarget(h2, Page(h2))
        /\ soft' = sw_bind_rendertarget(s2, screen0)
        /\ host' = [Counted EXCEPT !.images = @ + 1, !.apart = FALSE] /\ engine' = engine /\ vga' = vga
    BY <1>1 DEF orgfxplus_init_surface, orgfx_wait
  <2>2. Counted.images = n
    BY <2>1, CountedHost
  <2> QED BY <2>1, <2>2
<1>3. Inside /\ host.at = "ready" /\ n \in 0 .. NUM_SURFACES /\ Paging /\ Alike(hw, soft, n) /\ hw \in Driver
      /\ (hw.double => Layout(hw, n) /\ Hidden(hw, n))
  BY <1>2, ReadyInside, Insides
<1>4. n \in Nat /\ NUM_SURFACES \in Nat /\ i \in 0 .. NUM_SURFACES /\ i \in 1 .. i /\ i \in Names
      /\ size.w \in Nat /\ size.h \in Nat /\ Size(size.w, size.h) <= Share /\ Size(size.w, size.h) \in Nat
      /\ hw.base \in Nat
  <2>1. n \in Nat /\ NUM_SURFACES \in Nat /\ i \in 0 .. NUM_SURFACES /\ i \in 1 .. i
    BY <1>2, <1>3, GfxNumbers
  <2>2. size.w \in Nat /\ size.h \in Nat /\ Size(size.w, size.h) <= Share
    BY Shares
  <2> QED BY <1>3, <2>1, <2>2, GfxNumbers, SizeType DEF Driver
<1>5. /\ Free(h1, s1, i) /\ h1.base = hw.base + Size(size.w, size.h)
      /\ \A x \in Names : x # i => h1.surf[x] = hw.surf[x] /\ s1.addr[x] = soft.addr[x]
      /\ h1.surf[i] = [addr |-> hw.base, w |-> size.w, h |-> size.h]
      /\ h1.double = hw.double /\ h1.activeScreen = hw.activeScreen
  BY <1>3, <1>4, NewSurfaces
<1> HIDE DEF h1, s1
<1>6. hw.double => Layout(h1, i)
  <2>1. SUFFICES ASSUME hw.double PROVE Layout(h1, i)
    OBVIOUS
  <2>2. screen1 \in Names /\ screen1 # i /\ \A x \in 1 .. n : x \in Names /\ x # i
    BY <1>3, <1>4, GfxNumbers
  <2>3. h1.surf[screen1] = [addr |-> ScreenSize + Far, w |-> Screen.w, h |-> Screen.h]
    BY <1>3, <1>5, <2>1, <2>2 DEF Layout
  <2>4. hw.base <= 3 * ScreenSize + n * Share /\ ScreenSize <= hw.base
    BY <1>3, <2>1 DEF Layout
  <2>5. h1.base <= 3 * ScreenSize + i * Share
    <3>1. i * Share = n * Share + Share /\ n * Share \in Nat /\ ScreenSize \in Nat /\ Share \in Nat
      BY <1>4, Shares, ScreenSizes
    <3> HIDE DEF i
    <3> QED BY <1>4, <1>5, <2>4, <3>1
  <2>6. ASSUME NEW x \in 1 .. i
        PROVE  /\ ScreenSize <= h1.surf[x].addr
               /\ h1.surf[x].addr + Size(h1.surf[x].w, h1.surf[x].h) <= h1.base
    <3>1. CASE x = i
      BY <1>4, <1>5, <2>4, <3>1
    <3>2. CASE x # i
      <4>1. x \in 1 .. n /\ h1.surf[x] = hw.surf[x]
        BY <1>4, <1>5, <2>2, <3>2
      <4>2. hw.surf[x] \in Surface
        BY <1>3, <2>2, <4>1 DEF Driver
      <4>3. /\ ScreenSize <= hw.surf[x].addr
            /\ hw.surf[x].addr + Size(hw.surf[x].w, hw.surf[x].h) <= hw.base
        BY <1>3, <2>1, <4>1 DEF Layout
      <4>4. hw.surf[x].addr + Size(hw.surf[x].w, hw.surf[x].h) \in Nat
        BY <4>2, Ends DEF End
      <4> QED BY <1>4, <1>5, <4>1, <4>3, <4>4
    <3> QED BY <3>1, <3>2
  <2>7. ScreenSize <= h1.base
    BY <1>4, <1>5, <2>4, ScreenSizes
  <2> QED BY <2>3, <2>5, <2>6, <2>7 DEF Layout
<1>7. Stands(h1, s1, i) /\ Shared(i) = i
  <2>1. \A x \in 0 .. i : /\ s1.addr[x] \in DOMAIN s1.sizes
                          /\ s1.sizes[s1.addr[x]] = [w |-> h1.surf[x].w, h |-> h1.surf[x].h]
    BY <1>5 DEF Free, Listed
  <2>2. i \in 0 .. i
    BY <1>4
  <2>3. s1.addr[i] \in DOMAIN s1.sizes /\ s1.sizes[s1.addr[i]] = [w |-> h1.surf[i].w, h |-> h1.surf[i].h]
    BY <2>1, <2>2
  <2>4. Shared(i) = i
    BY <1>4, SharedNames
  <2> QED BY <1>4, <2>3, <2>4 DEF Stands
<1>8. Alike(h2, s2, i) /\ SameTables(h2, s2, h1, s1)
  BY <1>5, <1>7, BindTargets
<1> HIDE DEF h2, s2
<1>9. Free(h2, s2, i) /\ Listed(h2, s2, i) /\ h2 \in Driver /\ s2 \in Software
  BY <1>8, FreeIsAlike DEF Free
<1>10. h2.double = hw.double /\ h2.activeScreen = hw.activeScreen
       /\ (h2.double => h2.surf[screen1].w = Screen.w /\ h2.surf[screen1].h = Screen.h)
  BY <1>5, <1>6, <1>8 DEF SameTables, Layout
<1>11. Stands(h2, s2, Page(h2)) /\ Shared(Page(h2)) = screen0
  BY <1>4, <1>9, <1>10, Standing, SharedNames
<1>12. Alike(hw', soft', i) /\ TargetsAgree(hw', soft') /\ SameTables(hw', soft', h2, s2) /\ hw'.target = Page(h2)
  BY <1>2, <1>9, <1>11, BindTargets
<1>13. hw'.double = hw.double /\ hw'.activeScreen = hw.activeScreen
       /\ (hw'.double => Layout(hw', i) /\ Hidden(hw', i))
  BY <1>6, <1>8, <1>10, <1>12 DEF SameTables, Layout, Hidden, TargetsAgree, Page
<1>14. host'.images = i /\ host'.at = "ready"
       /\ host' \in [at : {"ready", "flip"}, todo : Seq(Piece(host'.images)), calls : Nat,
                     images : 0 .. NUM_SURFACES, apart : BOOLEAN]
  <2>1. Counted \in [at : {"ready"}, todo : Seq(Piece(n)), calls : Nat, images : {n}, apart : {host.apart}]
        /\ Counted.todo = <<>>
    BY <1>2, ReadyInside, CountedHost DEF Counted
  <2>2. host'.todo = <<>> /\ host'.images = i /\ host'.at = "ready" /\ host'.calls \in Nat /\ ~host'.apart
        /\ DOMAIN host' = {"at", "todo", "calls", "images", "apart"}
        /\ host' = [at |-> "ready", todo |-> <<>>, calls |-> Counted.calls, images |-> i, apart |-> FALSE]
    BY <1>2, <2>1
  <2>3. <<>> \in Seq(Piece(i))
    OBVIOUS
  <2> QED BY <1>4, <2>1, <2>2, <2>3
<1>15. Paging'
  BY <1>2, <1>3, <1>13, <1>14 DEF Paging
<1> QED BY <1>2, <1>3, <1>12, <1>13, <1>14, <1>15, PlaceKeeps

-----------------------------------------------------------------------------
(* Texts and meshes, the engine and the pages.                               *)

LEMMA SequenceKeeps ==
    ASSUME GfxInv, Sequence
    PROVE  GfxInv'
<1> DEFINE n == host.images
           Typed == [at : {"ready"}, todo : Seq(Piece(n)), calls : Nat, images : {n}, apart : {host.apart}]
<1>1. ASSUME Ready, NEW todo \in Seq(Piece(n)), host' = [Counted EXCEPT !.todo = todo]
      PROVE  host' \in Typed
  BY <1>1, CountedHost
<1>2. ASSUME NEW i \in Held, NEW r \in Rects, NEW q \in Rects, orgfx_put_bitmap_text(i, <<r, q>>)
      PROVE  GfxInv'
  <2> DEFINE todo == [k \in 1 .. 2 |-> [image |-> i, rect |-> <<r, q>>[k], color |-> 0]]
  <2>1. Ready /\ hw' = Textured(hw, i) /\ soft' = sw_Textured(soft, i)
        /\ host' = [Counted EXCEPT !.todo = todo] /\ engine' = engine /\ vga' = vga
    BY <1>2 DEF orgfx_put_bitmap_text, Textured, sw_Textured
  <2>2. Alike(hw, soft, n) /\ Inside /\ host.at = "ready" /\ n \in Nat
    BY <2>1, ReadyInside, Insides, GfxNumbers
  <2>3. i \in 1 .. n /\ i \in 0 .. n /\ r \in Rectangle /\ q \in Rectangle
    BY <2>2, RectsTyped DEF Held
  <2>4. todo \in Seq(Piece(n))
    <3>1. ASSUME NEW k \in 1 .. 2
          PROVE  todo[k] \in Piece(n)
      <4>1. <<r, q>>[k] \in Rectangle
        BY <2>3
      <4> QED BY <2>3, <4>1 DEF Piece, Numbers
    <3> DEFINE P == Piece(n)
    <3>2. todo \in [1 .. 2 -> P]
      BY <3>1
    <3> HIDE DEF todo, P
    <3>3. todo \in Seq(P)
      BY <3>2, SMTT(30)
    <3> QED BY <3>3 DEF P
  <2> HIDE DEF todo
  <2>5. Alike(hw', soft', n) /\ Keeps(hw', soft', hw, soft)
    BY <2>1, <2>2, <2>3, Texturing
  <2> QED BY <1>1, <2>1, <2>2, <2>4, <2>5, SettingKeeps DEF Settles, Keeps
<1>3. ASSUME NEW m \in 1 .. Pieces, NEW textured \in BOOLEAN, NEW v \in Values, orgfx3d_draw_mesh(m, textured, v)
      PROVE  GfxInv'
  <2> DEFINE todo == [k \in 1 .. m |-> [image |-> 0, rect |-> <<0, 0, 0, 0>>, color |-> v]]
             h1 == orgfx_enable_tex0(hw, textured)
             s1 == sw_enable_tex0(soft, textured)
             h2 == orgfx_enable_transform(h1, TRUE)
             s2 == [s1 EXCEPT !.transform = TRUE]
  <2>1. Ready /\ hw' = orgfx_set(h2, "matrix", v) /\ soft' = sw_set(s2, "matrix", v)
        /\ host' = [Counted EXCEPT !.todo = todo] /\ engine' = engine /\ vga' = vga
    BY <1>3 DEF orgfx3d_draw_mesh
  <2>2. Alike(hw, soft, n) /\ Inside /\ host.at = "ready" /\ n \in Nat
    BY <2>1, ReadyInside, Insides, GfxNumbers
  <2>3. todo \in Seq(Piece(n))
    <3> DEFINE P == Piece(n)
    <3>1. [image |-> 0, rect |-> <<0, 0, 0, 0>>, color |-> v] \in P /\ m \in Nat
      BY <2>2, GfxAssumption DEF Piece, Numbers, Rectangle
    <3>2. todo \in [1 .. m -> P]
      BY <3>1
    <3> HIDE DEF todo, P
    <3>3. todo \in Seq(P)
      BY <3>1, <3>2
    <3> QED BY <3>3 DEF P
  <2> HIDE DEF todo
  <2>4. Alike(h1, s1, n) /\ Keeps(h1, s1, hw, soft)
    BY <2>2, EnableTextures DEF Alike
  <2> HIDE DEF h1, s1
  <2>5. Alike(h2, s2, n) /\ Keeps(h2, s2, hw, soft)
    BY <2>4, SetTransform, KeepsTwice
  <2> HIDE DEF h2, s2
  <2>6. "matrix" \in ValueRegisters /\ v \in Numbers
    BY DEF ValueRegisters, Numbers
  <2>7. Alike(hw', soft', n) /\ Keeps(hw', soft', hw, soft)
    BY <2>1, <2>5, <2>6, SetValues, KeepsTwice
  <2> QED BY <1>1, <2>1, <2>2, <2>3, <2>7, SettingKeeps DEF Settles, Keeps
<1> QED BY <1>2, <1>3 DEF Sequence

\* Before orgfxplus_init there is nothing to do.
LEMMA StartIdle ==
    ASSUME GfxInv, host.at = "start"
    PROVE  host.todo = <<>> /\ ~engine.busy /\ ~vga.switch
BY DEF GfxInv, AtStart, GfxInit

LEMMA PieceKeeps ==
    ASSUME GfxInv, NextPiece
    PROVE  GfxInv'
<1> DEFINE n == host.images
           p == Head(host.todo)
           h == IF p.image = 0 THEN orgfx_set(hw, "color", p.color) ELSE orgfx_srcrect(Textured(hw, p.image), p.rect)
           s == IF p.image = 0 THEN sw_set(soft, "color", p.color) ELSE sw_srcrect(sw_Textured(soft, p.image), p.rect)
           last == p.image = 0 /\ Len(host.todo) = 1
<1>1. /\ host.todo # <<>> /\ ~engine.busy
      /\ hw' = IF last THEN orgfx_enable_transform(Primitive(h), FALSE) ELSE Primitive(h)
      /\ soft' = IF last THEN [s EXCEPT !.transform = FALSE] ELSE s
      /\ Start(h) /\ host' = [host EXCEPT !.todo = Tail(host.todo)] /\ vga' = vga
  BY DEF NextPiece, orgfx_wait
<1>2. Inside
  BY <1>1, StartIdle DEF Inside
<1>3. GfxTypeOK /\ Paging /\ Alike(hw, soft, n) /\ n \in 0 .. NUM_SURFACES
  BY <1>2, Insides
<1>4. host.at = "ready"
  BY <1>1, <1>2, <1>3 DEF Inside, Paging, GfxTypeOK
<1>5. host.todo \in Seq(Piece(n))
  BY <1>3 DEF GfxTypeOK
<1>6. p \in Piece(n) /\ Tail(host.todo) \in Seq(Piece(n))
  <2> DEFINE P == Piece(n)
  <2>1. host.todo \in Seq(P)
    BY <1>5
  <2> HIDE DEF P
  <2>2. Head(host.todo) \in P /\ Tail(host.todo) \in Seq(P)
    BY <1>1, <2>1
  <2> QED BY <2>2 DEF P
<1>7. p.image \in 0 .. n /\ p.rect \in Rectangle /\ p.color \in Numbers
  BY <1>6 DEF Piece
<1> HIDE DEF p
<1>8. Alike(h, s, n) /\ Keeps(h, s, hw, soft)
  <2>1. CASE p.image = 0
    BY <1>3, <1>7, <2>1, SetValues DEF ValueRegisters
  <2>2. CASE p.image # 0
    <3>1. p.image \in 1 .. n
      BY <1>3, <1>7, <2>2, GfxNumbers
    <3> QED BY <1>3, <1>7, <2>2, <3>1, Sections
  <2> QED BY <2>1, <2>2
<1> HIDE DEF h, s, last
<1>9. Alike(Primitive(h), s, n) /\ Keeps(Primitive(h), s, hw, soft)
  BY <1>8, Primitives, KeepsTwice
<1>10. Alike(hw', soft', n) /\ Keeps(hw', soft', hw, soft)
  BY <1>1, <1>9, SetTransform, KeepsTwice
<1>11. hw'.reg.target = hw.reg.target /\ h.reg.target = hw.reg.target
  BY <1>8, <1>10 DEF Keeps, SamePlace, SameDriver
<1>12. engine' = [busy |-> TRUE, from |-> hw'.reg.target.addr, upto |-> End(hw'.reg.target)]
  BY <1>1, <1>11 DEF Start, End
<1>13. host' \in [at : {"ready"}, todo : Seq(Piece(n)), calls : Nat, images : {n}, apart : {host.apart}]
  BY <1>1, <1>3, <1>4, <1>6 DEF GfxTypeOK
<1> QED BY <1>1, <1>2, <1>4, <1>10, <1>12, <1>13, SettingKeeps DEF Settles, Keeps

LEMMA PagesKeep ==
    ASSUME GfxInv, orgfxplus_flip \/ FrameEnds \/ EngineDone
    PROVE  GfxInv'
<1> DEFINE n == host.images
<1>1. hw' = hw /\ soft' = soft /\ host'.images = n /\ host'.todo = host.todo /\ host'.apart = host.apart
      /\ GfxTypeOK' /\ Inside /\ vga'.vbarb = vga.vbarb /\ host'.at # "start"
  <2>1. CASE orgfxplus_flip
    <3>1. Ready /\ vga' = [vga EXCEPT !.switch = TRUE] /\ host' = [Counted EXCEPT !.at = "flip"]
          /\ hw' = hw /\ soft' = soft /\ engine' = engine
      BY <2>1 DEF orgfxplus_flip
    <3>2. Inside /\ GfxTypeOK
      BY <3>1, ReadyInside, Insides
    <3>3. vga' \in [vbara : {0}, vbarb : Nat, page : {0, 1}, switch : BOOLEAN] /\ vga'.vbarb = vga.vbarb
      BY <3>1, <3>2 DEF GfxTypeOK
    <3>4. /\ host'.images = n /\ host'.todo = host.todo /\ host'.apart = host.apart /\ host'.at = "flip"
          /\ host' \in [at : {"start", "ready", "flip"}, todo : Seq(Piece(n)), calls : Nat,
                       images : 0 .. NUM_SURFACES, apart : BOOLEAN]
      <4>1. Counted \in [at : {"ready"}, todo : Seq(Piece(n)), calls : Nat, images : {n}, apart : {host.apart}]
            /\ Counted.todo = host.todo /\ host.apart \in BOOLEAN /\ n \in 0 .. NUM_SURFACES
        BY <3>1, <3>2, CountedHost DEF Counted, GfxTypeOK
      <4> DEFINE P == Seq(Piece(n))
                 H == [at : {"start", "ready", "flip"}, todo : P, calls : Nat,
                       images : 0 .. NUM_SURFACES, apart : BOOLEAN]
      <4> HIDE DEF P
      <4>2. Counted \in [at : {"ready"}, todo : P, calls : Nat, images : {n}, apart : {host.apart}]
        BY <4>1 DEF P
      <4>3. host' \in H /\ host'.images = n /\ host'.todo = host.todo /\ host'.apart = host.apart
            /\ host'.at = "flip"
        BY <3>1, <4>1, <4>2
      <4> QED BY <4>3 DEF P
    <3> QED BY <3>1, <3>2, <3>3, <3>4 DEF GfxTypeOK
  <2>2. CASE FrameEnds
    <3>1. vga.switch /\ vga' = [vga EXCEPT !.page = 1 - vga.page, !.switch = FALSE]
          /\ hw' = hw /\ soft' = soft /\ engine' = engine /\ host' = host
      BY <2>2 DEF FrameEnds
    <3>2. Inside
      BY <3>1, StartIdle DEF Inside
    <3>3. GfxTypeOK /\ host.at # "start"
      BY <3>2, Insides DEF Inside
    <3>4. vga' \in [vbara : {0}, vbarb : Nat, page : {0, 1}, switch : BOOLEAN] /\ vga'.vbarb = vga.vbarb
      <4>1. vga \in [vbara : {0}, vbarb : Nat, page : {0, 1}, switch : BOOLEAN]
        BY <3>3 DEF GfxTypeOK
      <4>2. 1 - vga.page \in {0, 1}
        BY <4>1
      <4> QED BY <3>1, <4>1, <4>2
    <3> QED BY <3>1, <3>2, <3>3, <3>4 DEF GfxTypeOK
  <2>3. CASE EngineDone
    <3>1. engine.busy /\ engine' = [engine EXCEPT !.busy = FALSE]
          /\ hw' = hw /\ soft' = soft /\ vga' = vga /\ host' = host
      BY <2>3 DEF EngineDone
    <3>2. Inside
      BY <3>1, StartIdle DEF Inside
    <3>3. GfxTypeOK /\ host.at # "start"
      BY <3>2, Insides DEF Inside
    <3> QED BY <3>1, <3>2, <3>3 DEF GfxTypeOK
  <2> QED BY <2>1, <2>2, <2>3
<1>2. /\ Alike(hw, soft, n) /\ (~host.apart => TargetsAgree(hw, soft)) /\ GfxTypeOK /\ Paging
      /\ (hw.double => Layout(hw, n) /\ Hidden(hw, n) /\ vga.vbarb = ScreenSize + Far)
      /\ hw.activeScreen \in {0, 1}
  BY <1>1, Insides DEF GfxTypeOK, Driver
<1>3. Paging' /\ ~engine'.busy
  <2>1. CASE orgfxplus_flip
    <3>1. Ready /\ ~engine.busy /\ vga' = [vga EXCEPT !.switch = TRUE] /\ host' = [Counted EXCEPT !.at = "flip"]
          /\ engine' = engine
      BY <2>1 DEF orgfxplus_flip, orgfx_wait
    <3>2. host.at = "ready" /\ host.todo = <<>>
      BY <3>1, ReadyInside
    <3>3. vga'.page = vga.page /\ vga'.switch /\ host'.at = "flip"
      BY <1>2, <3>1 DEF GfxTypeOK, Counted
    <3> QED BY <1>1, <1>2, <3>1, <3>2, <3>3 DEF Paging
  <2>2. CASE FrameEnds
    <3>1. vga.switch /\ vga' = [vga EXCEPT !.page = 1 - vga.page, !.switch = FALSE]
          /\ engine' = engine /\ host' = host
      BY <2>2 DEF FrameEnds
    <3>2. host.at = "flip" /\ vga.page = 1 - hw.activeScreen /\ ~engine.busy
      BY <1>1, <1>2, <3>1 DEF Paging, Inside, GfxTypeOK
    <3>3. ~vga'.switch /\ vga'.page = 1 - vga.page
      BY <1>2, <3>1 DEF GfxTypeOK
    <3>4. 1 - (1 - hw.activeScreen) = hw.activeScreen
      BY <1>2
    <3> QED BY <1>1, <1>2, <3>1, <3>2, <3>3, <3>4 DEF Paging
  <2>3. CASE EngineDone
    <3>1. engine.busy /\ engine' = [engine EXCEPT !.busy = FALSE] /\ vga' = vga /\ host' = host
      BY <2>3 DEF EngineDone
    <3>2. ~engine'.busy /\ host.at # "flip"
      BY <1>2, <3>1 DEF GfxTypeOK, Paging
    <3> QED BY <1>1, <1>2, <3>1, <3>2 DEF Paging
  <2> QED BY <2>1, <2>2, <2>3
<1>4. NoTearing'
  BY <1>3 DEF NoTearing
<1> QED BY <1>1, <1>2, <1>3, <1>4, InsideNext

-----------------------------------------------------------------------------
(* The start: the screens, and a depth buffer behind them.                   *)

\* A surface for depths joins the tables; it is neither drawn on nor a texture.
LEMMA DepthBuffers ==
    ASSUME NEW h, NEW s, NEW n, Alike(h, s, n), TargetsAgree(h, s), h.target # depthBuffer,
           NEW g, NEW t,
           g = orgfx_bind_zbuffer(orgfx_init_surface(h, depthBuffer, Screen.w, Screen.h), depthBuffer),
           t = [sw_init_surface(s, depthBuffer, Screen.w, Screen.h)
                  EXCEPT !.zbuf = sw_init_surface(s, depthBuffer, Screen.w, Screen.h).addr[depthBuffer]]
    PROVE  /\ Alike(g, t, n) /\ TargetsAgree(g, t) /\ g.base = h.base + ScreenSize
           /\ \A x \in Names : x # depthBuffer => g.surf[x] = h.surf[x]
           /\ g.double = h.double /\ g.activeScreen = h.activeScreen /\ g.target = h.target
<1> DEFINE k == Len(s.sizes) + 1
           b == [addr |-> h.base, w |-> Screen.w, h |-> Screen.h]
           e == [w |-> Screen.w, h |-> Screen.h]
           d == depthBuffer
<1>1. h \in Driver /\ s \in Software /\ n \in 0 .. NUM_SURFACES /\ h.tex0 \in 1 .. n \cup {None}
      /\ Tables(h, s, n) /\ TexturesBound(h, s) /\ TexturesAgree(h, s) /\ EnablesAgree(h, s)
  BY DEF Alike, Bound, Tables
<1>2. /\ d \in Names /\ Screen.w \in Nat /\ Screen.h \in Nat /\ Size(Screen.w, Screen.h) = ScreenSize
      /\ ScreenSize \in Nat /\ n \in Nat /\ screen0 \in Names /\ screen0 # d
      /\ \A x \in 0 .. n : x \in Names /\ x # d
  <2>1. n \in Nat /\ n <= NUM_SURFACES /\ NUM_SURFACES \in Nat
    BY <1>1, GfxNumbers
  <2>2. \A x \in 0 .. n : x \in 0 .. NUM_SURFACES
    BY <2>1
  <2> QED BY <2>1, <2>2, GfxNumbers, ScreenSizes
<1>3. s.sizes \in Seq([w : Nat, h : Nat]) /\ h.base \in Nat /\ h.surf \in [Names -> Surface]
      /\ s.addr \in [Names -> Nat] /\ k \in Nat
  <2>1. s.sizes \in Seq([w : Nat, h : Nat]) /\ h.base \in Nat /\ h.surf \in [Names -> Surface]
        /\ s.addr \in [Names -> Nat]
    BY <1>1 DEF Driver, Software
  <2> QED BY <2>1
<1>4. b \in Surface /\ e \in [w : Nat, h : Nat] /\ h.base + ScreenSize \in Nat
  <2>1. Screen.w \in Nat /\ Screen.h \in Nat /\ h.base \in Nat /\ ScreenSize \in Nat
    BY <1>2, <1>3
  <2> QED BY <2>1 DEF Surface
<1>5. /\ Append(s.sizes, e) \in Seq([w : Nat, h : Nat]) /\ DOMAIN Append(s.sizes, e) = 1 .. k
      /\ DOMAIN s.sizes = 1 .. k - 1 /\ \A x \in DOMAIN s.sizes : x \in DOMAIN Append(s.sizes, e) /\ Append(s.sizes, e)[x] = s.sizes[x]
  <2> HIDE DEF e, k
  <2> DEFINE S == [w : Nat, h : Nat]
  <2>1. s.sizes \in Seq(S) /\ e \in S
    BY <1>3, <1>4
  <2> HIDE DEF S
  <2>2. /\ Append(s.sizes, e) \in Seq(S) /\ DOMAIN Append(s.sizes, e) = 1 .. Len(s.sizes) + 1
        /\ DOMAIN s.sizes = 1 .. Len(s.sizes) + 1 - 1
        /\ \A x \in DOMAIN s.sizes : x \in DOMAIN Append(s.sizes, e) /\ Append(s.sizes, e)[x] = s.sizes[x]
    BY <2>1, Appended
  <2> QED BY <2>2 DEF S, k
<1> HIDE DEF k, d
<1>6. g = [h EXCEPT !.surf = [h.surf EXCEPT ![d] = b], !.base = h.base + ScreenSize,
                    !.zbuf = d, !.reg = [h.reg EXCEPT !.zbuf = h.base]]
  <2>1. orgfx_init_surface(h, d, Screen.w, Screen.h)
          = [h EXCEPT !.surf = [h.surf EXCEPT ![d] = b], !.base = h.base + ScreenSize]
    BY <1>1, <1>2, <1>3 DEF orgfx_init_surface, Driver
  <2> DEFINE f == [h EXCEPT !.surf = [h.surf EXCEPT ![d] = b], !.base = h.base + ScreenSize]
  <2>2. f.surf[d].addr = h.base /\ f.reg = h.reg
    BY <1>1, <1>2, <1>3 DEF Driver
  <2>3. g = [f EXCEPT !.zbuf = d, !.reg.zbuf = f.surf[d].addr]
    BY <2>1 DEF orgfx_bind_zbuffer, d
  <2>4. f \in [base : Nat, surf : [Names -> Surface], double : BOOLEAN, activeScreen : {0, 1},
               target : Names \cup {None}, tex0 : Names \cup {None}, zbuf : Names \cup {None},
               ctrl : SUBSET Controls, transform : BOOLEAN, reg : Registers]
    BY <1>1, <1>2, <1>3, <1>4 DEF Driver
  <2> QED BY <1>1, <2>2, <2>3, <2>4 DEF Driver
<1>7. t = [s EXCEPT !.sizes = Append(s.sizes, e), !.addr = [s.addr EXCEPT ![d] = k], !.zbuf = k]
  <2> DEFINE f == sw_init_surface(s, d, Screen.w, Screen.h)
  <2>1. f = [s EXCEPT !.sizes = Append(s.sizes, e), !.addr = [s.addr EXCEPT ![d] = k]]
    BY <1>1, <1>2, <1>3 DEF sw_init_surface, Software, k
  <2>2. f.addr[d] = k
    BY <1>1, <1>2, <1>3, <2>1 DEF Software
  <2> QED BY <1>1, <2>1, <2>2 DEF Software, d
<1> HIDE DEF b, e
<1> DEFINE F == [h.surf EXCEPT ![d] = b]
           R == [h.reg EXCEPT !.zbuf = h.base]
           Z == Append(s.sizes, e)
           A == [s.addr EXCEPT ![d] = k]
<1>0. F \in [Names -> Surface] /\ R \in Registers /\ Z \in Seq([w : Nat, h : Nat]) /\ A \in [Names -> Nat]
  <2>1. h.reg \in Registers
    BY <1>1 DEF Driver
  <2>2. R \in Registers
    BY <1>3, <2>1 DEF Registers
  <2>3. F \in [Names -> Surface] /\ A \in [Names -> Nat]
    BY <1>2, <1>3, <1>4
  <2> QED BY <1>5, <2>2, <2>3
<1>8. g \in Driver /\ g.base = h.base + ScreenSize /\ g.surf = [h.surf EXCEPT ![d] = b]
      /\ g.double = h.double /\ g.activeScreen = h.activeScreen /\ g.target = h.target
      /\ g.tex0 = h.tex0 /\ g.ctrl = h.ctrl /\ g.transform = h.transform
      /\ g.reg = [h.reg EXCEPT !.zbuf = h.base]
  <2>1. g = [h EXCEPT !.surf = F, !.base = h.base + ScreenSize, !.zbuf = d, !.reg = R]
    BY <1>6
  <2> HIDE DEF F, R
  <2>2. g \in Driver /\ g.base = h.base + ScreenSize /\ g.surf = F
        /\ g.double = h.double /\ g.activeScreen = h.activeScreen /\ g.target = h.target
        /\ g.tex0 = h.tex0 /\ g.ctrl = h.ctrl /\ g.transform = h.transform /\ g.reg = R
    BY <1>0, <1>1, <1>2, <1>4, <2>1 DEF Driver
  <2> QED BY <2>2 DEF F, R
<1>9. /\ g.reg.target = h.reg.target /\ g.reg.tex0 = h.reg.tex0 /\ g.reg.clip = h.reg.clip
      /\ g.reg.src = h.reg.src /\ g.reg.ctrl = h.reg.ctrl /\ g.reg.color = h.reg.color
      /\ g.reg.colorkey = h.reg.colorkey /\ g.reg.alpha = h.reg.alpha /\ g.reg.matrix = h.reg.matrix
  BY <1>1, <1>8 DEF Driver, Registers
<1>10. t \in Software /\ t.sizes = Append(s.sizes, e) /\ t.addr = [s.addr EXCEPT ![d] = k] /\ t.target = s.target
      /\ t.clip = s.clip /\ t.src = s.src /\ t.tex0 = s.tex0 /\ t.on = s.on /\ t.transform = s.transform
      /\ t.val = s.val
  <2>1. t = [s EXCEPT !.sizes = Z, !.addr = A, !.zbuf = k]
    BY <1>7
  <2> HIDE DEF Z, A
  <2>2. t \in Software /\ t.sizes = Z /\ t.addr = A /\ t.target = s.target
        /\ t.clip = s.clip /\ t.src = s.src /\ t.tex0 = s.tex0 /\ t.on = s.on /\ t.transform = s.transform
        /\ t.val = s.val
    BY <1>0, <1>1, <1>3, <2>1 DEF Software
  <2> QED BY <2>2 DEF Z, A
<1> HIDE DEF F, R, Z, A
<1>11. \A x \in Names : x # d => g.surf[x] = h.surf[x] /\ t.addr[x] = s.addr[x]
  BY <1>2, <1>3, <1>8, <1>10
<1>12. \A x \in DOMAIN s.sizes : x \in DOMAIN t.sizes /\ t.sizes[x] = s.sizes[x]
  BY <1>5, <1>10
<1>13. Tables(g, t, n)
  <2>1. ASSUME NEW x \in 0 .. n
        PROVE  t.addr[x] \in DOMAIN t.sizes
               /\ t.sizes[t.addr[x]] = [w |-> g.surf[x].w, h |-> g.surf[x].h]
    <3>1. s.addr[x] \in DOMAIN s.sizes /\ s.sizes[s.addr[x]] = [w |-> h.surf[x].w, h |-> h.surf[x].h]
      BY <1>1 DEF Tables
    <3>2. t.addr[x] = s.addr[x] /\ g.surf[x] = h.surf[x]
      BY <1>2, <1>11
    <3> QED BY <1>12, <3>1, <3>2
  <2>2. g.surf[screen0] = [addr |-> 0, w |-> Screen.w, h |-> Screen.h]
    BY <1>1, <1>2, <1>11 DEF Tables
  <2> QED BY <1>1, <1>8, <1>10, <1>12, <2>1, <2>2 DEF Tables
<1>14. TexturesBound(g, t) /\ TexturesAgree(g, t)
  <2>1. CASE h.tex0 = None
    BY <1>1, <1>8, <1>10, <2>1 DEF TexturesBound, TexturesAgree
  <2>2. CASE h.tex0 # None
    <3>1. h.tex0 \in 0 .. n
      BY <1>1, <1>2, <2>2
    <3>2. g.surf[h.tex0] = h.surf[h.tex0] /\ t.addr[h.tex0] = s.addr[h.tex0]
      BY <1>2, <1>11, <3>1
    <3> QED BY <1>1, <1>8, <1>9, <1>10, <3>2 DEF TexturesBound, TexturesAgree
  <2> QED BY <2>1, <2>2
<1>15. EnablesAgree(g, t)
  BY <1>1, <1>8, <1>9, <1>10 DEF EnablesAgree
<1>16. TargetsAgree(g, t)
  <2>1. h.target \in Names /\ h.target # d /\ Shared(h.target) \in Names /\ Shared(h.target) # d
    BY <1>1, <1>2 DEF Tables, Shared, d
  <2>2. g.surf[h.target] = h.surf[h.target] /\ t.addr[Shared(h.target)] = s.addr[Shared(h.target)]
    BY <1>11, <2>1
  <2> QED BY <1>8, <1>9, <1>10, <2>2 DEF TargetsAgree
<1> QED BY <1>1, <1>8, <1>10, <1>11, <1>13, <1>14, <1>15, <1>16 DEF Alike, Bound, d

\* A driver with nothing bound and nothing set.
Fresh(h) ==
    /\ h \in Driver /\ h.activeScreen = 1 /\ h.tex0 = None /\ h.ctrl = {} /\ h.reg.ctrl = {} /\ h.transform = FALSE
    /\ h.reg.color = 0 /\ h.reg.colorkey = 0 /\ h.reg.alpha = 0 /\ h.reg.matrix = 0

LEMMA Starts ==
    ASSUME GfxInit
    PROVE  /\ Fresh(hw) /\ hw.base = 0 /\ soft \in Software /\ soft.sizes = <<>> /\ soft.tex0 = 0 /\ soft.on = {}
           /\ soft.transform = FALSE /\ soft.val = [color |-> 0, colorkey |-> 0, alpha |-> 0, matrix |-> 0]
           /\ host.at = "start" /\ host.todo = <<>> /\ host.images = 0 /\ host.apart = FALSE
           /\ vga.page = 0 /\ vga.switch = FALSE /\ ~engine.busy /\ GfxTypeOK
<1> DEFINE r == [target |-> [addr |-> 0, w |-> Screen.w, h |-> Screen.h], tex0 |-> NoSurface, zbuf |-> 0,
                 clip |-> <<0, 0, 0, 0>>, src |-> <<0, 0, 0, 0>>, ctrl |-> {}, moved |-> FALSE,
                 color |-> 0, colorkey |-> 0, alpha |-> 0, matrix |-> 0]
           F == [s \in Names |-> NoSurface]
           A == [s \in Names |-> 0]
           v == [color |-> 0, colorkey |-> 0, alpha |-> 0, matrix |-> 0]
<1>1. NoSurface \in Surface /\ <<0, 0, 0, 0>> \in Rectangle /\ 0 \in Numbers /\ {} \in SUBSET Controls
  BY DEF Surface, NoSurface, Rectangle, Numbers
<1>2. r \in Registers /\ r.ctrl = {} /\ r.color = 0 /\ r.colorkey = 0 /\ r.alpha = 0 /\ r.matrix = 0
  BY <1>1, GfxNumbers DEF Registers, Surface
<1>3. F \in [Names -> Surface] /\ A \in [Names -> Nat]
      /\ v \in [color : Numbers, colorkey : Numbers, alpha : Numbers, matrix : Numbers]
  BY <1>1
<1>4. /\ hw = [base |-> 0, surf |-> F, double |-> FALSE, activeScreen |-> 1, target |-> None, tex0 |-> None,
               zbuf |-> None, ctrl |-> {}, transform |-> FALSE, reg |-> r]
      /\ soft = [sizes |-> <<>>, addr |-> A, target |-> 0, tex0 |-> 0, zbuf |-> 0, on |-> {},
                 transform |-> FALSE, clip |-> <<0, 0, 0, 0>>, src |-> <<0, 0, 0, 0>>, val |-> v]
      /\ engine = [busy |-> FALSE, from |-> 0, upto |-> 0]
      /\ vga = [vbara |-> 0, vbarb |-> 0, page |-> 0, switch |-> FALSE]
      /\ host = [at |-> "start", todo |-> <<>>, calls |-> 0, images |-> 0, apart |-> FALSE]
  BY DEF GfxInit
<1> HIDE DEF r, F, A, v
<1>5. Fresh(hw) /\ hw.base = 0
  BY <1>1, <1>2, <1>3, <1>4 DEF Fresh, Driver
<1>6. /\ soft \in Software /\ soft.sizes = <<>> /\ soft.tex0 = 0 /\ soft.on = {}
      /\ soft.transform = FALSE /\ soft.val = v
  <2>1. <<>> \in Seq([w : Nat, h : Nat]) /\ {} \in SUBSET Enables
    OBVIOUS
  <2> QED BY <1>1, <1>3, <1>4, <2>1 DEF Software
<1>7. engine \in [busy : BOOLEAN, from : Int, upto : Int] /\ ~engine.busy
      /\ vga \in [vbara : {0}, vbarb : Nat, page : {0, 1}, switch : BOOLEAN] /\ vga.page = 0 /\ vga.switch = FALSE
  BY <1>4
<1>8. /\ host.at = "start" /\ host.todo = <<>> /\ host.images = 0 /\ host.apart = FALSE
      /\ host \in [at : {"start", "ready", "flip"}, todo : Seq(Piece(host.images)), calls : Nat,
                   images : 0 .. NUM_SURFACES, apart : BOOLEAN]
  <2>1. host.at = "start" /\ host.todo = <<>> /\ host.images = 0 /\ host.apart = FALSE
    BY <1>4
  <2> DEFINE P == Seq(Piece(host.images))
  <2>2. <<>> \in P
    OBVIOUS
  <2> HIDE DEF P
  <2>3. host \in [at : {"start", "ready", "flip"}, todo : P, calls : Nat, images : 0 .. NUM_SURFACES, apart : BOOLEAN]
    BY <1>4, <2>2, GfxNumbers
  <2> QED BY <2>1, <2>3 DEF P
<1> QED BY <1>5, <1>6, <1>7, <1>8 DEF GfxTypeOK, Fresh, v

\* One surface more in a fresh driver.
LEMMA FreshSurface ==
    ASSUME NEW h, Fresh(h), NEW x \in Names
    PROVE  LET g == orgfx_init_surface(h, x, Screen.w, Screen.h)
           IN /\ Fresh(g) /\ g.base = h.base + ScreenSize /\ g.double = h.double
              /\ g.surf = [h.surf EXCEPT ![x] = [addr |-> h.base, w |-> Screen.w, h |-> Screen.h]]
<1> DEFINE g == orgfx_init_surface(h, x, Screen.w, Screen.h)
           b == [addr |-> h.base, w |-> Screen.w, h |-> Screen.h]
           F == [h.surf EXCEPT ![x] = b]
<1>1. h \in Driver /\ h.base \in Nat /\ h.surf \in [Names -> Surface] /\ ScreenSize \in Nat
      /\ Screen.w \in Nat /\ Screen.h \in Nat /\ Size(Screen.w, Screen.h) = ScreenSize
  BY GfxNumbers, ScreenSizes DEF Fresh, Driver
<1>2. F \in [Names -> Surface] /\ h.base + ScreenSize \in Nat
  BY <1>1 DEF Surface
<1>3. g = [h EXCEPT !.surf = F, !.base = h.base + ScreenSize]
  BY <1>1 DEF orgfx_init_surface, Driver
<1> HIDE DEF g, F
<1>4. g \in Driver /\ g.base = h.base + ScreenSize /\ g.surf = F /\ g.double = h.double
      /\ g.activeScreen = h.activeScreen /\ g.tex0 = h.tex0 /\ g.ctrl = h.ctrl /\ g.reg = h.reg
      /\ g.transform = h.transform
  BY <1>1, <1>2, <1>3 DEF Driver
<1> QED BY <1>4 DEF Fresh, F, g

\* The screens: the first at the start of memory, the second, when there is one, far behind.
LEMMA Screens ==
    ASSUME GfxInit, NEW double \in BOOLEAN, NEW h0, NEW h1, NEW s0,
           h0 = orgfx_init_surface([hw EXCEPT !.double = double], screen0, Screen.w, Screen.h),
           h1 = [orgfx_init_surface(h0, screen1, Screen.w, Screen.h)
                   EXCEPT !.surf[screen1].addr = @ + Far],
           s0 = sw_init_surface(soft, screen0, Screen.w, Screen.h)
    PROVE  /\ Free(h0, s0, 0) /\ Stands(h0, s0, screen0) /\ h0.double = double /\ h0.activeScreen = 1
           /\ Free(h1, s0, 0) /\ Stands(h1, s0, screen1) /\ h1.double = double /\ h1.activeScreen = 1
           /\ h1.base = 2 * ScreenSize
           /\ h1.surf[screen1] = [addr |-> ScreenSize + Far, w |-> Screen.w, h |-> Screen.h]
<1> DEFINE a0 == [addr |-> 0, w |-> Screen.w, h |-> Screen.h]
           a1 == [addr |-> ScreenSize + Far, w |-> Screen.w, h |-> Screen.h]
           b1 == [addr |-> ScreenSize, w |-> Screen.w, h |-> Screen.h]
           e == [w |-> Screen.w, h |-> Screen.h]
           d0 == [hw EXCEPT !.double = double]
           g1 == orgfx_init_surface(h0, screen1, Screen.w, Screen.h)
<1>1. /\ Screen.w \in Nat /\ Screen.h \in Nat
      /\ ScreenSize \in Nat /\ Far \in Nat /\ screen0 \in Names /\ screen1 \in Names /\ screen0 # screen1
      /\ 0 \in 0 .. NUM_SURFACES /\ 2 * ScreenSize = ScreenSize + ScreenSize /\ 0 + ScreenSize = ScreenSize
      /\ a0 \in Surface /\ a1 \in Surface /\ b1 \in Surface
  BY GfxNumbers, ScreenSizes DEF Surface
<1>2. Fresh(d0) /\ d0.base = 0 /\ d0.double = double
  BY Starts DEF Fresh, Driver
<1> HIDE DEF d0
<1>3. Fresh(h0) /\ h0.base = ScreenSize /\ h0.double = double /\ h0.surf = [d0.surf EXCEPT ![screen0] = a0]
  <2>1. screen0 \in Names /\ 0 + ScreenSize = ScreenSize
    BY <1>1
  <2>2. /\ Fresh(h0) /\ h0.base = d0.base + ScreenSize /\ h0.double = d0.double
        /\ h0.surf = [d0.surf EXCEPT ![screen0] = [addr |-> d0.base, w |-> Screen.w, h |-> Screen.h]]
    BY <1>2, <2>1, FreshSurface DEF d0
  <2> QED BY <1>2, <2>1, <2>2
<1>4. Fresh(g1) /\ g1.base = 2 * ScreenSize /\ g1.double = double /\ g1.surf = [h0.surf EXCEPT ![screen1] = b1]
  <2>1. screen1 \in Names /\ ScreenSize + ScreenSize = 2 * ScreenSize
    BY <1>1
  <2>2. /\ Fresh(g1) /\ g1.base = h0.base + ScreenSize /\ g1.double = h0.double
        /\ g1.surf = [h0.surf EXCEPT ![screen1] = [addr |-> h0.base, w |-> Screen.w, h |-> Screen.h]]
    BY <1>3, <2>1, FreshSurface
  <2> QED BY <1>3, <2>1, <2>2
<1> HIDE DEF g1
<1>5. h0.surf[screen0] = a0 /\ g1.surf[screen0] = a0 /\ g1.surf[screen1] = b1 /\ b1.addr + Far = ScreenSize + Far
      /\ g1.surf \in [Names -> Surface]
  BY <1>1, <1>2, <1>3, <1>4 DEF Fresh, Driver
<1> DEFINE F == [g1.surf EXCEPT ![screen1] = a1]
<1>6. h1 = [g1 EXCEPT !.surf = F]
  <2>1. [g1.surf[screen1] EXCEPT !.addr = g1.surf[screen1].addr + Far] = a1
    BY <1>5
  <2>2. h1 = [g1 EXCEPT !.surf = [g1.surf EXCEPT ![screen1] =
                [g1.surf[screen1] EXCEPT !.addr = g1.surf[screen1].addr + Far]]]
    BY DEF g1
  <2> QED BY <2>1, <2>2
<1>7. F \in [Names -> Surface] /\ F[screen0] = a0 /\ F[screen1] = a1
  BY <1>1, <1>5
<1> HIDE DEF F
<1>8. Fresh(h1) /\ h1.base = 2 * ScreenSize /\ h1.double = double /\ h1.surf[screen0] = a0 /\ h1.surf[screen1] = a1
  BY <1>4, <1>6, <1>7 DEF Fresh, Driver
<1>9. s0 \in Software /\ s0.sizes = <<e>> /\ s0.addr[screen0] = 1 /\ s0.tex0 = 0 /\ s0.on = {}
      /\ s0.transform = FALSE /\ s0.val = [color |-> 0, colorkey |-> 0, alpha |-> 0, matrix |-> 0]
  <2> DEFINE A == [soft.addr EXCEPT ![screen0] = 1]
             z == <<e>>
  <2>1. soft \in Software /\ soft.sizes = <<>> /\ soft.addr \in [Names -> Nat]
    BY Starts DEF Software
  <2>2. Append(soft.sizes, e) = z /\ Len(soft.sizes) + 1 = 1
    BY <2>1
  <2>3. s0 = [soft EXCEPT !.sizes = z, !.addr = A]
    BY <1>1, <2>1, <2>2 DEF sw_init_surface, Software
  <2>4. A \in [Names -> Nat] /\ A[screen0] = 1 /\ z \in Seq([w : Nat, h : Nat])
    BY <1>1, <2>1
  <2> HIDE DEF A, z
  <2>5. s0 \in Software /\ s0.sizes = z /\ s0.addr = A /\ s0.tex0 = soft.tex0 /\ s0.on = soft.on
        /\ s0.transform = soft.transform /\ s0.val = soft.val
    BY <2>1, <2>3, <2>4 DEF Software
  <2> QED BY <2>4, <2>5, Starts DEF z
<1>10. DOMAIN s0.sizes = {1} /\ s0.sizes[1] = e
  BY <1>9
<1> HIDE DEF e
<1>11. ASSUME NEW h, Fresh(h), h.surf[screen0] = a0
       PROVE  Free(h, s0, 0)
  <2>1. Listed(h, s0, 0)
    <3>1. \A i \in 0 .. 0 : i = screen0
      BY DEF screen0
    <3>2. e = [w |-> h.surf[screen0].w, h |-> h.surf[screen0].h]
      BY <1>11 DEF e
    <3> QED BY <1>9, <1>10, <1>11, <3>1, <3>2 DEF Listed
  <2>2. TexturesBound(h, s0) /\ TexturesAgree(h, s0)
    BY <1>9, <1>11 DEF TexturesBound, TexturesAgree, Fresh
  <2>3. EnablesAgree(h, s0)
    <3>1. {} \cap Enables = {}
      OBVIOUS
    <3>2. /\ h.ctrl = {} /\ h.reg.ctrl = {} /\ s0.on = {} /\ h.transform = FALSE /\ s0.transform = FALSE
          /\ h.reg.color = 0 /\ h.reg.colorkey = 0 /\ h.reg.alpha = 0 /\ h.reg.matrix = 0
      BY <1>9, <1>11 DEF Fresh
    <3>3. s0.val.color = 0 /\ s0.val.colorkey = 0 /\ s0.val.alpha = 0 /\ s0.val.matrix = 0
      BY <1>9
    <3> QED BY <1>9, <3>1, <3>2, <3>3 DEF EnablesAgree
  <2> QED BY <1>1, <1>9, <1>11, <2>1, <2>2, <2>3 DEF Free, Fresh
<1>12. Stands(h0, s0, screen0) /\ Stands(h1, s0, screen1)
  <2>1. Shared(screen0) = screen0 /\ Shared(screen1) = screen0
    BY <1>1 DEF Shared
  <2>2. s0.addr[screen0] \in DOMAIN s0.sizes /\ s0.sizes[s0.addr[screen0]] = e
    BY <1>9, <1>10
  <2>3. e.w = Screen.w /\ e.h = Screen.h
    BY DEF e
  <2>4. h0.surf[screen0] = a0 /\ h1.surf[screen1] = a1 /\ screen0 \in Names /\ screen1 \in Names
    BY <1>1, <1>5, <1>8
  <2> QED BY <2>1, <2>2, <2>3, <2>4 DEF Stands
<1>13. Free(h0, s0, 0) /\ Free(h1, s0, 0)
  BY <1>3, <1>5, <1>8, <1>11
<1> QED BY <1>3, <1>8, <1>12, <1>13 DEF Fresh

\* A target is bound, a depth buffer is put behind, and the program may go on.
LEMMA BeginKeeps ==
    ASSUME GfxInv, Begin
    PROVE  GfxInv'
<1>1. PICK double \in BOOLEAN, zbuffer \in BOOLEAN : orgfxplus_init(double, zbuffer)
  BY DEF Begin
<1> DEFINE h0 == orgfx_init_surface([hw EXCEPT !.double = double], screen0, Screen.w, Screen.h)
           h1 == orgfx_init_surface(h0, screen1, Screen.w, Screen.h)
           far == [h1 EXCEPT !.surf[screen1].addr = @ + Far]
           h2 == IF double THEN orgfx_bind_rendertarget(far, screen1) ELSE orgfx_bind_rendertarget(h0, screen0)
           h3 == orgfx_bind_zbuffer(orgfx_init_surface(h2, depthBuffer, Screen.w, Screen.h), depthBuffer)
           s0 == sw_init_surface(soft, screen0, Screen.w, Screen.h)
           s1 == sw_bind_rendertarget(s0, screen0)
           s2 == sw_init_surface(s1, depthBuffer, Screen.w, Screen.h)
           s3 == [s2 EXCEPT !.zbuf = s2.addr[depthBuffer]]
<1>2. /\ host.at = "start" /\ host' = [host EXCEPT !.at = "ready"] /\ engine' = engine
      /\ hw' = (IF zbuffer THEN h3 ELSE h2) /\ soft' = (IF zbuffer THEN s3 ELSE s1)
      /\ vga' = IF double THEN [vga EXCEPT !.vbarb = h2.surf[screen1].addr] ELSE vga
  BY <1>1 DEF orgfxplus_init
<1>3. GfxInit
  BY <1>2 DEF GfxInv, AtStart
<1>4. /\ Free(h0, s0, 0) /\ Stands(h0, s0, screen0) /\ h0.double = double /\ h0.activeScreen = 1
      /\ Free(far, s0, 0) /\ Stands(far, s0, screen1) /\ far.double = double /\ far.activeScreen = 1
      /\ far.base = 2 * ScreenSize
      /\ far.surf[screen1] = [addr |-> ScreenSize + Far, w |-> Screen.w, h |-> Screen.h]
  BY <1>3, Screens
<1> DEFINE j == IF double THEN screen1 ELSE screen0
<1>5. Shared(screen0) = screen0 /\ Shared(screen1) = screen0 /\ j # depthBuffer
  BY GfxNumbers DEF Shared
<1>6. /\ Alike(h2, s1, 0) /\ TargetsAgree(h2, s1) /\ h2.target = j /\ h2.double = double /\ h2.activeScreen = 1
      /\ double => /\ h2.base = 2 * ScreenSize
                   /\ h2.surf[screen1] = [addr |-> ScreenSize + Far, w |-> Screen.w, h |-> Screen.h]
  <2> HIDE DEF h0, far, s0
  <2>1. CASE double
    <3>1. h2 = orgfx_bind_rendertarget(far, screen1) /\ s1 = sw_bind_rendertarget(s0, Shared(screen1)) /\ j = screen1
      BY <1>5, <2>1
    <3> HIDE DEF h2, s1, j
    <3>2. Alike(h2, s1, 0) /\ TargetsAgree(h2, s1) /\ SameTables(h2, s1, far, s0) /\ h2.target = screen1
      BY <1>4, <3>1, BindTargets
    <3> QED BY <1>4, <3>1, <3>2 DEF SameTables
  <2>2. CASE ~double
    <3>1. h2 = orgfx_bind_rendertarget(h0, screen0) /\ s1 = sw_bind_rendertarget(s0, Shared(screen0)) /\ j = screen0
      BY <1>5, <2>2
    <3> HIDE DEF h2, s1, j
    <3>2. Alike(h2, s1, 0) /\ TargetsAgree(h2, s1) /\ SameTables(h2, s1, h0, s0) /\ h2.target = screen0
      BY <1>4, <3>1, BindTargets
    <3> QED BY <1>4, <2>2, <3>1, <3>2 DEF SameTables
  <2> QED BY <2>1, <2>2
<1> HIDE DEF h2, s1, j
<1>7. /\ Alike(hw', soft', 0) /\ TargetsAgree(hw', soft') /\ hw'.target = j /\ hw'.double = double
      /\ hw'.activeScreen = 1
      /\ double => /\ hw'.base \in {2 * ScreenSize, 2 * ScreenSize + ScreenSize}
                   /\ hw'.surf[screen1] = [addr |-> ScreenSize + Far, w |-> Screen.w, h |-> Screen.h]
  <2>1. CASE zbuffer
    <3>1. hw' = h3 /\ soft' = s3 /\ h2.target # depthBuffer
      BY <1>2, <1>5, <1>6, <2>1
    <3>2. /\ Alike(hw', soft', 0) /\ TargetsAgree(hw', soft') /\ hw'.base = h2.base + ScreenSize
          /\ \A x \in Names : x # depthBuffer => hw'.surf[x] = h2.surf[x]
          /\ hw'.double = h2.double /\ hw'.activeScreen = h2.activeScreen /\ hw'.target = h2.target
      BY <1>6, <3>1, DepthBuffers
    <3>3. screen1 \in Names /\ screen1 # depthBuffer
      BY GfxNumbers
    <3> QED BY <1>6, <3>2, <3>3
  <2>2. CASE ~zbuffer
    BY <1>2, <1>6, <2>2
  <2> QED BY <2>1, <2>2
<1>8. host.todo = <<>> /\ host.images = 0 /\ host.apart = FALSE /\ vga.page = 0 /\ vga.switch = FALSE
      /\ ~engine.busy /\ GfxTypeOK
  BY <1>3, Starts
<1>9. /\ host'.at = "ready" /\ host'.images = 0
      /\ host' \in [at : {"start", "ready", "flip"}, todo : Seq(Piece(host'.images)), calls : Nat,
                   images : 0 .. NUM_SURFACES, apart : BOOLEAN]
  <2>1. host'.at = "ready" /\ host'.images = 0
    BY <1>2, <1>8 DEF GfxTypeOK
  <2> DEFINE P == Seq(Piece(0))
  <2>2. host \in [at : {"start", "ready", "flip"}, todo : P, calls : Nat, images : 0 .. NUM_SURFACES, apart : BOOLEAN]
    BY <1>8 DEF GfxTypeOK
  <2> HIDE DEF P
  <2>3. host' \in [at : {"start", "ready", "flip"}, todo : P, calls : Nat, images : 0 .. NUM_SURFACES, apart : BOOLEAN]
    BY <1>2, <2>2
  <2> QED BY <2>1, <2>3 DEF P
<1>10. /\ vga' \in [vbara : {0}, vbarb : Nat, page : {0, 1}, switch : BOOLEAN]
       /\ vga'.page = 0 /\ vga'.switch = FALSE /\ (double => vga'.vbarb = ScreenSize + Far)
  <2>1. vga \in [vbara : {0}, vbarb : Nat, page : {0, 1}, switch : BOOLEAN]
    BY <1>8 DEF GfxTypeOK
  <2>2. ScreenSize + Far \in Nat
    BY GfxNumbers, ScreenSizes
  <2>3. CASE double
    <3>1. vga' = [vga EXCEPT !.vbarb = ScreenSize + Far]
      BY <1>2, <1>6, <2>3
    <3> QED BY <1>8, <2>1, <2>2, <3>1
  <2>4. CASE ~double
    BY <1>2, <1>8, <2>1, <2>4
  <2> QED BY <2>3, <2>4
<1>11. GfxTypeOK' /\ Paging' /\ NoTearing'
  <2>1. hw' \in Driver /\ soft' \in Software
    BY <1>7 DEF Alike, Bound
  <2>2. Paging'
    BY <1>7, <1>9, <1>10 DEF Paging
  <2> QED BY <1>2, <1>8, <1>9, <1>10, <2>1, <2>2 DEF GfxTypeOK, NoTearing
<1>12. double => Layout(hw', 0) /\ Hidden(hw', 0)
  <2>1. SUFFICES ASSUME double PROVE Layout(hw', 0) /\ Hidden(hw', 0)
    OBVIOUS
  <2>2. ScreenSize \in Nat /\ Share \in Nat /\ 0 * Share = 0
    BY ScreenSizes, Shares
  <2>3. ScreenSize <= hw'.base /\ hw'.base <= 3 * ScreenSize + 0 * Share
    BY <1>7, <2>1, <2>2
  <2>4. Layout(hw', 0)
    BY <1>7, <2>1, <2>3 DEF Layout
  <2>5. hw'.target = Page(hw')
    BY <1>7, <2>1 DEF Page, j
  <2>6. Hidden(hw', 0)
    BY <1>7, <2>5 DEF Hidden, TargetsAgree
  <2> QED BY <2>4, <2>6
<1> QED BY <1>7, <1>9, <1>10, <1>11, <1>12, InsideNext

-----------------------------------------------------------------------------
(* The theorems.                                                            *)

\* A state that is not left keeps what holds of it.
LEMMA GfxStutters ==
    ASSUME GfxInv, UNCHANGED gfxvars
    PROVE  GfxInv'
BY DEF gfxvars, GfxInv, GfxTypeOK, AtStart, GfxInit, DriverRight, NoTearing, Shown, SettingsAgree,
       TargetsAgree, TexturesAgree, EnablesAgree, Tables, Paging, Layout, Hidden, Page

LEMMA GfxStarts == GfxInit => GfxInv
<1> SUFFICES ASSUME GfxInit PROVE GfxInv
  OBVIOUS
<1>1. GfxTypeOK /\ host.at = "start" /\ ~engine.busy
  BY Starts
<1> QED BY <1>1 DEF GfxInv, AtStart, DriverRight, NoTearing, SettingsAgree

LEMMA GfxSteps == GfxInv /\ [GfxNext]_gfxvars => GfxInv'
<1> SUFFICES ASSUME GfxInv, [GfxNext]_gfxvars PROVE GfxInv'
  OBVIOUS
<1>1. CASE Begin
  BY <1>1, BeginKeeps
<1>2. CASE Load
  BY <1>2, LoadKeeps
<1>3. CASE Bind
  BY <1>3, BindKeeps
<1>4. CASE Setting
  BY <1>4, SettingStep
<1>5. CASE Drawing
  BY <1>5, DrawingKeeps
<1>6. CASE Sequence
  BY <1>6, SequenceKeeps
<1>7. CASE NextPiece
  BY <1>7, PieceKeeps
<1>8. CASE orgfxplus_flip \/ FrameEnds \/ EngineDone
  BY <1>8, PagesKeep
<1>9. CASE FlipDone
  BY <1>9, FlipKeeps
<1>10. CASE UNCHANGED gfxvars
  BY <1>10, GfxStutters
<1> QED BY <1>1, <1>2, <1>3, <1>4, <1>5, <1>6, <1>7, <1>8, <1>9, <1>10 DEF GfxNext

\* The inductive invariant of the library under any program: both builds hold the same tables and
\* settings; with two screens every image lies between them, the engine's target is an image or the
\* page that is not shown, and the pages change only while a flip waits for it (orgfx_plus.c).
THEOREM GfxInvariance == GfxSpec => []GfxInv
<1>1. GfxInit => GfxInv
  BY GfxStarts
<1>2. GfxInv /\ [GfxNext]_gfxvars => GfxInv'
  BY GfxSteps
<1> QED BY <1>1, <1>2, PTL DEF GfxSpec

\* Copies, registers and tables of both builds, engine, VGA core and program keep their types.
THEOREM GfxTypeCorrect == GfxSpec => []GfxTypeOK
<1>1. GfxInv => GfxTypeOK
  BY DEF GfxInv
<1> QED BY <1>1, GfxInvariance, PTL

\* The engine draws nothing into the page the VGA core shows (orgfxplus_flip), and a program tested
\* with orgfx_sw.c finds the accelerator of orgfx.c set up the same way: surfaces, rectangles,
\* texture, enables and values, whatever it calls.
THEOREM DriverIsRight == GfxSpec => []DriverRight
<1>1. GfxInv => DriverRight
  BY DEF GfxInv
<1> QED BY <1>1, GfxInvariance, PTL
=============================================================================
