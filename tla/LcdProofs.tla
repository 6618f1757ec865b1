----------------------------- MODULE LcdProofs -----------------------------
(***************************************************************************)
(* Proofs about the LCD halves, for every set of offsets, bytes and        *)
(* columns, those that do not exist included.                              *)
(***************************************************************************)
EXTENDS LcdRefinement, TLAPS

Inv == TypeOK /\ OnlyStraysOverrun /\ Coherent

-----------------------------------------------------------------------------
(* Where bytes and pixels are                                              *)

\* The line a byte is on, and its column.
LEMMA LineOfOffset == \A a \in Offset : Wrapped(a) \in 0 .. 239
  <1> SUFFICES ASSUME NEW a \in Offset PROVE Wrapped(a) \in 0 .. 239
    OBVIOUS
  <1>1. a \in Nat
    BY OffsetAssumption DEF SlotOffset
  <1> QED BY <1>1, SMT DEF Wrapped

LEMMA ColumnRange == \A c \in Existing : c \in 0 .. 19
  BY ColumnAssumption, SMT DEF Existing, Char

\* A byte in its buffer: halves of 4800 bytes, columns of 240.
Spot(base, line, col) == base + line + col * 240

LEMMA SpotRange ==
  ASSUME NEW x \in {0, 4800}, NEW w \in 0 .. 239, NEW c \in 0 .. 19
  PROVE  Spot(x, w, c) \in BufferByte
  <1>1. w + c * 240 \in Nat /\ w + c * 240 < 4800
    BY SMT
  <1> QED BY <1>1, SMT DEF Spot, BufferByte

\* Two bytes share a cell only if they share half, line and column.
LEMMA CellPlace ==
  ASSUME NEW h \in Half, NEW a \in Offset, NEW c \in Existing
  PROVE  /\ Cell(h, a, c) \in Cells /\ Cell(h, a, c) \in BufferByte
         /\ \A g \in Half, b \in Offset, d \in Existing :
              Cell(h, a, c) = Cell(g, b, d) => h = g /\ Wrapped(a) = Wrapped(b) /\ c = d
  <1> DEFINE base(g) == IF g = LCD_R THEN 4800 ELSE 0
  <1>1. Cell(h, a, c) \in Cells
    BY DEF Cells
  <1>2. \A g \in Half : base(g) \in {0, 4800}
    OBVIOUS
  <1>3. \A g, k \in Half : base(g) = base(k) => g = k
    BY SMT DEF Half, LCD_L, LCD_R
  <1>4. \A g \in Half, b \in Offset, d \in Existing : Cell(g, b, d) = Spot(base(g), Wrapped(b), d)
    BY DEF Cell, Spot
  <1> HIDE DEF base
  <1>5. Cell(h, a, c) \in BufferByte
    BY <1>2, <1>4, SpotRange, LineOfOffset, ColumnRange
  <1>6. ASSUME NEW g \in Half, NEW b \in Offset, NEW d \in Existing,
               Cell(h, a, c) = Cell(g, b, d)
        PROVE  h = g /\ Wrapped(a) = Wrapped(b) /\ c = d
    <2>1. Spot(base(h), Wrapped(a), c) = Spot(base(g), Wrapped(b), d)
      BY <1>4, <1>6
    <2>2. base(h) = base(g) /\ Wrapped(a) = Wrapped(b) /\ c = d
      <3> DEFINE x == base(h)
                 y == base(g)
                 w == Wrapped(a)
                 v == Wrapped(b)
      <3>1. /\ x \in {0, 4800} /\ w \in 0 .. 239 /\ c \in 0 .. 19
            /\ y \in {0, 4800} /\ v \in 0 .. 239 /\ d \in 0 .. 19
        BY <1>2, LineOfOffset, ColumnRange
      <3>2. x + w + c * 240 = y + v + d * 240
        BY <2>1 DEF Spot
      <3> HIDE DEF x, y, w, v
      <3>3. w + c * 240 < 4800 /\ v + d * 240 < 4800 /\ w + c * 240 >= 0 /\ v + d * 240 >= 0
        BY <3>1, SMT
      <3>4. x = y
        BY <3>1, <3>2, <3>3, SMT
      <3>5. w + c * 240 = v + d * 240
        BY <3>1, <3>2, <3>4, SMT
      <3>6. c = d
        BY <3>1, <3>5, SMT
      <3>7. w = v
        BY <3>1, <3>5, <3>6, SMT
      <3> QED BY <3>4, <3>6, <3>7 DEF x, y, w, v
    <2> QED BY <1>3, <2>2
  <1> QED BY <1>1, <1>5, <1>6

\* A dot in its buffer: lines of 320 dots, columns of 8.
Dot(n, col, line) == n + col * 8 + line * 320

LEMMA DotRange ==
  ASSUME NEW n \in 0 .. 7, NEW x \in 0 .. 39, NEW w \in 0 .. 239
  PROVE  Dot(n, x, w) \in BufferDot
  <1>1. n + x * 8 + w * 320 \in Nat /\ n + x * 8 + w * 320 < 76800
    BY SMT
  <1> QED BY <1>1 DEF Dot, BufferDot

LEMMA ScreenColumns ==
  /\ \A h \in Half, c \in 0 .. 19 : ScreenColumn(h, c) \in 0 .. 39
  /\ \A h, g \in Half, c, d \in 0 .. 19 :
       ScreenColumn(h, c) = ScreenColumn(g, d) => h = g /\ c = d
  BY SMTT(60) DEF ScreenColumn, Half, LCD_L, LCD_R

\* Two bits share a pixel only if their bytes share a cell and they a place.
LEMMA PixelPlace ==
  ASSUME NEW h \in Half, NEW a \in Offset, NEW c \in Existing, NEW n \in 0 .. 7
  PROVE  /\ Pixel(h, a, c, n) \in Pixels /\ Pixel(h, a, c, n) \in BufferDot
         /\ \A g \in Half, b \in Offset, d \in Existing, m \in 0 .. 7 :
              Pixel(h, a, c, n) = Pixel(g, b, d, m)
                => h = g /\ Wrapped(a) = Wrapped(b) /\ c = d /\ n = m
  <1>1. Pixel(h, a, c, n) \in Pixels
    BY DEF Pixels
  <1>2. \A g \in Half, b \in Offset, d \in Existing, m \in 0 .. 7 :
          Pixel(g, b, d, m) = Dot(m, ScreenColumn(g, d), Wrapped(b))
    BY DEF Pixel, Dot
  <1>3. Pixel(h, a, c, n) \in BufferDot
    <2>1. ScreenColumn(h, c) \in 0 .. 39 /\ Wrapped(a) \in 0 .. 239
      BY LineOfOffset, ColumnRange, ScreenColumns
    <2>2. Dot(n, ScreenColumn(h, c), Wrapped(a)) \in BufferDot
      BY <2>1, DotRange
    <2> QED BY <1>2, <2>2
  <1>4. ASSUME NEW g \in Half, NEW b \in Offset, NEW d \in Existing, NEW m \in 0 .. 7,
               Pixel(h, a, c, n) = Pixel(g, b, d, m)
        PROVE  h = g /\ Wrapped(a) = Wrapped(b) /\ c = d /\ n = m
    <2>1. Dot(n, ScreenColumn(h, c), Wrapped(a)) = Dot(m, ScreenColumn(g, d), Wrapped(b))
      BY <1>2, <1>4
    <2>2. n = m /\ ScreenColumn(h, c) = ScreenColumn(g, d) /\ Wrapped(a) = Wrapped(b)
      <3> DEFINE x == ScreenColumn(h, c)
                 y == ScreenColumn(g, d)
                 w == Wrapped(a)
                 v == Wrapped(b)
      <3>1. x \in 0 .. 39 /\ y \in 0 .. 39 /\ w \in 0 .. 239 /\ v \in 0 .. 239
        BY LineOfOffset, ColumnRange, ScreenColumns
      <3>2. n + x * 8 + w * 320 = m + y * 8 + v * 320
        BY <2>1 DEF Dot
      <3> HIDE DEF x, y, w, v
      <3>3. w = v
        BY <3>1, <3>2, SMT
      <3>4. x = y
        BY <3>1, <3>2, <3>3, SMT
      <3>5. n = m
        BY <3>1, <3>2, <3>3, <3>4, SMT
      <3> QED BY <3>3, <3>4, <3>5 DEF x, y, w, v
    <2> QED BY <2>2, ColumnRange, ScreenColumns
  <1> QED BY <1>1, <1>3, <1>4

LEMMA PlacesInBuffers == Cells \subseteq BufferByte /\ Pixels \subseteq BufferDot
  <1>1. ASSUME NEW i \in Cells PROVE i \in BufferByte
    BY CellPlace DEF Cells
  <1>2. ASSUME NEW p \in Pixels PROVE p \in BufferDot
    <2> PICK h \in Half, a \in Offset, c \in Existing, n \in 0 .. 7 : p = Pixel(h, a, c, n)
      BY DEF Pixels
    <2> QED BY PixelPlace
  <1> QED BY <1>1, <1>2

\* The eight pixels of a byte follow one another.
LEMMA PixelRow ==
  ASSUME NEW h \in Half, NEW a \in Offset, NEW c \in Existing, NEW p \in Pixels
  PROVE  LET first == Pixel(h, a, c, 0)
         IN  /\ \A n \in 0 .. 7 : p = Pixel(h, a, c, n) => p - first = n
             /\ p - first \in 0 .. 7 => p = Pixel(h, a, c, p - first)
  <1> DEFINE first == Pixel(h, a, c, 0)
             x == ScreenColumn(h, c)
             w == Wrapped(a)
  <1>1. p \in Nat
    BY PlacesInBuffers DEF BufferDot
  <1>2. x \in 0 .. 39 /\ w \in 0 .. 239
    BY LineOfOffset, ColumnRange, ScreenColumns
  <1>3. \A n : Pixel(h, a, c, n) = n + x * 8 + w * 320
    BY DEF Pixel
  <1> HIDE DEF x, w
  <1>4. first = 0 + x * 8 + w * 320 /\ first \in Int
    BY <1>2, <1>3, SMT
  <1>5. \A n \in Int : Pixel(h, a, c, n) = n + first
    BY <1>2, <1>3, <1>4, SMT
  <1> HIDE DEF first
  <1>6. \A n \in 0 .. 7 : p = Pixel(h, a, c, n) => p - first = n
    BY <1>1, <1>4, <1>5, SMT
  <1>7. p - first \in 0 .. 7 => p = Pixel(h, a, c, p - first)
    BY <1>1, <1>4, <1>5, SMT
  <1> QED BY <1>6, <1>7 DEF first

\* A byte for an existing column stays in both buffers.
LEMMA StaysInside ==
  ASSUME NEW h \in Half, NEW a \in Offset, NEW c \in Existing
  PROVE  ~Overruns(h, a, c)
  BY CellPlace, PixelPlace DEF Overruns

LEMMA BlankTyped == [i \in Cells |-> 0] \in [Cells -> Char]
  BY SMT DEF Char

\* A cleared byte has no bit set.
LEMMA BlankByte == \A n \in 0 .. 7 : Bit(0, n) # 1
  <1> SUFFICES ASSUME NEW n \in 0 .. 7 PROVE Bit(0, n) # 1
    OBVIOUS
  <1>1. Power2[n] \in {1, 2, 4, 8, 16, 32, 64, 128}
    BY SMT DEF Power2
  <1> QED BY <1>1, SMT DEF Bit

LEMMA Blank ==
  ASSUME NEW bytes, NEW pixels,
         bytes = [i \in Cells |-> 0], pixels = [p \in Pixels |-> "blank"]
  PROVE  \A half \in Half, a \in Offset, col \in Existing, n \in 0 .. 7 :
           pixels[Pixel(half, a, col, n)] = "on" <=> Bit(bytes[Cell(half, a, col)], n) = 1
  <1> SUFFICES ASSUME NEW half \in Half, NEW a \in Offset, NEW col \in Existing,
                      NEW n \in 0 .. 7
               PROVE  pixels[Pixel(half, a, col, n)] # "on"
                      /\ Bit(bytes[Cell(half, a, col)], n) # 1
    OBVIOUS
  <1>1. pixels[Pixel(half, a, col, n)] = "blank"
    BY PixelPlace
  <1>2. bytes[Cell(half, a, col)] = 0
    BY CellPlace
  <1> QED BY <1>1, <1>2, BlankByte

-----------------------------------------------------------------------------

LEMMA InvInit == Init => Inv
  <1> SUFFICES ASSUME Init PROVE Inv
    OBVIOUS
  <1>1. TypeOK
    BY PlacesInBuffers, BlankTyped, ColumnAssumption DEF Init, TypeOK
  <1>2. Coherent
    BY Blank DEF Init, Coherent
  <1> QED BY <1>1, <1>2 DEF Inv, Init, OnlyStraysOverrun

\* A byte goes to its cell, and its bits to their pixels.
LEMMA WriteKeeps ==
  ASSUME Inv, NEW half \in Half, NEW newaddr \in Offset, NEW val \in Byte,
         WriteColumn(half, newaddr, val)
  PROVE  Inv'
  <1> DEFINE here == Cell(half, newaddr, lcd_cas)
             first == Pixel(half, newaddr, lcd_cas, 0)
  <1>1. lcd_cas \in Column /\ val \in Char
    BY ByteAssumption DEF Inv, TypeOK
  <1>2. /\ lcd_dat1bit' = [lcd_dat1bit EXCEPT ![here] = val]
        /\ lcd_datRGBA8888' = [p \in Pixels |->
             IF p - first \in 0 .. 7 THEN Colour(val, p - first) ELSE lcd_datRGBA8888[p]]
        /\ strayed' = (strayed \/ lcd_cas \notin Existing)
        /\ overrun' = Overruns(half, newaddr, lcd_cas)
        /\ UNCHANGED <<lcd_cas, cas_line>>
    BY DEF WriteColumn
  <1>3. TypeOK'
    <2>1. lcd_dat1bit' \in [Cells -> Char]
      BY <1>1, <1>2 DEF Inv, TypeOK
    <2>2. \A v, n : Colour(v, n) \in {"on", "off"}
      BY DEF Colour
    <2>3. lcd_datRGBA8888' \in [Pixels -> {"blank", "on", "off"}]
      BY <1>2, <2>2 DEF Inv, TypeOK
    <2>4. strayed' \in BOOLEAN /\ overrun' \in BOOLEAN
      BY <1>2 DEF Inv, TypeOK, Overruns
    <2> QED BY <1>2, <2>1, <2>3, <2>4, PlacesInBuffers DEF Inv, TypeOK
  <1>4. OnlyStraysOverrun'
    <2>1. CASE lcd_cas \in Existing
      BY <1>2, <2>1, StaysInside DEF OnlyStraysOverrun
    <2>2. CASE lcd_cas \notin Existing
      <3>1. lcd_cas \in 0 .. 255 /\ ~(lcd_cas < 20)
        BY <1>1, <2>2, ColumnAssumption DEF Existing, Char
      <3>2. lcd_cas > 19
        BY <3>1, SMT
      <3> QED BY <1>2, <3>2 DEF OnlyStraysOverrun
    <2> QED BY <2>1, <2>2
  <1>5. ASSUME ~strayed', NEW h \in Half, NEW a \in Offset, NEW c \in Existing,
               NEW n \in 0 .. 7
        PROVE  lcd_datRGBA8888'[Pixel(h, a, c, n)] = "on"
                 <=> Bit(lcd_dat1bit'[Cell(h, a, c)], n) = 1
    <2> DEFINE p == Pixel(h, a, c, n)
    <2>1. ~strayed /\ lcd_cas \in Existing
      BY <1>2, <1>5
    <2>2. p \in Pixels /\ Cell(h, a, c) \in Cells /\ here \in Cells
      BY <2>1, PixelPlace, CellPlace
    <2>3. CASE p - first \in 0 .. 7
      <3>1. p = Pixel(half, newaddr, lcd_cas, p - first)
        BY <2>1, <2>2, <2>3, PixelRow
      <3> HIDE DEF first
      <3>2. h = half /\ Wrapped(a) = Wrapped(newaddr) /\ c = lcd_cas /\ n = p - first
        BY <2>1, <2>3, <3>1, PixelPlace
      <3>3. lcd_datRGBA8888'[p] = Colour(val, n)
        BY <1>2, <2>2, <2>3, <3>2
      <3>4. Cell(h, a, c) = here
        BY <3>2 DEF Cell
      <3>5. lcd_dat1bit'[Cell(h, a, c)] = val
        BY <1>2, <2>2, <3>4 DEF Inv, TypeOK
      <3> QED BY <3>3, <3>5 DEF Colour
    <2>4. CASE p - first \notin 0 .. 7
      <3>1. lcd_datRGBA8888'[p] = lcd_datRGBA8888[p]
        BY <1>2, <2>2, <2>4
      <3>2. Cell(h, a, c) # here
        <4> SUFFICES ASSUME Cell(h, a, c) = here PROVE p - first = n
          BY <2>4
        <4>1. h = half /\ Wrapped(a) = Wrapped(newaddr) /\ c = lcd_cas
          BY <2>1, CellPlace
        <4>2. p = Pixel(half, newaddr, lcd_cas, n)
          BY <4>1 DEF Pixel
        <4> QED BY <2>1, <2>2, <4>2, PixelRow
      <3>3. lcd_dat1bit'[Cell(h, a, c)] = lcd_dat1bit[Cell(h, a, c)]
        BY <1>2, <2>2, <3>2 DEF Inv, TypeOK
      <3> QED BY <2>1, <3>1, <3>3 DEF Inv, Coherent
    <2> QED BY <2>3, <2>4
  <1>6. Coherent'
    BY <1>5 DEF Coherent
  <1> QED BY <1>3, <1>4, <1>6 DEF Inv

LEMMA InvStep == Inv /\ [Next]_vars => Inv'
  <1> SUFFICES ASSUME Inv, [Next]_vars PROVE Inv'
    OBVIOUS
  <1>1. ASSUME ~overrun, NEW half \in Half, NEW newaddr \in Offset,
               lcd_write(half, newaddr)
        PROVE  Inv'
    <2>1. CASE \E val \in Column : SelectColumn(val)
      BY <1>1, <2>1 DEF SelectColumn, Inv, TypeOK, OnlyStraysOverrun, Coherent
    <2> QED BY <1>1, <2>1, WriteKeeps DEF lcd_write
  <1>2. CASE SetCasLine
    BY <1>2 DEF SetCasLine, Inv, TypeOK, OnlyStraysOverrun, Coherent
  <1>3. CASE ~overrun /\ Reset
    <2>1. TypeOK'
      BY <1>3, PlacesInBuffers, BlankTyped, ColumnAssumption DEF Reset, lcd_init, Inv, TypeOK
    <2>2. Coherent'
      BY <1>3, Blank DEF Reset, lcd_init, Coherent
    <2>3. OnlyStraysOverrun'
      BY <1>3 DEF Reset, OnlyStraysOverrun
    <2> QED BY <2>1, <2>2, <2>3 DEF Inv
  <1>4. CASE UNCHANGED vars
    BY <1>4 DEF vars, Inv, TypeOK, OnlyStraysOverrun, Coherent
  <1> QED BY <1>1, <1>2, <1>3, <1>4 DEF Next

(* The latch and the buffers keep their types, whatever byte is latched.   *)
THEOREM TypeCorrect == Spec => []TypeOK
  <1>1. Inv => TypeOK
    BY DEF Inv
  <1> QED BY <1>1, InvInit, InvStep, PTL DEF Spec

(* No byte for an existing column leaves either buffer, at any offset.     *)
THEOREM ColumnsStayInside == Spec => []OnlyStraysOverrun
  <1>1. Inv => OnlyStraysOverrun
    BY DEF Inv
  <1> QED BY <1>1, InvInit, InvStep, PTL DEF Spec

(* The window always shows what the firmware reads back.                   *)
THEOREM ShowsWhatIsRead == Spec => []Coherent
  <1>1. Inv => Coherent
    BY DEF Inv
  <1> QED BY <1>1, InvInit, InvStep, PTL DEF Spec

-----------------------------------------------------------------------------
(* The panel                                                               *)

\* Every line of the panel is the line of an offset, and is its own offset.
LEMMA LineHasOffset ==
  ASSUME NEW l \in Lines
  PROVE  \E a \in Offset : Wrapped(a) = l /\ Wrapped(l) = l
  <1>1. PICK a \in Offset : l = Wrapped(a)
    BY DEF Lines, Wrapped
  <1>2. l \in 0 .. 239
    BY <1>1, LineOfOffset
  <1>3. Wrapped(l) = l
    BY <1>2, SMT DEF Wrapped
  <1> QED BY <1>1, <1>3

LEMMA OffsetHasLine == \A a \in Offset : Wrapped(a) \in Lines
  BY DEF Lines, Wrapped

LEMMA Halves ==
  /\ \A side \in {"left", "right"} : HalfNamed(side) \in Half
  /\ \A h \in Half : \E side \in {"left", "right"} : HalfNamed(side) = h
  /\ \A side, other \in {"left", "right"} :
       HalfNamed(side) = HalfNamed(other) => side = other
  BY DEF HalfNamed, Half, LCD_L, LCD_R

\* The panel has the existing columns.
LEMMA SamePlaces == Panel!OnGlass = Existing /\ Panel!Where = Places
  <1>1. Panel!OnGlass = Existing
    <2>1. \A c \in Column : c \in 0 .. 19 <=> c < 20
      BY ColumnAssumption, SMT DEF Char
    <2> QED BY <2>1 DEF Panel!OnGlass, Existing
  <1> QED BY <1>1 DEF Panel!Where, Places

\* A place of the panel's memory is the cell of an offset.
LEMMA PlaceHasCell ==
  ASSUME NEW w \in Panel!Where
  PROVE  \E a \in Offset :
           /\ Wrapped(a) = w[2]
           /\ Cell(HalfNamed(w[1]), w[2], w[3]) = Cell(HalfNamed(w[1]), a, w[3])
           /\ w = <<w[1], w[2], w[3]>>
           /\ w[1] \in {"left", "right"} /\ w[2] \in Lines /\ w[3] \in Existing
  <1>1. /\ w = <<w[1], w[2], w[3]>>
        /\ w[1] \in {"left", "right"} /\ w[2] \in Lines /\ w[3] \in Existing
    BY SamePlaces DEF Places
  <1>2. PICK a \in Offset : Wrapped(a) = w[2] /\ Wrapped(w[2]) = w[2]
    BY <1>1, LineHasOffset
  <1> QED BY <1>1, <1>2 DEF Cell

\* A pixel's place in the picture: the dot the panel lights for that bit.
LEMMA PixelIsDot ==
  ASSUME NEW side \in {"left", "right"}, NEW a \in Offset, NEW c \in Existing,
         NEW n \in 0 .. 7
  PROVE  LET p == Pixel(HalfNamed(side), a, c, n)
         IN  /\ p % 320 = Panel!LeftEdge(side, c) + n
             /\ p \div 320 = Wrapped(a)
  <1> DEFINE h == HalfNamed(side)
             x == ScreenColumn(h, c)
             l == Wrapped(a)
  <1>1. x \in 0 .. 39 /\ l \in 0 .. 239 /\ h \in Half
    BY LineOfOffset, ColumnRange, ScreenColumns, Halves
  <1>2. Pixel(h, a, c, n) = n + x * 8 + l * 320
    BY DEF Pixel
  <1>3. Panel!LeftEdge(side, c) + n = n + x * 8
    <2>1. c \in 0 .. 19
      BY ColumnRange
    <2>2. CASE side = "right"
      <3>1. Panel!LeftEdge(side, c) = 160 + 8 * (19 - c) /\ x = 19 - c + 20
        BY <2>2 DEF Panel!LeftEdge, ScreenColumn, HalfNamed
      <3> HIDE DEF x
      <3> QED BY <3>1, <2>1, SMT
    <2>3. CASE side = "left"
      <3>1. Panel!LeftEdge(side, c) = 0 + 8 * (19 - c) /\ x = 19 - c + 0
        BY <2>3 DEF Panel!LeftEdge, ScreenColumn, HalfNamed, LCD_L, LCD_R
      <3> HIDE DEF x
      <3> QED BY <3>1, <2>1, SMT
    <2> QED BY <2>2, <2>3
  <1> HIDE DEF x, l
  <1>4. (n + x * 8 + l * 320) % 320 = n + x * 8
        /\ (n + x * 8 + l * 320) \div 320 = l
    BY <1>1, SMT
  <1> QED BY <1>2, <1>3, <1>4 DEF l

LEMMA SameWeights ==
  \A n \in 0 .. 7 : \A byte : Panel!Lit(byte, n) <=> Bit(byte, n) = 1
  <1>1. \A n \in 0 .. 7 : Panel!Weight[n] = Power2[n]
    BY SMT DEF Panel!Weight, Power2
  <1> QED BY <1>1 DEF Panel!Lit, Bit

\* When the buffers agree, the picture is the one the panel's memory gives.
LEMMA PictureIsDots ==
  ASSUME NEW bytes, NEW pixels,
         \A half \in Half, a \in Offset, col \in Existing, n \in 0 .. 7 :
           pixels[Pixel(half, a, col, n)] = "on"
             <=> Bit(bytes[Cell(half, a, col)], n) = 1
  PROVE  PictureOf(pixels) = Panel!Dots(MemoryOf(bytes))
  <1> DEFINE lit(w) == {m \in 0 .. 7 : Panel!Lit(MemoryOf(bytes)[w], m)}
  <1>1. ASSUME NEW side \in {"left", "right"}, NEW a \in Offset,
               NEW c \in Existing, NEW n \in 0 .. 7
        PROVE  /\ <<side, Wrapped(a), c>> \in Panel!Where
               /\ n \in lit(<<side, Wrapped(a), c>>)
                    <=> pixels[Pixel(HalfNamed(side), a, c, n)] = "on"
    <2>1. <<side, Wrapped(a), c>> \in Panel!Where
      BY OffsetHasLine, SamePlaces DEF Places
    <2>2. Wrapped(Wrapped(a)) = Wrapped(a)
      BY OffsetHasLine, LineHasOffset
    <2>3. MemoryOf(bytes)[<<side, Wrapped(a), c>>]
            = bytes[Cell(HalfNamed(side), Wrapped(a), c)]
      BY <2>1, SamePlaces DEF MemoryOf, Places
    <2>4. Cell(HalfNamed(side), Wrapped(a), c) = Cell(HalfNamed(side), a, c)
      BY <2>2 DEF Cell
    <2>5. HalfNamed(side) \in Half
      BY Halves
    <2> QED BY <2>1, <2>3, <2>4, <2>5, SameWeights
  <1>2. ASSUME NEW d \in PictureOf(pixels) PROVE d \in Panel!Dots(MemoryOf(bytes))
    <2>1. PICK p \in Pixels : pixels[p] = "on" /\ d = <<p % 320, p \div 320>>
      BY DEF PictureOf
    <2>2. PICK h \in Half, a \in Offset, c \in Existing, n \in 0 .. 7 :
            p = Pixel(h, a, c, n)
      BY DEF Pixels
    <2>3. PICK side \in {"left", "right"} : HalfNamed(side) = h
      BY Halves
    <2> DEFINE w == <<side, Wrapped(a), c>>
    <2>4. d = <<Panel!LeftEdge(side, c) + n, Wrapped(a)>>
      BY <2>1, <2>2, <2>3, PixelIsDot
    <2>5. w \in Panel!Where /\ n \in lit(w)
      BY <1>1, <2>1, <2>2, <2>3
    <2>6. d \in {Panel!Dot(w, m) : m \in lit(w)}
      BY <2>4, <2>5 DEF Panel!Dot
    <2> QED BY <2>5, <2>6 DEF Panel!Dots
  <1>3. ASSUME NEW d \in Panel!Dots(MemoryOf(bytes)) PROVE d \in PictureOf(pixels)
    <2>1. PICK w \in Panel!Where :
            d \in {Panel!Dot(w, m) : m \in lit(w)}
      BY DEF Panel!Dots
    <2>2. PICK n \in lit(w) : d = Panel!Dot(w, n)
      BY <2>1
    <2>3. PICK a \in Offset :
            /\ Wrapped(a) = w[2] /\ w = <<w[1], w[2], w[3]>>
            /\ w[1] \in {"left", "right"} /\ w[3] \in Existing
      BY PlaceHasCell
    <2> DEFINE p == Pixel(HalfNamed(w[1]), a, w[3], n)
    <2>4. n \in 0 .. 7
      OBVIOUS
    <2>5. p % 320 = Panel!LeftEdge(w[1], w[3]) + n /\ p \div 320 = w[2]
      BY <2>3, <2>4, PixelIsDot
    <2>6. pixels[p] = "on"
      BY <1>1, <2>2, <2>3, <2>4
    <2>7. p \in Pixels
      BY <2>3, <2>4, Halves, PixelPlace
    <2> QED BY <2>2, <2>5, <2>6, <2>7 DEF PictureOf, Panel!Dot
  <1> QED BY <1>2, <1>3

LEMMA BlankPanel ==
  /\ MemoryOf([i \in Cells |-> 0]) = [w \in Panel!Where |-> 0]
  /\ PictureOf([p \in Pixels |-> "blank"]) = {}
  <1>1. ASSUME NEW w \in Panel!Where
        PROVE  [i \in Cells |-> 0][Cell(HalfNamed(w[1]), w[2], w[3])] = 0
    <2>1. PICK a \in Offset :
            /\ Cell(HalfNamed(w[1]), w[2], w[3]) = Cell(HalfNamed(w[1]), a, w[3])
            /\ w[1] \in {"left", "right"} /\ w[3] \in Existing
      BY PlaceHasCell
    <2> QED BY <2>1, CellPlace, Halves
  <1>2. MemoryOf([i \in Cells |-> 0]) = [w \in Panel!Where |-> 0]
    BY <1>1, SamePlaces DEF MemoryOf, Places
  <1>3. PictureOf([p \in Pixels |-> "blank"]) = {}
    BY DEF PictureOf
  <1> QED BY <1>2, <1>3

\* A byte for an existing column, while nothing has strayed.
LEMMA WriteIsWrite ==
  ASSUME Inv, Inv', NEW half \in Half, NEW newaddr \in Offset, NEW val \in Byte,
         WriteColumn(half, newaddr, val), lcd_cas \in Existing, ~strayed
  PROVE  Panel!Next
  <1>1. PICK side \in {"left", "right"} : HalfNamed(side) = half
    BY Halves
  <1> DEFINE there == <<side, Wrapped(newaddr), lcd_cas>>
             here == Cell(half, newaddr, lcd_cas)
  <1>2. /\ there \in Panel!Where /\ Wrapped(newaddr) \in Lines
        /\ lcd_cas \in Panel!OnGlass
    BY OffsetHasLine, SamePlaces DEF Places
  <1>3. /\ lcd_dat1bit' = [lcd_dat1bit EXCEPT ![here] = val]
        /\ lcd_dat1bit \in [Cells -> Char] /\ strayed = FALSE /\ strayed' = FALSE
    BY DEF WriteColumn, Inv, TypeOK
  <1>4. ASSUME NEW w \in Panel!Where
        PROVE  lcd_dat1bit'[Cell(HalfNamed(w[1]), w[2], w[3])]
                 = IF w = there THEN val
                   ELSE lcd_dat1bit[Cell(HalfNamed(w[1]), w[2], w[3])]
    <2>1. PICK a \in Offset :
            /\ Wrapped(a) = w[2]
            /\ Cell(HalfNamed(w[1]), w[2], w[3]) = Cell(HalfNamed(w[1]), a, w[3])
            /\ w = <<w[1], w[2], w[3]>>
            /\ w[1] \in {"left", "right"} /\ w[3] \in Existing
      BY PlaceHasCell
    <2>2. HalfNamed(w[1]) \in Half
      BY <2>1, Halves
    <2>3. Cell(HalfNamed(w[1]), a, w[3]) \in Cells /\ here \in Cells
      BY <1>2, <2>1, <2>2, CellPlace
    <2>4. CASE w = there
      <3>1. Cell(HalfNamed(w[1]), a, w[3]) = here
        BY <1>1, <2>1, <2>4 DEF Cell
      <3> QED BY <1>3, <2>1, <2>3, <2>4, <3>1
    <2>5. CASE w # there
      <3>1. Cell(HalfNamed(w[1]), a, w[3]) # here
        <4>1. SUFFICES ASSUME Cell(HalfNamed(w[1]), a, w[3]) = here PROVE FALSE
          OBVIOUS
        <4>2. HalfNamed(w[1]) = half /\ Wrapped(a) = Wrapped(newaddr) /\ w[3] = lcd_cas
          BY <1>2, <2>1, <2>2, <4>1, CellPlace
        <4>3. w[1] = side
          BY <1>1, <2>1, <4>2, Halves
        <4> QED BY <2>1, <2>5, <4>2, <4>3
      <3> QED BY <1>3, <2>1, <2>3, <2>5, <3>1
    <2> QED BY <2>4, <2>5
  <1>5. MemoryOf(lcd_dat1bit') = [MemoryOf(lcd_dat1bit) EXCEPT ![there] = val]
    BY <1>2, <1>4, SamePlaces DEF MemoryOf, Places
  <1>6. PictureOf(lcd_datRGBA8888') = Panel!Dots(MemoryOf(lcd_dat1bit'))
    <2>1. Coherent' /\ ~strayed'
      BY <1>3 DEF Inv
    <2>2. \A h \in Half, a \in Offset, col \in Existing, n \in 0 .. 7 :
            lcd_datRGBA8888'[Pixel(h, a, col, n)] = "on"
              <=> Bit(lcd_dat1bit'[Cell(h, a, col)], n) = 1
      BY <2>1 DEF Coherent
    <2> QED BY <2>2, PictureIsDots
  <1>7. cas_line /\ UNCHANGED <<lcd_cas, cas_line, strayed>>
    BY <1>3 DEF WriteColumn
  <1>8. Panel!Write(side, Wrapped(newaddr), val)
    BY <1>2, <1>3, <1>5, <1>6, <1>7 DEF Panel!Write
  <1> QED BY <1>2, <1>8 DEF Panel!Next

\* A byte that goes nowhere, and every byte after it until a reset.
LEMMA StrayIsLoss ==
  ASSUME Inv, NEW half \in Half, NEW newaddr \in Offset, NEW val \in Byte,
         WriteColumn(half, newaddr, val), lcd_cas \notin Existing \/ strayed
  PROVE  [Panel!Next]_Panel!vars
  <1>1. strayed' = TRUE /\ cas_line /\ UNCHANGED <<lcd_cas, cas_line>>
    BY DEF WriteColumn, Inv, TypeOK
  <1>2. CASE lcd_cas \notin Existing
    <2>1. Panel!Lose
      BY <1>1, <1>2, SamePlaces DEF Panel!Lose
    <2> QED BY <2>1 DEF Panel!Next
  <1>3. CASE strayed
    BY <1>1, <1>3 DEF Panel!vars
  <1> QED BY <1>2, <1>3

(***************************************************************************)
(* The byte buffer and the pixels of lcd.c implement the panel, for every  *)
(* set of offsets, bytes and columns: each write changes the one place it  *)
(* addresses, and the picture is the one the memory gives, from a reset to *)
(* the first byte sent to a column that does not exist (lcd.c:19-136).     *)
(***************************************************************************)
THEOREM RefinesPanel == Spec => ImplementsPanel
  <1>1. Init => Panel!Init
    BY BlankPanel, SamePlaces DEF Init, Panel!Init
  <1>2. Inv /\ Inv' /\ [Next]_vars => [Panel!Next]_Panel!vars
    <2>1. SUFFICES ASSUME Inv, Inv', [Next]_vars PROVE [Panel!Next]_Panel!vars
      OBVIOUS
    <2>2. ASSUME NEW half \in Half, NEW newaddr \in Offset, lcd_write(half, newaddr)
          PROVE  [Panel!Next]_Panel!vars
      <3>1. CASE \E val \in Column : SelectColumn(val)
        BY <3>1 DEF SelectColumn, Panel!Select, Panel!Next
      <3> QED BY <2>1, <2>2, <3>1, WriteIsWrite, StrayIsLoss DEF lcd_write
    <2>3. CASE SetCasLine
      BY <2>3 DEF SetCasLine, Panel!Strobe, Panel!Next
    <2>4. CASE Reset
      <3>1. Panel!Clear
        BY <2>4, BlankPanel, SamePlaces DEF Reset, lcd_init, Panel!Clear
      <3> QED BY <3>1 DEF Panel!Next
    <2>5. CASE UNCHANGED vars
      BY <2>5 DEF vars, Panel!vars
    <2> QED BY <2>1, <2>2, <2>3, <2>4, <2>5 DEF Next
  <1> QED BY <1>1, <1>2, InvInit, InvStep, PTL
          DEF Spec, ImplementsPanel, Panel!Spec

=============================================================================
