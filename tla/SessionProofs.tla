---------------------------- MODULE SessionProofs ----------------------------
(***************************************************************************)
(* From the evidence to the plaintext, for every volume that is written:   *)
(* the sector ciphers are inverted at the address of the sector and at no  *)
(* other, the metadata of any copy gives the geometry and the keys the     *)
(* volume was written with, and so a read returns what was written.        *)
(***************************************************************************)
EXTENDS Session, UnlockProofs

-----------------------------------------------------------------------------
(* The sector ciphers.  Blocks are symbolic: what is new about an output of *)
(* a primitive is that it is an atom of its own.                            *)

\* What is encrypted: a sequence of blocks, each of them plaintext or an output of
\* the diffuser.
Symbolic(p) ==
    /\ p \in Seq(Range(p))
    /\ \A i \in 1..Len(p) : \E a : p[i] = {a} /\ a[1] \in {"plain", "diffused"}

\* A block with an atom that is no output of decryption is encrypted to a new
\* atom, which decrypts to the block.
LEMMA EncFresh ==
    ASSUME NEW k, NEW x, NEW a \in x, a[1] # "dec"
    PROVE  Enc(k, x) = {<<"enc", k, x>>} /\ Dec(k, {<<"enc", k, x>>}) = x
<1> DEFINE e == <<"enc", k, x>>
<1>1. ~IsImage(x, "dec", k)
    BY DEF IsImage
<1>2. Enc(k, x) = {e}
    BY <1>1 DEF Enc
<1>3. e[1] = "enc" /\ e[2] = k /\ e[3] = x
    OBVIOUS
<1> HIDE DEF e
<1>4. IsImage({e}, "enc", k)
    BY <1>3 DEF IsImage
<1>5. (CHOOSE b \in {e} : TRUE) = e
    OBVIOUS
<1>6. Dec(k, {e}) = x
    BY <1>3, <1>4, <1>5 DEF Dec, Preimage
<1> QED
    BY <1>2, <1>6 DEF e

\* A block that is no single output of encryption decrypts to a new atom.
LEMMA DecFresh ==
    ASSUME NEW k, NEW x, NEW a \in x, NEW b \in x, a # b
    PROVE  Dec(k, x) = {<<"dec", k, x>>}
<1>1. ~IsImage(x, "enc", k)
    BY DEF IsImage
<1> QED
    BY <1>1 DEF Dec

\* Exclusive or with the same block twice does nothing.
LEMMA XorTwice == ASSUME NEW a, NEW b PROVE Xor(Xor(a, b), b) = a
    BY DEF Xor

LEMMA XorAtoms ==
    ASSUME NEW a, NEW b, a # b
    PROVE  Xor({a}, {b}) = {a, b}
    BY DEF Xor

\* CBC: the recursion of CbcEncrypt,
CbcChain(k, iv, p, n, f) == [i \in 0..n |-> IF i = 0 THEN iv ELSE Enc(k, Xor(p[i], f[i - 1]))]

\* which has a solution.
LEMMA CbcDefined ==
    ASSUME NEW k, NEW iv, NEW p, NEW n \in Nat
    PROVE  \E f : f = CbcChain(k, iv, p, n, f)
<1> DEFINE Of(f, m) == [i \in 0..m |-> IF i = 0 THEN iv ELSE Enc(k, Xor(p[i], f[i - 1]))]
           Bad == {m \in Nat : ~\E f : f = Of(f, m)}
<1> SUFFICES ASSUME Bad # {} PROVE FALSE
    <2> HIDE DEF Of
    <2>1. (Bad = {}) => \E f : f = Of(f, n)
        OBVIOUS
    <2> QED
        BY <2>1 DEF Of, CbcChain
<1> DEFINE m == Min(Bad)
<1>1. m \in Bad /\ \A l \in Bad : m =< l
    <2>1. Bad \in SUBSET Nat
        OBVIOUS
    <2> HIDE DEF Bad
    <2> QED
        BY <2>1, HasMin
<1>2. m \in Nat /\ ~\E f : f = Of(f, m)
    BY <1>1
<1>3. \A l \in Nat : l < m => \E f : f = Of(f, l)
    <2> HIDE DEF m, Of
    <2> QED
        BY <1>1, <1>2
<1> HIDE DEF m
<1>4. m # 0
    <2> DEFINE g == [i \in 0..0 |-> iv]
    <2>1. Of(g, 0) = g
        OBVIOUS
    <2> HIDE DEF Of, g
    <2> QED
        BY <1>2, <2>1
<1>5. PICK g : g = Of(g, m - 1)
    <2>1. m - 1 \in Nat /\ m - 1 < m
        BY <1>2, <1>4
    <2> HIDE DEF Of
    <2> QED
        BY <1>3, <2>1
<1> DEFINE f == [i \in 0..m |-> IF i < m THEN g[i] ELSE Enc(k, Xor(p[i], g[i - 1]))]
<1>6. \A i \in 0..m : f[i] = IF i = 0 THEN iv ELSE Enc(k, Xor(p[i], f[i - 1]))
    <2> SUFFICES ASSUME NEW i \in 0..m
                 PROVE  f[i] = IF i = 0 THEN iv ELSE Enc(k, Xor(p[i], f[i - 1]))
        OBVIOUS
    <2>1. i # 0 => i - 1 \in 0..m /\ i - 1 < m /\ f[i - 1] = g[i - 1]
        BY <1>2
    <2>2. CASE i < m
        <3>1. i \in 0..(m - 1) /\ f[i] = g[i]
            BY <1>2, <2>2
        <3>2. g[i] = IF i = 0 THEN iv ELSE Enc(k, Xor(p[i], g[i - 1]))
            BY <1>5, <3>1
        <3> HIDE DEF f
        <3> QED
            BY <2>1, <3>1, <3>2
    <2>3. CASE i = m
        <3>1. f[i] = Enc(k, Xor(p[i], g[i - 1]))
            BY <1>2, <2>3
        <3> HIDE DEF f
        <3> QED
            BY <1>4, <2>1, <2>3, <3>1
    <2> QED
        BY <1>2, <2>2, <2>3
<1>7. f = [i \in 0..m |-> f[i]]
    OBVIOUS
<1>8. f = Of(f, m)
    <2> HIDE DEF f
    <2> QED
        BY <1>6, <1>7
<1> QED
    BY <1>2, <1>8

\* An initialisation vector: the encryption of something.
IsVector(iv, k, z) == iv = {<<"enc", k, z>>}

\* What block i of CBC is chained with.
Before(iv, c, i) == IF i = 1 THEN iv ELSE c[i - 1]

\* Every block of CBC ciphertext is a new atom over the block and the one before.
LEMMA CbcBlocks ==
    ASSUME NEW k, NEW z, NEW iv, IsVector(iv, k, z), NEW p, Symbolic(p)
    PROVE  LET c == CbcEncrypt(k, iv, p)
           IN  /\ c = [i \in 1..Len(p) |-> c[i]] /\ Len(c) = Len(p)
               /\ \A i \in 1..Len(p) : /\ c[i] = {<<"enc", k, Xor(p[i], Before(iv, c, i))>>}
                                      /\ Dec(k, c[i]) = Xor(p[i], Before(iv, c, i))
<1>0. iv = {<<"enc", k, z>>}
    BY DEF IsVector
<1> DEFINE n == Len(p)
           g == CHOOSE f : f = CbcChain(k, iv, p, n, f)
           c == [i \in 1..n |-> g[i]]
<1>1. n \in Nat
    BY DEF Symbolic
<1>2. g = CbcChain(k, iv, p, n, g)
    <2> HIDE DEF n
    <2>1. \E f : f = CbcChain(k, iv, p, n, f)
        BY <1>1, CbcDefined
    <2> QED
        BY <2>1
<1>3. CbcEncrypt(k, iv, p) = c
    BY DEF CbcEncrypt, CbcChain
<1> HIDE DEF g
<1>4. g[0] = iv /\ \A i \in 1..n : g[i] = Enc(k, Xor(p[i], g[i - 1]))
    <2> HIDE DEF n
    <2>1. \A i \in 0..n : g[i] = IF i = 0 THEN iv ELSE Enc(k, Xor(p[i], g[i - 1]))
        BY <1>2 DEF CbcChain
    <2> QED
        BY <1>1, <2>1
<1> DEFINE Good(i) == \E y : g[i] = {<<"enc", k, y>>}
           Bad == {i \in 0..n : ~Good(i)}
<1>5. ASSUME NEW i \in 1..n, Good(i - 1)
      PROVE  LET x == Xor(p[i], g[i - 1])
             IN  g[i] = {<<"enc", k, x>>} /\ Dec(k, g[i]) = x
    <2> DEFINE x == Xor(p[i], g[i - 1])
    <2>1. PICK a : p[i] = {a} /\ a[1] \in {"plain", "diffused"}
        BY DEF Symbolic
    <2>2. PICK y : g[i - 1] = {<<"enc", k, y>>}
        BY <1>5
    <2>3. a # <<"enc", k, y>>
        BY <2>1
    <2>4. a \in x
        BY <2>1, <2>2, <2>3 DEF Xor
    <2>5. g[i] = Enc(k, x)
        BY <1>4
    <2> HIDE DEF x
    <2>6. Enc(k, x) = {<<"enc", k, x>>} /\ Dec(k, {<<"enc", k, x>>}) = x
        BY <2>1, <2>4, EncFresh
    <2> QED
        BY <2>5, <2>6 DEF x
<1>6. Bad = {}
    <2> SUFFICES ASSUME Bad # {} PROVE FALSE
        OBVIOUS
    <2> DEFINE m == Min(Bad)
    <2>1. m \in Bad /\ \A l \in Bad : m =< l
        <3>1. Bad \in SUBSET Nat
            OBVIOUS
        <3> HIDE DEF Bad
        <3> QED
            BY <3>1, HasMin
    <2> HIDE DEF m
    <2>2. m \in 0..n /\ ~Good(m)
        BY <2>1
    <2>3. m # 0
        BY <1>0, <1>4, <2>2
    <2>4. m \in 1..n /\ m - 1 \in 0..n /\ m - 1 < m
        <3> HIDE DEF Good, n
        <3> QED
            BY <1>1, <2>2, <2>3
    <2>5. Good(m - 1)
        <3> HIDE DEF Good, n
        <3> QED
            BY <1>1, <2>1, <2>4
    <2> QED
        BY <1>5, <2>2, <2>4, <2>5
<1>7. ASSUME NEW i \in 1..n
      PROVE  /\ c[i] = {<<"enc", k, Xor(p[i], Before(iv, c, i))>>}
             /\ Dec(k, c[i]) = Xor(p[i], Before(iv, c, i))
    <2>1. i - 1 \in 0..n /\ (i # 1 => i - 1 \in 1..n)
        <3> HIDE DEF n
        <3> QED
            BY <1>1
    <2>2. Good(i - 1)
        <3> HIDE DEF Good, n
        <3> QED
            BY <1>6, <2>1
    <2>3. c[i] = g[i] /\ g[i - 1] = Before(iv, c, i)
        <3> HIDE DEF n
        <3>1. c[i] = g[i]
            OBVIOUS
        <3>2. CASE i = 1
            BY <1>4, <3>1, <3>2 DEF Before
        <3>3. CASE i # 1
            BY <2>1, <3>1, <3>3 DEF Before
        <3> QED
            BY <3>2, <3>3
    <2> HIDE DEF c
    <2> QED
        BY <1>5, <2>2, <2>3
<1>8. c = [i \in 1..n |-> c[i]]
    <2> HIDE DEF n
    <2> QED
        OBVIOUS
<1>9. Len(c) = n
    <2> HIDE DEF n
    <2> QED
        BY <1>1
<1> QED
    BY <1>3, <1>7, <1>8, <1>9

\* The two addresses a sector of CBC ciphertext is looked at from: decrypted with
\* the vector it was encrypted with it is what it was, with another its first
\* block has the difference of the vectors in it.
LEMMA CbcInverts ==
    ASSUME NEW k, NEW z, NEW iv, IsVector(iv, k, z), NEW p, Symbolic(p)
    PROVE  CbcDecrypt(k, iv, CbcEncrypt(k, iv, p)) = p
<1> DEFINE c == CbcEncrypt(k, iv, p)
           n == Len(p)
<1>1. Len(c) = n /\ \A i \in 1..n : Dec(k, c[i]) = Xor(p[i], Before(iv, c, i))
    BY CbcBlocks
<1>2. CbcDecrypt(k, iv, c) = [i \in 1..Len(c) |-> Xor(Dec(k, c[i]), Before(iv, c, i))]
    BY DEF CbcDecrypt, Before
<1>3. p = [i \in 1..n |-> p[i]]
    BY DEF Symbolic
<1> HIDE DEF c, n
<1>4. \A i \in 1..n : Xor(Dec(k, c[i]), Before(iv, c, i)) = p[i]
    BY <1>1, XorTwice
<1> QED
    BY <1>1, <1>2, <1>3, <1>4 DEF c

\* A sector of n blocks, the first of them of more than one atom.
Mixed(d, n) == /\ d = [i \in 1..n |-> d[i]] /\ Len(d) = n /\ n \in Nat /\ 1 \in 1..n
               /\ \E e, f \in d[1] : e # f

LEMMA CbcElsewhere ==
    ASSUME NEW k, NEW z, NEW y, z # y, NEW p, Symbolic(p), Len(p) # 0,
           NEW iv, IsVector(iv, k, z), NEW jv, IsVector(jv, k, y)
    PROVE  Mixed(CbcDecrypt(k, jv, CbcEncrypt(k, iv, p)), Len(p))
<1> DEFINE e == <<"enc", k, z>>
           f == <<"enc", k, y>>
           c == CbcEncrypt(k, iv, p)
           d == CbcDecrypt(k, jv, c)
           n == Len(p)
<1>1. n \in Nat /\ 1 \in 1..n
    BY DEF Symbolic
<1>2. Len(c) = n /\ \A i \in 1..n : Dec(k, c[i]) = Xor(p[i], Before(iv, c, i))
    BY CbcBlocks
<1>3. d = [i \in 1..n |-> Xor(Dec(k, c[i]), Before(jv, c, i))]
    BY <1>2 DEF CbcDecrypt, Before
<1>4. PICK a : p[1] = {a} /\ a[1] \in {"plain", "diffused"}
    BY <1>1 DEF Symbolic
<1>5. a # e /\ a # f /\ e # f
    BY <1>4
<1>6. iv = {e} /\ jv = {f}
    BY DEF IsVector
<1> HIDE DEF e, f, c, d, n
<1>7. Before(iv, c, 1) = iv /\ Before(jv, c, 1) = jv
    BY DEF Before
<1>8. d[1] = Xor(Xor({a}, {e}), {f})
    BY <1>1, <1>2, <1>3, <1>4, <1>6, <1>7
<1>9. d[1] = {a, e, f}
    BY <1>5, <1>8 DEF Xor
<1>10. d = [i \in 1..n |-> d[i]] /\ Len(d) = n
    BY <1>1, <1>3
<1> QED
    <2>1. Mixed(d, n)
        BY <1>1, <1>5, <1>9, <1>10 DEF Mixed
    <2> QED
        BY <2>1 DEF d, c, n

\* Sectors encrypted with different vectors differ, whatever they hold.
LEMMA CbcDiffers ==
    ASSUME NEW k, NEW z, NEW y, z # y, NEW p, Symbolic(p), Len(p) # 0,
           NEW q, Symbolic(q), Len(q) # 0,
           NEW iv, IsVector(iv, k, z), NEW jv, IsVector(jv, k, y)
    PROVE  CbcEncrypt(k, iv, p) # CbcEncrypt(k, jv, q)
<1> DEFINE e == <<"enc", k, z>>
           f == <<"enc", k, y>>
           c == CbcEncrypt(k, iv, p)
           d == CbcEncrypt(k, jv, q)
<1> SUFFICES c # d
    OBVIOUS
<1>1. 1 \in 1..Len(p) /\ 1 \in 1..Len(q)
    BY DEF Symbolic
<1>2. c[1] = {<<"enc", k, Xor(p[1], iv)>>}
    <2>1. \A i \in 1..Len(p) : c[i] = {<<"enc", k, Xor(p[i], Before(iv, c, i))>>}
        BY CbcBlocks
    <2> HIDE DEF c, e
    <2> QED
        BY <1>1, <2>1 DEF Before
<1>3. d[1] = {<<"enc", k, Xor(q[1], jv)>>}
    <2>1. \A i \in 1..Len(q) : d[i] = {<<"enc", k, Xor(q[i], Before(jv, d, i))>>}
        BY CbcBlocks
    <2> HIDE DEF d, f
    <2> QED
        BY <1>1, <2>1 DEF Before
<1>4. PICK a : p[1] = {a} /\ a[1] \in {"plain", "diffused"}
    BY <1>1 DEF Symbolic
<1>5. PICK b : q[1] = {b} /\ b[1] \in {"plain", "diffused"}
    BY <1>1 DEF Symbolic
<1>6. e # f /\ e # a /\ e # b /\ iv = {e} /\ jv = {f}
    BY <1>4, <1>5 DEF IsVector
<1> HIDE DEF e, f, c, d
<1> DEFINE x == Xor(p[1], iv)
           w == Xor(q[1], jv)
<1>7. x # w
    BY <1>4, <1>5, <1>6 DEF Xor
<1> HIDE DEF x, w
<1>8. c[1] # d[1]
    <2>1. <<"enc", k, x>> # <<"enc", k, w>>
        BY <1>7
    <2>2. c[1] = {<<"enc", k, x>>} /\ d[1] = {<<"enc", k, w>>}
        BY <1>2, <1>3 DEF x, w
    <2> QED
        BY <2>1, <2>2
<1> QED
    BY <1>8

\* The encryption of an address.
LEMMA VectorAt ==
    ASSUME NEW k, NEW a, NEW last
    PROVE  /\ IsVector(ecb(k, Padded(a, last)), k, Padded(a, last))
           /\ \A b : Padded(a, last) = Padded(b, last) => a = b
<1> DEFINE e == <<"le128", a, last>>
<1>1. e \in Padded(a, last) /\ e[1] # "dec"
    BY DEF Padded
<1>2. ASSUME NEW b, Padded(a, last) = Padded(b, last) PROVE a = b
    <2> DEFINE f == <<"le128", b, last>>
    <2>1. e = f
        <3> HIDE DEF e, f
        <3> QED
            BY <1>2 DEF Padded, e, f
    <2>2. e[2] = a /\ f[2] = b
        OBVIOUS
    <2> HIDE DEF e, f
    <2> QED
        BY <2>1, <2>2
<1> DEFINE x == Padded(a, last)
<1>3. Enc(k, x) = {<<"enc", k, x>>}
    <2> HIDE DEF e, x
    <2> QED
        BY <1>1, EncFresh DEF x
<1> QED
    BY <1>2, <1>3 DEF IsVector, ecb

\* The diffuser's output is Symbolic, and is undone by its key.
LEMMA Diffused ==
    ASSUME NEW k, NEW p, Symbolic(p), Len(p) # 0
    PROVE  LET d == Diffuse(k, p)
           IN  Symbolic(d) /\ Len(d) = Len(p) /\ Undiffuse(k, d) = p
<1> DEFINE d == Diffuse(k, p)
           n == Len(p)
           a == <<"diffused", k, p, 1>>
<1>1. n \in Nat /\ 1 \in 1..n
    BY DEF Symbolic
<1>2. d = [i \in 1..n |-> {<<"diffused", k, p, i>>}]
    BY DEF Diffuse
<1>3. Len(d) = n /\ d[1] = {a} /\ d \in Seq(Range(d))
    <2> HIDE DEF d, n
    <2>1. d[1] = {a} /\ DOMAIN d = 1..n
        BY <1>1, <1>2
    <2>2. Len(d) = n
        BY <1>1, <1>2
    <2>3. \A i \in 1..n : d[i] \in Range(d)
        BY <2>1 DEF Range
    <2>4. d \in [1..n -> Range(d)]
        <3> DEFINE R == Range(d)
        <3> HIDE DEF R
        <3> QED
            BY <1>2, <2>1, <2>3 DEF R
    <2> QED
        BY <1>1, <2>1, <2>2, <2>4
<1>4. Symbolic(d)
    <2>1. \A i \in 1..n : \E b : d[i] = {b} /\ b[1] \in {"plain", "diffused"}
        <3> SUFFICES ASSUME NEW i \in 1..n
                     PROVE  \E b : d[i] = {b} /\ b[1] \in {"plain", "diffused"}
            OBVIOUS
        <3> DEFINE b == <<"diffused", k, p, i>>
        <3>1. d[i] = {b} /\ b[1] = "diffused"
            <4> HIDE DEF d, n
            <4> QED
                BY <1>2
        <3> HIDE DEF b, d
        <3> QED
            BY <3>1
    <2> HIDE DEF d, n
    <2> QED
        BY <1>3, <2>1 DEF Symbolic
<1>5. a[1] = "diffused" /\ a[3] = p /\ d = Diffuse(k, a[3])
    OBVIOUS
<1> HIDE DEF a, d
<1>6. (CHOOSE b \in {a} : TRUE) = a
    OBVIOUS
<1>7. Undiffuse(k, d) = p
    BY <1>3, <1>5, <1>6 DEF Undiffuse, Preimage
<1> QED
    BY <1>3, <1>4, <1>7 DEF d

\* What is no output of the diffuser is not taken back to plaintext.
LEMMA NotDiffused ==
    ASSUME NEW k, NEW d, NEW n, Mixed(d, n), NEW p, Symbolic(p), Len(p) = n
    PROVE  Undiffuse(k, d) # p
<1>0. /\ d = [i \in 1..n |-> d[i]] /\ Len(d) = n /\ n \in Nat /\ 1 \in 1..n
      /\ \E e, f \in d[1] : e # f
    BY DEF Mixed
<1>1. ASSUME NEW q PROVE d # Diffuse(k, q)
    <2>1. SUFFICES ASSUME d = Diffuse(k, q) PROVE FALSE
        OBVIOUS
    <2>2. d = [i \in 1..Len(q) |-> {<<"diffused", k, q, i>>}]
        BY <2>1 DEF Diffuse
    <2>3. 1 \in 1..Len(q)
        <3>1. DOMAIN d = 1..n
            BY <1>0
        <3>2. DOMAIN d = 1..Len(q)
            BY <2>2
        <3> QED
            BY <1>0, <3>1, <3>2
    <2>4. d[1] = {<<"diffused", k, q, 1>>}
        BY <2>2, <2>3
    <2> QED
        BY <1>0, <2>4
<1>2. Undiffuse(k, d) = [i \in 1..n |-> {<<"undiffused", k, d, i>>}]
    BY <1>0, <1>1 DEF Undiffuse
<1>3. Undiffuse(k, d)[1] = {<<"undiffused", k, d, 1>>}
    BY <1>0, <1>2
<1>4. PICK a : p[1] = {a} /\ a[1] \in {"plain", "diffused"}
    BY <1>0 DEF Symbolic
<1>5. a # <<"undiffused", k, d, 1>>
    BY <1>4
<1> QED
    BY <1>3, <1>4, <1>5

\* The tweak of a block, by the number of its sector.
LEMMA MaskAt ==
    ASSUME NEW k, NEW a, NEW i
    PROVE  \E u : /\ XtsMask(k, Padded(a, 0), i) = {u} /\ u[1] = "times"
                  /\ \A b : XtsMask(k, Padded(b, 0), i) = {u} => a = b
<1> DEFINE U(b) == <<"times", Enc(k, Padded(b, 0)), i>>
<1>1. \A b : XtsMask(k, Padded(b, 0), i) = {U(b)}
    BY DEF XtsMask
<1>2. ASSUME NEW b, U(b) = U(a) PROVE a = b
    <2>1. Enc(k, Padded(b, 0)) = Enc(k, Padded(a, 0))
        <3> DEFINE x == Enc(k, Padded(b, 0))
                   y == Enc(k, Padded(a, 0))
        <3>1. <<"times", x, i>> = <<"times", y, i>>
            BY <1>2
        <3> HIDE DEF x, y
        <3>2. x = y
            BY <3>1
        <3> QED
            BY <3>2 DEF x, y
    <2> DEFINE x == Padded(b, 0)
               y == Padded(a, 0)
    <2>2. {<<"enc", k, x>>} = {<<"enc", k, y>>}
        BY <2>1, VectorAt DEF IsVector, ecb
    <2> HIDE DEF x, y
    <2>3. <<"enc", k, x>> = <<"enc", k, y>>
        BY <2>2
    <2>4. x = y
        BY <2>3
    <2> QED
        BY <2>4, VectorAt DEF x, y
<1>3. U(a)[1] = "times"
    OBVIOUS
<1> HIDE DEF U
<1> WITNESS U(a)
<1> QED
    BY <1>1, <1>2, <1>3

\* One block of XTS, stored as a new atom and its mask.
Masked(k, x, u) == Xor(Enc(k, Xor(x, {u})), {u})
Unmasked(k, c, u) == Xor(Dec(k, Xor(c, {u})), {u})

\* A block stored as an atom, to which the mask is added.
IsStored(c, e, u) == c = {e, u}

\* It is stored as a new atom, to which the mask is added.
LEMMA XtsBlock ==
    ASSUME NEW k, NEW a, a[1] \in {"plain", "diffused"}, NEW u, u[1] = "times",
           NEW x, x = {a, u}
    PROVE  IsStored(Masked(k, {a}, u), <<"enc", k, x>>, u)
<1> DEFINE e == <<"enc", k, x>>
<1>1. Xor({a}, {u}) = x
    BY XorAtoms
<1>2. Enc(k, x) = {e}
    <2>1. a \in x /\ a[1] # "dec"
        OBVIOUS
    <2> QED
        BY <2>1, EncFresh
<1>3. e # u
    OBVIOUS
<1> HIDE DEF e
<1>4. Xor({e}, {u}) = {e, u}
    BY <1>3, XorAtoms
<1>5. Masked(k, {a}, u) = {e, u}
    BY <1>1, <1>2, <1>4, Zenon DEF Masked
<1> QED
    BY <1>5 DEF e, IsStored

\* Under its own mask it decrypts to what it was.
LEMMA XtsUndone ==
    ASSUME NEW k, NEW a, a[1] \in {"plain", "diffused"}, NEW u, u[1] = "times"
    PROVE  Unmasked(k, Masked(k, {a}, u), u) = {a}
<1> DEFINE x == {a, u}
           e == <<"enc", k, x>>
           c == Masked(k, {a}, u)
<1>1. c = {e, u}
    <2>1. x = {a, u}
        OBVIOUS
    <2> HIDE DEF x
    <2>2. IsStored(c, e, u)
        BY <2>1, XtsBlock
    <2> HIDE DEF c, e
    <2> QED
        BY <2>2 DEF IsStored
<1>2. Dec(k, {e}) = x
    <2>1. a \in x /\ a[1] # "dec"
        OBVIOUS
    <2> HIDE DEF x
    <2> QED
        BY <2>1, EncFresh
<1>3. e # u
    OBVIOUS
<1>4. Xor(c, {u}) = {e}
    <2> HIDE DEF e, c
    <2> QED
        BY <1>1, <1>3 DEF Xor
<1>5. Xor(x, {u}) = {a}
    BY DEF Xor
<1> HIDE DEF c, e, x
<1>6. Unmasked(k, c, u) = {a}
    BY <1>2, <1>4, <1>5 DEF Unmasked
<1> QED
    BY <1>6 DEF c

\* Under another it neither decrypts to that nor is it stored alike.
LEMMA XtsOtherMask ==
    ASSUME NEW k, NEW a, a[1] \in {"plain", "diffused"}, NEW u, u[1] = "times",
           NEW w, w[1] = "times", u # w
    PROVE  /\ Unmasked(k, Masked(k, {a}, u), w) # {a}
           /\ Masked(k, {a}, u) # Masked(k, {a}, w)
<1> DEFINE x == {a, u}
           y == {a, w}
           e == <<"enc", k, x>>
           f == <<"enc", k, y>>
           c == Masked(k, {a}, u)
<1>1. e # u /\ e # w /\ f # u
    OBVIOUS
<1>2. c = {e, u} /\ Masked(k, {a}, w) = {f, w}
    <2>1. x = {a, u} /\ y = {a, w}
        OBVIOUS
    <2> HIDE DEF x, y
    <2>2. IsStored(c, e, u) /\ IsStored(Masked(k, {a}, w), f, w)
        BY <2>1, XtsBlock
    <2> HIDE DEF c, e, f
    <2> QED
        BY <2>2 DEF IsStored
<1> HIDE DEF e, f, c
<1>4. Unmasked(k, c, w) # {a}
    <2> DEFINE z == Xor(c, {w})
               d == <<"dec", k, z>>
    <2>1. z = {e, u, w}
        BY <1>1, <1>2 DEF Xor
    <2> HIDE DEF z
    <2>2. Dec(k, z) = {d}
        BY <1>1, <2>1, DecFresh
    <2>3. d # w
        OBVIOUS
    <2> HIDE DEF d
    <2>4. Xor({d}, {w}) = {d, w}
        BY <2>3, XorAtoms
    <2>5. Unmasked(k, c, w) = {d, w}
        BY <2>2, <2>4, Zenon DEF Unmasked, z
    <2> QED
        BY <2>3, <2>5
<1>5. c # Masked(k, {a}, w)
    BY <1>1, <1>2
<1> QED
    BY <1>4, <1>5 DEF c

\* A sector of XTS.
XtsInverted(t, p, a, b) ==
    XtsDecrypt(t, XtsEncrypt(t, p, Padded(a, 0)), Padded(b, 0)) = p
XtsAlike(t, p, a, b) ==
    XtsEncrypt(t, p, Padded(a, 0)) = XtsEncrypt(t, p, Padded(b, 0))

LEMMA XtsSector ==
    ASSUME NEW t, NEW p, Symbolic(p), Len(p) # 0, NEW a
    PROVE  /\ XtsInverted(t, p, a, a)
           /\ \A b : XtsInverted(t, p, a, b) \/ XtsAlike(t, p, a, b) => a = b
<1> DEFINE n == Len(p)
           M(b, i) == XtsMask(t.tweak, Padded(b, 0), i)
           E(b) == XtsEncrypt(t, p, Padded(b, 0))
           D(b) == XtsDecrypt(t, E(a), Padded(b, 0))
<1>1. n \in Nat /\ 1 \in 1..n /\ p = [i \in 1..n |-> p[i]]
    BY DEF Symbolic
<1>2. \A b : E(b) = [i \in 1..n |-> Xor(Enc(t.fvek, Xor(p[i], M(b, i))), M(b, i))]
    BY DEF XtsEncrypt
<1>3. \A b : D(b) = [i \in 1..Len(E(a)) |-> Xor(Dec(t.fvek, Xor(E(a)[i], M(b, i))), M(b, i))]
    BY DEF XtsDecrypt
<1> HIDE DEF n, E, D, M
<1>4. Len(E(a)) = n
    BY <1>1, <1>2
<1> DEFINE Pair(i, b, x, u, w) ==
               /\ p[i] = {x} /\ x[1] \in {"plain", "diffused"}
               /\ u[1] = "times" /\ w[1] = "times" /\ (u = w => a = b)
               /\ E(a)[i] = Masked(t.fvek, {x}, u)
               /\ E(b)[i] = Masked(t.fvek, {x}, w)
               /\ D(a)[i] = Unmasked(t.fvek, E(a)[i], u)
               /\ D(b)[i] = Unmasked(t.fvek, E(a)[i], w)
<1>5. ASSUME NEW i \in 1..n, NEW b PROVE \E x, u, w : Pair(i, b, x, u, w)
    <2>1. PICK x : p[i] = {x} /\ x[1] \in {"plain", "diffused"}
        BY DEF Symbolic, n
    <2>2. PICK u : M(a, i) = {u} /\ u[1] = "times" /\ (M(b, i) = {u} => a = b)
        BY MaskAt DEF M
    <2>3. PICK w : M(b, i) = {w} /\ w[1] = "times"
        BY MaskAt DEF M
    <2>4. E(a)[i] = Masked(t.fvek, {x}, u) /\ E(b)[i] = Masked(t.fvek, {x}, w)
        BY <1>2, <2>1, <2>2, <2>3 DEF Masked
    <2>5. /\ D(a)[i] = Unmasked(t.fvek, E(a)[i], u)
          /\ D(b)[i] = Unmasked(t.fvek, E(a)[i], w)
        BY <1>3, <1>4, <2>2, <2>3 DEF Unmasked
    <2> QED
        BY <2>1, <2>2, <2>3, <2>4, <2>5
<1>6. D(a) = p
    <2>1. ASSUME NEW i \in 1..n PROVE D(a)[i] = p[i]
        <3>1. PICK x, u, w : Pair(i, a, x, u, w)
            <4> HIDE DEF Pair
            <4> QED
                BY <1>5
        <3>2. x[1] \in {"plain", "diffused"} /\ u[1] = "times"
            BY <3>1
        <3>3. Unmasked(t.fvek, Masked(t.fvek, {x}, u), u) = {x}
            <4> DEFINE k == t.fvek
            <4> HIDE DEF k
            <4>1. Unmasked(k, Masked(k, {x}, u), u) = {x}
                BY <3>2, XtsUndone
            <4> QED
                BY <4>1 DEF k
        <3> QED
            BY <3>1, <3>3, Zenon
    <2>2. D(a) = [i \in 1..n |-> D(a)[i]]
        BY <1>3, <1>4
    <2> QED
        BY <1>1, <2>1, <2>2
<1>7. ASSUME NEW b, a # b PROVE D(b) # p /\ E(a) # E(b)
    <2>1. D(b)[1] # p[1] /\ E(a)[1] # E(b)[1]
        <3>1. PICK x, u, w : Pair(1, b, x, u, w)
            <4> HIDE DEF Pair
            <4> QED
                BY <1>1, <1>5
        <3>2. /\ Unmasked(t.fvek, Masked(t.fvek, {x}, u), w) # {x}
              /\ Masked(t.fvek, {x}, u) # Masked(t.fvek, {x}, w)
            BY <1>7, <3>1, XtsOtherMask
        <3> QED
            BY <3>1, <3>2
    <2> QED
        BY <2>1
<1> QED
    BY <1>6, <1>7 DEF D, E, XtsInverted, XtsAlike

\* A sector encrypted by any of the transforms: at its own address it decrypts to
\* what it was.
LEMMA SectorInverts ==
    ASSUME NEW t, NEW p, Symbolic(p), Len(p) # 0, NEW a
    PROVE  decrypt_sector(t, encrypt_sector(t, p, a), a) = p
<1> DEFINE iv == ecb(t.fvek, le128(a))
           sk == sector_key(t.tweak, a)
<1>1. IsVector(iv, t.fvek, Padded(a, 0))
    BY VectorAt DEF le128
<1> HIDE DEF iv, sk
<1>2. CASE t.mode = "Xts"
    <2> DEFINE m == a \div 512
    <2> HIDE DEF m
    <2>1. XtsInverted(t, p, m, m)
        BY XtsSector
    <2> QED
        BY <1>2, <2>1 DEF decrypt_sector, encrypt_sector, xts_decrypt_sector, xts_encrypt_sector,
                          XtsInverted, m
<1>3. CASE t.mode # "Xts" /\ t.tweak = NoTweak
    <2>1. CbcDecrypt(t.fvek, iv, CbcEncrypt(t.fvek, iv, p)) = p
        BY <1>1, CbcInverts
    <2> QED
        BY <1>3, <2>1 DEF decrypt_sector, encrypt_sector, iv
<1>4. CASE t.mode # "Xts" /\ t.tweak # NoTweak
    <2> DEFINE d == Diffuse(sk, p)
    <2>1. Symbolic(d) /\ Undiffuse(sk, d) = p
        BY Diffused
    <2> HIDE DEF d
    <2>2. CbcDecrypt(t.fvek, iv, CbcEncrypt(t.fvek, iv, d)) = d
        BY <1>1, <2>1, CbcInverts
    <2> QED
        BY <1>4, <2>1, <2>2 DEF decrypt_sector, encrypt_sector, iv, d, sk
<1> QED
    BY <1>2, <1>3, <1>4

\* Addresses that the modes tell apart: CBC goes by the byte, XTS by the sector.
LEMMA OtherSector ==
    ASSUME NEW a \in Nat, NEW b \in Nat, a % 512 = 0, b % 512 = 0, a # b
    PROVE  a \div 512 # b \div 512
<1>1. a = 512 * (a \div 512) + (a % 512) /\ b = 512 * (b \div 512) + (b % 512)
    OBVIOUS
<1> QED
    BY <1>1

\* At another address it does not decrypt to what it was, and is not stored alike.
LEMMA SectorElsewhere ==
    ASSUME NEW t, NEW p, Symbolic(p), Len(p) # 0, NEW a, NEW b, a # b, a \div 512 # b \div 512
    PROVE  /\ decrypt_sector(t, encrypt_sector(t, p, a), b) # p
           /\ encrypt_sector(t, p, a) # encrypt_sector(t, p, b)
<1> DEFINE iv == ecb(t.fvek, le128(a))
           jv == ecb(t.fvek, le128(b))
           sk == sector_key(t.tweak, a)
           tk == sector_key(t.tweak, b)
           x == Padded(a, 0)
           y == Padded(b, 0)
<1>1. IsVector(iv, t.fvek, x) /\ IsVector(jv, t.fvek, y) /\ x # y
    <2>1. IsVector(iv, t.fvek, x)
        BY VectorAt, ZenonT(40) DEF le128
    <2>2. IsVector(jv, t.fvek, y)
        BY VectorAt, ZenonT(40) DEF le128
    <2>3. x # y
        BY VectorAt, Zenon
    <2> QED
        BY <2>1, <2>2, <2>3
<1> HIDE DEF iv, jv, sk, tk, x, y
<1>3. CASE t.mode = "Xts"
    <2> DEFINE m == a \div 512
               n == b \div 512
    <2>1. m # n
        OBVIOUS
    <2> HIDE DEF m, n
    <2>2. ~XtsInverted(t, p, m, n) /\ ~XtsAlike(t, p, m, n)
        BY <2>1, XtsSector
    <2> QED
        BY <1>3, <2>2
           DEF decrypt_sector, encrypt_sector, xts_decrypt_sector, xts_encrypt_sector,
               XtsInverted, XtsAlike, m, n
<1>4. CASE t.mode # "Xts" /\ t.tweak = NoTweak
    <2> DEFINE d == CbcDecrypt(t.fvek, jv, CbcEncrypt(t.fvek, iv, p))
    <2>0. Mixed(d, Len(p))
        <3> DEFINE k == t.fvek
        <3>1. Mixed(CbcDecrypt(k, jv, CbcEncrypt(k, iv, p)), Len(p))
            <4>1. IsVector(iv, k, x) /\ IsVector(jv, k, y) /\ x # y
                BY <1>1
            <4> HIDE DEF k
            <4> QED
                BY <4>1, CbcElsewhere
        <3> QED
            BY <3>1
    <2>1. 1 \in 1..Len(p) /\ \E e, f \in d[1] : e # f
        <3> HIDE DEF d
        <3> QED
            BY <2>0 DEF Mixed
    <2>2. PICK w : p[1] = {w}
        BY <2>1 DEF Symbolic
    <2>3. d # p
        <3> HIDE DEF d
        <3> QED
            BY <2>1, <2>2
    <2>4. CbcEncrypt(t.fvek, iv, p) # CbcEncrypt(t.fvek, jv, p)
        BY <1>1, CbcDiffers
    <2> QED
        BY <1>4, <2>3, <2>4 DEF decrypt_sector, encrypt_sector, iv, jv
<1>5. CASE t.mode # "Xts" /\ t.tweak # NoTweak
    <2> DEFINE q == Diffuse(sk, p)
               r == Diffuse(tk, p)
               d == CbcDecrypt(t.fvek, jv, CbcEncrypt(t.fvek, iv, q))
    <2>1. Symbolic(q) /\ Len(q) = Len(p) /\ Symbolic(r) /\ Len(r) = Len(p)
        BY Diffused
    <2> HIDE DEF q, r
    <2>2. Mixed(d, Len(q))
        <3> DEFINE k == t.fvek
        <3>1. Mixed(CbcDecrypt(k, jv, CbcEncrypt(k, iv, q)), Len(q))
            <4>1. IsVector(iv, k, x) /\ IsVector(jv, k, y) /\ x # y
                BY <1>1
            <4> HIDE DEF k
            <4> QED
                BY <2>1, <4>1, CbcElsewhere
        <3> QED
            BY <3>1
    <2>3. Undiffuse(tk, d) # p
        <3> HIDE DEF d
        <3> QED
            BY <2>1, <2>2, NotDiffused
    <2>4. CbcEncrypt(t.fvek, iv, q) # CbcEncrypt(t.fvek, jv, r)
        BY <1>1, <2>1, CbcDiffers
    <2> QED
        BY <1>5, <2>3, <2>4 DEF decrypt_sector, encrypt_sector, iv, jv, sk, tk, q, r
<1> QED
    BY <1>3, <1>4, <1>5

-----------------------------------------------------------------------------
(* The volume that is written, and what the parsers make of it. *)

\* Where entries end: after the first at least, and at a natural number.
LEMMA ExtentGrows ==
    ASSUME NEW s, NEW n \in Nat, \A i \in 1..n : s[i].len \in Nat
    PROVE  /\ Extent(s, n) \in Nat
           /\ n # 0 => Extent(s, n) >= 8 + s[1].len
           /\ n = 1 => Extent(s, n) = 8 + s[1].len
<1> DEFINE G == [i \in 1..n |-> [v \in Nat |-> v + 8 + s[i].len]]
           Of(f) == [i \in 0..n |-> IF i = 0 THEN 0 ELSE f[i - 1] + 8 + s[i].len]
           e == CHOOSE f : f = Of(f)
<1>1. Steps(G, n, Nat)
    BY DEF Steps
<1>2. PICK h \in [0..n -> Nat] : Recurs(h, G, 0, n)
    <2> HIDE DEF G
    <2> QED
        BY <1>1, Recursion
<1>3. h = Of(h)
    <2>1. \A i \in 1..n : h[i] = h[i - 1] + 8 + s[i].len
        <3> SUFFICES ASSUME NEW i \in 1..n PROVE h[i] = h[i - 1] + 8 + s[i].len
            OBVIOUS
        <3>1. h[i - 1] \in Nat /\ h[i] = G[i][h[i - 1]]
            <4> HIDE DEF G
            <4> QED
                BY <1>2 DEF Recurs
        <3>2. \A v \in Nat : G[i][v] = v + 8 + s[i].len
            OBVIOUS
        <3> HIDE DEF G
        <3> QED
            BY <3>1, <3>2
    <2>2. h[0] = 0
        BY <1>2 DEF Recurs
    <2> QED
        BY <2>1, <2>2
<1>4. e = Of(e)
    <2> HIDE DEF Of
    <2> QED
        BY <1>3
<1>5. Extent(s, n) = e[n]
    BY DEF Extent
<1> HIDE DEF e
<1>6. e[0] = 0 /\ \A i \in 1..n : e[i] = e[i - 1] + 8 + s[i].len
    <2>1. \A i \in 0..n : e[i] = IF i = 0 THEN 0 ELSE e[i - 1] + 8 + s[i].len
        BY <1>4
    <2> QED
        BY <2>1
<1> DEFINE Good(i) == e[i] \in Nat /\ (i # 0 => e[i] >= 8 + s[1].len)
           Bad == {i \in 0..n : ~Good(i)}
<1>7. Bad = {}
    <2> SUFFICES ASSUME Bad # {} PROVE FALSE
        OBVIOUS
    <2> DEFINE m == Min(Bad)
    <2>1. m \in Bad /\ \A l \in Bad : m =< l
        <3>1. Bad \in SUBSET Nat
            OBVIOUS
        <3> HIDE DEF Bad
        <3> QED
            BY <3>1, HasMin
    <2> HIDE DEF m
    <2>2. m \in 0..n /\ ~Good(m)
        BY <2>1
    <2>3. m # 0
        BY <1>6, <2>2
    <2>4. m \in 1..n /\ m - 1 \in 0..n /\ m - 1 < m
        BY <2>2, <2>3
    <2>5. Good(m - 1)
        <3> HIDE DEF Good
        <3> QED
            BY <2>1, <2>4
    <2>6. e[m] = e[m - 1] + 8 + s[m].len /\ s[m].len \in Nat
        BY <1>6, <2>4
    <2>7. CASE m = 1
        BY <1>6, <2>2, <2>6, <2>7, SMTT(30)
    <2>8. CASE m # 1
        <3>1. 1 \in 1..n /\ s[1].len \in Nat
            <4>1. 1 \in 1..n
                BY <2>4
            <4> HIDE DEF Bad
            <4> QED
                BY <4>1
        <3> DEFINE a == e[m - 1]
                   b == s[m].len
                   c == s[1].len
        <3>2. a \in Nat /\ b \in Nat /\ c \in Nat /\ a >= 8 + c /\ e[m] = a + 8 + b
            BY <2>4, <2>5, <2>6, <2>8, <3>1
        <3>3. ~(e[m] \in Nat /\ e[m] >= 8 + c)
            BY <2>2
        <3> HIDE DEF a, b, c, Bad
        <3> QED
            BY <3>2, <3>3
    <2> QED
        BY <2>7, <2>8
<1>8. Good(n)
    <2> HIDE DEF Good
    <2> QED
        BY <1>7
<1>9. n = 1 => e[n] = 8 + s[1].len
    <2> SUFFICES ASSUME n = 1 PROVE e[n] = 8 + s[1].len
        OBVIOUS
    <2>1. e[1] = e[0] + 8 + s[1].len /\ s[1].len \in Nat /\ e[0] = 0
        BY <1>6
    <2> DEFINE c == s[1].len
    <2> HIDE DEF c, Bad
    <2> QED
        BY <2>1 DEF c
<1> QED
    BY <1>5, <1>8, <1>9

\* What the parsers need of an entry.
Kept(e) == e.nested \in Seq(Range(e.nested)) /\ e.protection \in U16 /\ e.len \in Nat

IsProps(props) == props \in Seq(Range(props)) /\ \A i \in 1..Len(props) : props[i].len \in Nat

LEMMA OneProp == ASSUME NEW a, a.len \in Nat PROVE IsProps(<<a>>)
<1> DEFINE s == <<a>>
<1>1. s \in Seq({a}) /\ Len(s) = 1 /\ s[1] = a /\ DOMAIN s = {1}
    OBVIOUS
<1> HIDE DEF s
<1>2. Range(s) = {a}
    BY <1>1 DEF Range
<1>3. \A i \in 1..Len(s) : s[i].len \in Nat
    BY <1>1
<1> QED
    BY <1>1, <1>2, <1>3 DEF IsProps, s

LEMMA TwoProps == ASSUME NEW a, a.len \in Nat, NEW b, b.len \in Nat PROVE IsProps(<<a, b>>)
<1> DEFINE s == <<a, b>>
<1>1. s \in Seq({a, b}) /\ Len(s) = 2 /\ s[1] = a /\ s[2] = b /\ DOMAIN s = {1, 2}
    OBVIOUS
<1> HIDE DEF s
<1>2. Range(s) = {a, b}
    BY <1>1 DEF Range
<1>3. \A i \in 1..Len(s) : s[i].len \in Nat
    BY <1>1
<1> QED
    BY <1>1, <1>2, <1>3 DEF IsProps, s

LEMMA VmkKept ==
    ASSUME NEW protection \in U16, NEW props, IsProps(props)
    PROVE  Kept(Vmk(protection, props)) /\ Vmk(protection, props).entry_type = 2
<1> DEFINE n == Len(props)
           x == Extent(props, n)
<1>1. n \in Nat /\ props \in Seq(Range(props))
    BY DEF IsProps
<1>2. x \in Nat
    <2> HIDE DEF n
    <2>1. \A i \in 1..n : props[i].len \in Nat
        BY DEF IsProps, n
    <2> QED
        BY <1>1, <2>1, ExtentGrows
<1>3. Vmk(protection, props) = [entry_type |-> 2, value_type |-> VALUE_TYPE_VMK, len |-> 28 + x,
                                protection |-> protection, nested |-> props, content |-> <<>>]
    BY DEF Vmk, Entry, ENTRY_TYPE_VMK
<1> HIDE DEF x
<1>4. 28 + x \in Nat
    BY <1>2
<1> QED
    BY <1>1, <1>3, <1>4 DEF Kept

\* The entries behind the one for the volume header, and their lengths.
Protectors == <<PasswordVmk("p1", "s1"), RecoveryVmk("r1", "s2"), ClearVmk("k0"), StartupVmk("k1"),
                FvekEntry(76)>>

LEMMA SealedLen == ASSUME NEW u PROVE SealedVmk(u).len \in Nat
    BY DEF SealedVmk, CcmEntry, Entry

LEMMA ProtectorsKept ==
    /\ Protectors \in Seq(Range(Protectors)) /\ Len(Protectors) = 5
    /\ \A e \in Range(Protectors) : /\ Kept(e) /\ e.entry_type \in {2, 3}
                                    /\ e.entry_type = 3 => e = FvekEntry(76)
<1> DEFINE a == PasswordVmk("p1", "s1")
           b == RecoveryVmk("r1", "s2")
           c == ClearVmk("k0")
           d == StartupVmk("k1")
           f == FvekEntry(76)
<1>0. 8192 \in U16 /\ 2048 \in U16 /\ 0 \in U16 /\ 512 \in U16
    BY DEF U16
<1>1. ASSUME NEW salt, NEW u, NEW k
      PROVE  /\ StretchEntry(20, salt).len \in Nat /\ KeyEntry(36, k).len \in Nat
    BY DEF StretchEntry, KeyEntry, Entry
<1>2. Kept(a) /\ a.entry_type = 2
    <2> DEFINE x == StretchEntry(20, "s1")
               y == SealedVmk(stretch_key(password_hash("p1"), <<"s1">>))
    <2>1. x.len \in Nat /\ y.len \in Nat
        BY <1>1, SealedLen
    <2>2. a = Vmk(8192, <<x, y>>)
        BY DEF PasswordVmk, PROTECTION_PASSWORD
    <2> HIDE DEF x, y
    <2>3. IsProps(<<x, y>>)
        BY <2>1, TwoProps
    <2> HIDE DEF a
    <2> QED
        BY <1>0, <2>2, <2>3, VmkKept
<1>3. Kept(b) /\ b.entry_type = 2
    <2> DEFINE x == StretchEntry(20, "s2")
               y == SealedVmk(stretch_key(recovery_key_hash("r1"), <<"s2">>))
    <2>1. x.len \in Nat /\ y.len \in Nat
        BY <1>1, SealedLen
    <2>2. b = Vmk(2048, <<x, y>>)
        BY DEF RecoveryVmk, PROTECTION_RECOVERY
    <2> HIDE DEF x, y
    <2>3. IsProps(<<x, y>>)
        BY <2>1, TwoProps
    <2> HIDE DEF b
    <2> QED
        BY <1>0, <2>2, <2>3, VmkKept
<1>4. Kept(c) /\ c.entry_type = 2
    <2> DEFINE x == KeyEntry(36, "k0")
               y == SealedVmk(<<"key", "k0">>)
    <2>1. x.len \in Nat /\ y.len \in Nat
        BY <1>1, SealedLen
    <2>2. c = Vmk(0, <<x, y>>)
        BY DEF ClearVmk, PROTECTION_CLEAR
    <2> HIDE DEF x, y
    <2>3. IsProps(<<x, y>>)
        BY <2>1, TwoProps
    <2> HIDE DEF c
    <2> QED
        BY <1>0, <2>2, <2>3, VmkKept
<1>5. Kept(d) /\ d.entry_type = 2
    <2> DEFINE y == SealedVmk(<<"key", "k1">>)
    <2>1. y.len \in Nat
        BY SealedLen
    <2>2. d = Vmk(512, <<y>>)
        BY DEF StartupVmk, PROTECTION_STARTUP_KEY
    <2> HIDE DEF y
    <2>3. IsProps(<<y>>)
        BY <2>1, OneProp
    <2> HIDE DEF d
    <2> QED
        BY <1>0, <2>2, <2>3, VmkKept
<1>6. Kept(f) /\ f.entry_type = 3
    <2>1. f.nested = <<>> /\ f.protection = 0 /\ f.len = 104 /\ f.entry_type = 3
        BY DEF FvekEntry, CcmEntry, Entry, ENTRY_TYPE_FVEK
    <2> HIDE DEF f
    <2> QED
        BY <1>0, <2>1 DEF Kept
<1> DEFINE s == <<a, b, c, d, f>>
<1>7. s = Protectors
    BY DEF Protectors
<1>8. f = FvekEntry(76)
    OBVIOUS
<1> HIDE DEF a, b, c, d, f
<1>9. /\ s \in Seq({a, b, c, d, f}) /\ Len(s) = 5
      /\ s[1] = a /\ s[2] = b /\ s[3] = c /\ s[4] = d /\ s[5] = f
    OBVIOUS
<1> HIDE DEF s
<1>10. Range(s) = {a, b, c, d, f}
    <2>1. DOMAIN s = 1..5
        BY <1>9
    <2>2. DOMAIN s = {1, 2, 3, 4, 5}
        BY <2>1
    <2>3. \A y : y \in Range(s) <=> y \in {a, b, c, d, f}
        BY <1>9, <2>2 DEF Range
    <2> QED
        BY <2>3
<1> QED
    BY <1>2, <1>3, <1>4, <1>5, <1>6, <1>7, <1>8, <1>9, <1>10

LEMMA ConsIs ==
    ASSUME NEW h, NEW q, q \in Seq(Range(q))
    PROVE  LET s == <<h>> \o q
           IN  /\ s \in Seq(Range(s)) /\ Len(s) = Len(q) + 1 /\ s[1] = h
               /\ Range(s) \subseteq Range(q) \cup {h}
<1> DEFINE s == <<h>> \o q
           S == Range(q) \cup {h}
<1>1. <<h>> \in Seq(S) /\ Len(<<h>>) = 1 /\ q \in Seq(S) /\ Len(q) \in Nat
    OBVIOUS
<1>2. s \in Seq(S) /\ Len(s) = Len(q) + 1 /\ s[1] = h
    <2> HIDE DEF S
    <2> QED
        BY <1>1
<1> HIDE DEF s, S
<1>3. Range(s) \subseteq S
    BY <1>2 DEF Range
<1>4. s \in Seq(Range(s))
    <2>1. DOMAIN s = 1..Len(s) /\ Len(s) \in Nat
        BY <1>2
    <2>2. \A i \in 1..Len(s) : s[i] \in Range(s)
        BY <2>1 DEF Range
    <2>3. s = [i \in 1..Len(s) |-> s[i]]
        BY <1>2
    <2>4. s \in [1..Len(s) -> Range(s)]
        <3> DEFINE R == Range(s)
        <3> HIDE DEF R
        <3> QED
            BY <2>2, <2>3 DEF R
    <2> QED
        BY <2>1, <2>4
<1> QED
    BY <1>2, <1>3, <1>4 DEF s, S

\* The entry for the volume header, of a volume that has one.
FirstEntry(t) == HeaderEntry(t.header_offset, IF t.place = "entry" THEN t.header_size ELSE 0)

LEMMA FirstEntryIs ==
    ASSUME NEW t
    PROVE  LET e == FirstEntry(t)
           IN  /\ Kept(e) /\ e.entry_type = 15 /\ e.len = 16
               /\ e.content[1] = t.header_offset
               /\ e.content[2] = IF t.place = "entry" THEN t.header_size ELSE 0
<1> DEFINE e == FirstEntry(t)
           z == IF t.place = "entry" THEN t.header_size ELSE 0
<1>1. /\ e.entry_type = 15 /\ e.len = 16 /\ e.nested = <<>> /\ e.protection = 0
      /\ e.content = <<t.header_offset, z>>
    BY DEF FirstEntry, HeaderEntry, Entry, ENTRY_TYPE_VOLUME_HEADER
<1> HIDE DEF e
<1>2. 0 \in U16
    BY DEF U16
<1>3. Kept(e)
    BY <1>1, <1>2 DEF Kept
<1> HIDE DEF z
<1>4. e.content[1] = t.header_offset /\ e.content[2] = z
    BY <1>1
<1> QED
    BY <1>1, <1>3, <1>4 DEF e, z

\* The entries of a volume that is written.
LEMMA EntriesKept ==
    ASSUME NEW t \in Truths
    PROVE  LET s == WrittenEntries(t)
           IN  /\ s \in Seq(Range(s)) /\ Len(s) \in Nat \ {0}
               /\ \A e \in Range(s) : Kept(e) /\ (e.entry_type = 3 => e = FvekEntry(76))
               /\ t.place = "block" => \A e \in Range(s) : e.entry_type # 15
               /\ t.place # "block" => s[1] = FirstEntry(t)
<1> DEFINE s == WrittenEntries(t)
           q == Protectors
           h == FirstEntry(t)
<1>1. t.place \in {"entry", "offset", "block"}
    BY VolumesAssumption
<1>2. /\ q \in Seq(Range(q)) /\ Len(q) = 5
      /\ \A e \in Range(q) : /\ Kept(e) /\ e.entry_type \in {2, 3}
                             /\ e.entry_type = 3 => e = FvekEntry(76)
    BY ProtectorsKept
<1>3. Kept(h) /\ h.entry_type = 15
    BY FirstEntryIs
<1>4. CASE t.place = "block"
    <2>1. s = <<>> \o q
        BY <1>4 DEF WrittenEntries, Protectors
    <2> HIDE DEF s, q
    <2>2. s = q
        BY <1>2, <2>1
    <2> QED
        BY <1>2, <1>4, <2>2 DEF s
<1>5. CASE t.place # "block"
    <2>1. s = <<h>> \o q
        BY <1>1, <1>5 DEF WrittenEntries, Protectors, FirstEntry
    <2> HIDE DEF s, q, h
    <2>2. /\ s \in Seq(Range(s)) /\ Len(s) = Len(q) + 1 /\ s[1] = h
          /\ Range(s) \subseteq Range(q) \cup {h}
        BY <1>2, <2>1, ConsIs
    <2>3. \A e \in Range(s) : Kept(e) /\ (e.entry_type = 3 => e = FvekEntry(76))
        BY <1>2, <1>3, <2>2
    <2>4. Len(s) \in Nat \ {0}
        BY <1>2, <2>2
    <2> QED
        BY <1>5, <2>2, <2>3, <2>4 DEF s, h
<1> QED
    BY <1>4, <1>5

\* With room for the entry of the volume header, parsing gets past it.
LEMMA FirstIsParsed ==
    ASSUME NEW s, s \in Seq(Range(s)), Len(s) \in Nat \ {0}, \A e \in Range(s) : e.len \in Nat,
           s[1].len = 16, NEW room \in Int, 24 =< room
    PROVE  LET es == parse_sequence(s, room) IN Len(es) \in Nat \ {0} /\ es[1] = s[1]
<1> DEFINE n == Len(s)
           whole == {i \in DOMAIN s : Extent(s, i) =< room}
           c == Cardinality(whole)
<1>1. n \in Nat \ {0} /\ DOMAIN s = 1..n /\ 1 \in 1..n
    OBVIOUS
<1>2. Extent(s, 1) = 24
    <2>1. \A i \in 1..1 : s[i].len \in Nat
        BY <1>1 DEF Range
    <2>2. Extent(s, 1) = 8 + s[1].len
        BY <2>1, ExtentGrows
    <2> QED
        BY <2>2
<1>3. whole \in SUBSET (1..n) /\ 1 \in whole
    <2>1. 1 \in whole
        BY <1>1, <1>2
    <2> QED
        BY <1>1, <2>1
<1>4. parse_sequence(s, room) = SubSeq(s, 1, c)
    BY DEF parse_sequence
<1> HIDE DEF whole
<1>5. c \in 1..n
    <2> HIDE DEF n
    <2>1. IsFiniteSet(1..n) /\ Cardinality(1..n) = n
        <3>1. /\ IsFiniteSet(1..n)
              /\ Cardinality(1..n) = IF 1 > n THEN 0 ELSE n - 1 + 1
            BY <1>1, FS_Interval, SMT
        <3> QED
            BY <1>1, <3>1
    <2>2. IsFiniteSet(whole) /\ c =< n
        BY <1>3, <2>1, FS_Subset
    <2>3. c \in Nat /\ c # 0
        BY <1>3, <2>2, FS_CardinalityType, FS_EmptySet
    <2> QED
        BY <1>1, <2>2, <2>3
<1> HIDE DEF c
<1>6. Len(SubSeq(s, 1, c)) = c /\ SubSeq(s, 1, c)[1] = s[1]
    BY <1>1, <1>5
<1> QED
    BY <1>4, <1>5, <1>6

\* A copy of the block of a volume that is written, signed or not.
IsCopy(b, t) == \E x : b = [WrittenBlock(t) EXCEPT !.signed = x]

LEMMA CopyFields ==
    ASSUME NEW t \in Truths, NEW b, IsCopy(b, t)
    PROVE  /\ b.len = 65536 /\ b.method = t.method /\ b.entries = WrittenEntries(t)
           /\ b.metadata_size = WrittenBlock(t).metadata_size
           /\ b.metadata_size = 48 + Extent(WrittenEntries(t), Len(WrittenEntries(t)))
           /\ b.regions.encrypted = t.encrypted /\ b.regions.offsets = t.offsets
           /\ b.regions.sectors = t.header_size \div 512
           /\ b.regions.header_offset = IF t.place = "offset" THEN 0 ELSE t.header_offset
<1>1. PICK x : b = [WrittenBlock(t) EXCEPT !.signed = x]
    BY DEF IsCopy
<1> DEFINE es == WrittenEntries(t)
           size == 48 + Extent(es, Len(es))
           sectors == t.header_size \div 512
           offset == IF t.place = "offset" THEN 0 ELSE t.header_offset
           g == [encrypted |-> t.encrypted, sectors |-> sectors, header_offset |-> offset,
                 offsets |-> t.offsets]
<1>2. WrittenBlock(t) = [signed |-> TRUE, len |-> 65536, method |-> t.method,
                         metadata_size |-> size, entries |-> es, regions |-> g]
    BY SMTT(30) DEF WrittenBlock, WholeBlock, Block, Geometry
<1> HIDE DEF es, size, sectors, offset
<1>3. /\ g.encrypted = t.encrypted /\ g.sectors = sectors /\ g.header_offset = offset
      /\ g.offsets = t.offsets
    OBVIOUS
<1> HIDE DEF g
<1>4. /\ b.len = 65536 /\ b.method = t.method /\ b.entries = es /\ b.metadata_size = size
      /\ b.regions = g /\ WrittenBlock(t).metadata_size = size
    BY <1>1, <1>2
<1> QED
    BY <1>3, <1>4 DEF es, size, sectors, offset

LEMMA WrittenSize ==
    ASSUME NEW t \in Truths
    PROVE  Extent(WrittenEntries(t), Len(WrittenEntries(t))) \in Nat
<1> DEFINE s == WrittenEntries(t)
           n == Len(s)
<1>1. s \in Seq(Range(s)) /\ n \in Nat /\ \A e \in Range(s) : e.len \in Nat
    BY EntriesKept DEF Kept
<1> HIDE DEF s
<1>2. \A i \in 1..n : s[i].len \in Nat
    BY <1>1 DEF Range
<1> HIDE DEF n
<1>3. Extent(s, n) \in Nat
    BY <1>1, <1>2, ExtentGrows
<1> QED
    BY <1>3 DEF s, n

\* The entries that are parsed are of those written, and the one of the volume
\* header is the first of them.
LEMMA ParsedEntries ==
    ASSUME NEW t \in Truths, NEW b, IsCopy(b, t)
    PROVE  LET es == EntriesOf(b)
           IN  /\ es \in Seq(Range(WrittenEntries(t)))
               /\ Range(es) \subseteq Range(WrittenEntries(t))
               /\ t.place # "block" => Len(es) \in Nat \ {0} /\ es[1] = FirstEntry(t)
<1> DEFINE s == WrittenEntries(t)
           x == Extent(s, Len(s))
           room == Min({112 + x, 65536}) - 112
<1>1. x \in Nat
    BY WrittenSize
<1>2. /\ s \in Seq(Range(s)) /\ Len(s) \in Nat \ {0} /\ \A e \in Range(s) : e.len \in Nat
      /\ t.place # "block" => s[1] = FirstEntry(t)
    BY EntriesKept DEF Kept
<1>3. EntriesOf(b) = parse_sequence(s, room)
    <2>1. b.len = 65536 /\ b.entries = s /\ b.metadata_size = 48 + x
        BY CopyFields
    <2>2. Field(b.len, 64, 4, b.metadata_size) = 48 + x
        <3> DEFINE y == 48 + x
        <3> HIDE DEF y
        <3> QED
            BY <2>1 DEF Field, y
    <2>3. 64 + (48 + x) = 112 + x
        BY <1>1
    <2> HIDE DEF s, x
    <2> QED
        BY <2>1, <2>2, <2>3 DEF EntriesOf
<1>4. room \in Int /\ (t.place # "block" => 24 =< room)
    <2> DEFINE S == {112 + x, 65536}
    <2>1. S \in SUBSET Nat /\ S # {}
        <3> HIDE DEF x
        <3> QED
            BY <1>1
    <2>2. Min(S) \in S
        <3> HIDE DEF S
        <3> QED
            BY <2>1, HasMin
    <2>3. t.place # "block" => x >= 24
        <3> SUFFICES ASSUME t.place # "block" PROVE x >= 24
            OBVIOUS
        <3>1. s[1].len = 16
            BY <1>2, FirstEntryIs
        <3>2. \A i \in 1..Len(s) : s[i].len \in Nat
            <4> HIDE DEF s
            <4> QED
                BY <1>2 DEF Range
        <3> DEFINE n == Len(s)
        <3>3. n \in Nat \ {0}
            BY <1>2
        <3> HIDE DEF s
        <3>4. Extent(s, n) >= 8 + s[1].len
            <4> HIDE DEF n
            <4> QED
                BY <3>2, <3>3, ExtentGrows DEF n
        <3> QED
            BY <1>1, <3>1, <3>4
    <2> DEFINE u == Min(S)
    <2> HIDE DEF x
    <2>4. u = 112 + x \/ u = 65536
        BY <2>2
    <2> HIDE DEF u, S
    <2>5. u - 112 \in Int /\ (t.place # "block" => 24 =< u - 112)
        BY <1>1, <2>3, <2>4
    <2> QED
        BY <2>5 DEF u, S
<1> HIDE DEF s, room, x
<1>5. parse_sequence(s, room) \in Seq(Range(s)) /\ Range(parse_sequence(s, room)) \subseteq Range(s)
    BY <1>2, Prefix
<1>6. ASSUME t.place # "block"
      PROVE  Len(parse_sequence(s, room)) \in Nat \ {0} /\ parse_sequence(s, room)[1] = s[1]
    <2>1. s[1].len = 16
        BY <1>2, <1>6, FirstEntryIs
    <2> QED
        BY <1>2, <1>4, <1>6, <2>1, FirstIsParsed
<1> QED
    BY <1>2, <1>3, <1>5, <1>6 DEF s

\* What Find looks through in RelocatedHeader.
HeaderEntries(es) == {i \in 1..Len(es) : es[i].entry_type = ENTRY_TYPE_VOLUME_HEADER}

LEMMA HeaderEntryFound ==
    ASSUME NEW t \in Truths, NEW b, IsCopy(b, t)
    PROVE  LET es == EntriesOf(b)
               I == HeaderEntries(es)
           IN  /\ t.place = "block" => I = {}
               /\ t.place # "block" => I # {} /\ Min(I) = 1 /\ es[1] = FirstEntry(t)
<1> DEFINE s == WrittenEntries(t)
           es == EntriesOf(b)
           I == HeaderEntries(es)
<1>1. /\ es \in Seq(Range(s)) /\ Range(es) \subseteq Range(s)
      /\ t.place # "block" => Len(es) \in Nat \ {0} /\ es[1] = FirstEntry(t)
    BY ParsedEntries
<1>2. t.place = "block" => \A e \in Range(s) : e.entry_type # 15
    BY EntriesKept
<1> HIDE DEF s, es
<1>3. CASE t.place = "block"
    <2>1. \A i \in 1..Len(es) : es[i] \in Range(s)
        BY <1>1
    <2>2. I = {}
        BY <1>2, <1>3, <2>1 DEF ENTRY_TYPE_VOLUME_HEADER, HeaderEntries
    <2> QED
        BY <1>3, <2>2 DEF es
<1>4. CASE t.place # "block"
    <2>1. 1 \in 1..Len(es) /\ es[1].entry_type = 15
        BY <1>1, <1>4, FirstEntryIs
    <2>2. 1 \in I /\ I \in SUBSET Nat /\ 0 \notin I
        BY <2>1 DEF ENTRY_TYPE_VOLUME_HEADER, HeaderEntries
    <2>3. Min(I) = 1
        <3> HIDE DEF I
        <3>1. Min(I) \in I /\ \A y \in I : Min(I) =< y
            BY <2>2, HasMin
        <3> DEFINE m == Min(I)
        <3>2. m \in Nat /\ m # 0 /\ m =< 1
            BY <2>2, <3>1
        <3> HIDE DEF m
        <3>3. m = 1
            BY <3>2
        <3> QED
            BY <3>3 DEF m
    <2> QED
        BY <1>1, <1>4, <2>2, <2>3 DEF es
<1> QED
    BY <1>3, <1>4

\* The relocated header is found where it is, and of the size claimed for it.
LEMMA HeaderFound ==
    ASSUME NEW t \in Truths, NEW b, IsCopy(b, t)
    PROVE  /\ RelocatedHeader(b, t.bytes)[1] = t.header_offset
           /\ RelocatedHeader(b, t.bytes)[2] = ClaimedSize(t)
<1> DEFINE bytes == t.bytes
           n == t.header_size \div 512
           es == EntriesOf(b)
           I == HeaderEntries(es)
           i == IF I # {} THEN Min(I) ELSE 0
           Own(k) == IF i = 0 THEN 0 ELSE Field(es[i].len, 8 * (k - 1), 8, es[i].content[k])
           o == Field(b.len, 56, 8, b.regions.header_offset)
           z == Field(b.len, 28, 4, b.regions.sectors) * bytes
           u == IF Own(1) # 0 THEN Own(1) ELSE o
           w == IF Own(2) # 0 THEN Own(2) ELSE z
<1>1. RelocatedHeader(b, bytes) = <<u, w>>
    BY DEF RelocatedHeader, Find, HeaderEntries
<1>2. /\ t.header_offset \in Nat /\ t.header_size \in Nat /\ bytes \in Nat
      /\ t.place \in {"entry", "offset", "block"}
    BY VolumesAssumption
<1>3. /\ o = IF t.place = "offset" THEN 0 ELSE t.header_offset
      /\ z = n * bytes
    <2>1. /\ b.len = 65536 /\ b.regions.sectors = t.header_size \div 512
          /\ b.regions.header_offset = IF t.place = "offset" THEN 0 ELSE t.header_offset
        BY CopyFields
    <2> QED
        BY <2>1 DEF Field
<1>4. ClaimedSize(t) = IF t.place = "entry" THEN t.header_size ELSE z
    BY <1>3 DEF ClaimedSize
<1>5. t.header_size = 0 => z = 0
    <2>1. t.header_size = 0 => n = 0
        OBVIOUS
    <2> HIDE DEF n, bytes, z
    <2>2. 0 * bytes = 0
        BY <1>2
    <2> QED
        BY <1>3, <2>1, <2>2
<1> HIDE DEF o, z
<1>6. u = t.header_offset /\ w = ClaimedSize(t)
    <2>1. CASE t.place = "block"
        <3>1. I = {}
            BY <2>1, HeaderEntryFound
        <3>2. i = 0
            BY <3>1
        <3>3. u = o /\ w = z
            <4> HIDE DEF i
            <4> QED
                BY <3>2
        <3> HIDE DEF u, w
        <3>5. z = ClaimedSize(t)
            BY <1>4, <2>1
        <3>6. o = t.header_offset
            BY <1>3, <2>1
        <3> QED
            BY <3>3, <3>5, <3>6
    <2>2. CASE t.place # "block"
        <3>1. I # {} /\ Min(I) = 1 /\ es[1] = FirstEntry(t)
            BY <2>2, HeaderEntryFound
        <3>2. i = 1
            BY <3>1
        <3> DEFINE e == es[1]
        <3>3. /\ e.len = 16 /\ e.content[1] = t.header_offset
              /\ e.content[2] = IF t.place = "entry" THEN t.header_size ELSE 0
            BY <3>1, FirstEntryIs
        <3>4. Own(1) = Field(e.len, 0, 8, e.content[1]) /\ Own(2) = Field(e.len, 8, 8, e.content[2])
            <4> HIDE DEF i, es
            <4> QED
                BY <3>2
        <3> HIDE DEF e, i
        <3>5. Own(1) = t.header_offset /\ Own(2) = IF t.place = "entry" THEN t.header_size ELSE 0
            BY <3>3, <3>4, SMTT(30) DEF Field
        <3> DEFINE own1 == Own(1)
                   own2 == Own(2)
        <3>6. u = (IF own1 # 0 THEN own1 ELSE o) /\ w = IF own2 # 0 THEN own2 ELSE z
            OBVIOUS
        <3>7. own1 = t.header_offset /\ own2 = IF t.place = "entry" THEN t.header_size ELSE 0
            BY <3>5
        <3> HIDE DEF own1, own2, u, w, Own, I, es
        <3>8. u = t.header_offset
            <4>1. own1 = t.header_offset
                BY <3>7
            <4>2. CASE t.header_offset # 0
                BY <3>6, <4>1, <4>2
            <4>3. CASE t.header_offset = 0
                BY <1>3, <3>6, <4>1, <4>3
            <4> QED
                BY <4>2, <4>3
        <3>9. w = ClaimedSize(t)
            <4>1. own2 = IF t.place = "entry" THEN t.header_size ELSE 0
                BY <3>7
            <4>2. CASE t.place = "entry" /\ t.header_size # 0
                BY <1>4, <3>6, <4>1, <4>2
            <4>3. CASE t.place = "entry" /\ t.header_size = 0
                BY <1>4, <1>5, <3>6, <4>1, <4>3
            <4>4. CASE t.place # "entry"
                BY <1>4, <3>6, <4>1, <4>4
            <4> QED
                BY <4>2, <4>3, <4>4
        <3> QED
            BY <3>8, <3>9
    <2> QED
        BY <2>1, <2>2, Zenon
<1> HIDE DEF u, w
<1> QED
    BY <1>1, <1>6

\* A volume that is written is evidence as the unlock path takes it.
LEMMA WrittenIsEvidence == ASSUME NEW t \in Truths PROVE IsEvidence(Written(t))
<1> DEFINE i == Written(t)
           os == t.offsets
           words == [w \in HeaderWords |->
                        IF w = 56 THEN os[1] \div (t.bytes * 1)
                        ELSE os[CASE w \in {176, 440} -> 1 [] w \in {184, 448} -> 2 [] OTHER -> 3]]
           O == {os[k] : k \in 1..3}
           blocks == [o \in O |->
                         [WrittenBlock(t) EXCEPT !.signed = \E k \in 1..3 \ t.lost : os[k] = o]]
<1>1. /\ t.bytes \in Nat \ {0} /\ t.method \in Nat
      /\ os[1] \in Nat /\ os[2] \in Nat /\ os[3] \in Nat
      /\ \A k \in 1..3 : os[k] \in Nat /\ os[k] + WrittenBlock(t).metadata_size < U64
    BY VolumesAssumption
<1>2. /\ i.header.bytes_per_sector = t.bytes /\ i.header.sectors_per_cluster = 1
      /\ i.header.words = words
    BY DEF Written, WrittenHeader, HeaderSector
<1>3. ASSUME NEW w \in HeaderWords PROVE words[w] \in Nat
    <2>1. CASE w = 56
        <3> DEFINE a == os[1]
                   b == t.bytes
        <3>1. words[w] = a \div (b * 1)
            BY <2>1 DEF HeaderWords
        <3>2. a \in Nat /\ b \in Nat /\ b > 0
            BY <1>1
        <3> HIDE DEF a, b
        <3>3. b * 1 = b
            BY <3>2
        <3>4. a \div b \in Nat
            BY <3>2
        <3> QED
            BY <3>1, <3>3, <3>4
    <2>2. CASE w # 56
        <3>1. words[w] = os[1] \/ words[w] = os[2] \/ words[w] = os[3]
            BY <2>2
        <3> HIDE DEF words
        <3> QED
            BY <1>1, <3>1
    <2> QED
        BY <2>1, <2>2
<1>4. i.blocks = blocks
    BY DEF Written
<1>5. ASSUME NEW o \in O
      PROVE  /\ o \in Nat /\ o + 8 =< U64
             /\ IsEntries(blocks[o].entries) /\ blocks[o].method \in Nat
    <2> DEFINE b == blocks[o]
               s == WrittenEntries(t)
               x == Extent(s, Len(s))
    <2>1. IsCopy(b, t)
        BY DEF IsCopy
    <2> HIDE DEF blocks
    <2>2. b.method = t.method /\ b.entries = s /\ WrittenBlock(t).metadata_size = 48 + x
        BY <2>1, CopyFields
    <2>3. x \in Nat /\ U64 \in Nat
        BY WrittenSize, EvidenceAssumption
    <2>4. IsEntries(s)
        <3>1. s \in Seq(Range(s)) /\ \A e \in Range(s) : Kept(e)
            BY EntriesKept
        <3> HIDE DEF s
        <3> QED
            BY <3>1 DEF IsEntries, Kept
    <2> HIDE DEF x
    <2>5. PICK k \in 1..3 : o = os[k]
        OBVIOUS
    <2>6. o \in Nat /\ o + (48 + x) < U64
        BY <1>1, <2>2, <2>5
    <2>7. o + 8 =< U64
        BY <2>3, <2>6
    <2> QED
        BY <1>1, <2>2, <2>4, <2>6, <2>7
<1>6. DOMAIN blocks = O
    OBVIOUS
<1> HIDE DEF i, words, blocks, O
<1>7. IsEvidence(i)
    BY <1>1, <1>2, <1>3, <1>4, <1>5, <1>6 DEF IsEvidence
<1> QED
    BY <1>7 DEF i

\* The metadata of a call that unlocks it is that of one of its copies.
LEMMA SignedIsCopy ==
    ASSUME NEW t \in Truths, image = Written(t), SignedCopies # {}
    PROVE  \E b : IsCopy(b, t) /\ FirstSigned = Parse(b, t.bytes)
<1> DEFINE c == Min(SignedCopies)
           b == BlockAt(Offsets[c])
<1>1. c \in SignedCopies
    <2>1. SignedCopies \in SUBSET Nat
        BY DEF SignedCopies
    <2> QED
        BY <2>1, HasMin
<1> HIDE DEF c
<1>2. b.signed
    BY <1>1 DEF SignedCopies
<1>3. Offsets[c] \in DOMAIN image.blocks
    <2> SUFFICES ASSUME Offsets[c] \notin DOMAIN image.blocks PROVE FALSE
        OBVIOUS
    <2>1. ~b.signed
        BY DEF BlockAt, Block
    <2> QED
        BY <1>2, <2>1
<1>4. IsCopy(b, t)
    <2> DEFINE o == Offsets[c]
    <2>1. b = image.blocks[o] /\ o \in DOMAIN image.blocks
        BY <1>3 DEF BlockAt
    <2> HIDE DEF o, b
    <2> QED
        BY <2>1 DEF Written, IsCopy
<1>5. volume_header.bytes_per_sector = t.bytes
    <2>1. t.bytes \in Nat \ {0}
        BY VolumesAssumption
    <2>2. image.header.bytes_per_sector = t.bytes
        BY DEF Written, WrittenHeader, HeaderSector
    <2>3. bytes_per_sector(image.header) = t.bytes
        BY <2>1, <2>2 DEF bytes_per_sector
    <2> QED
        BY <2>3 DEF volume_header, ParseHeader
<1> QED
    BY <1>4, <1>5 DEF FirstSigned, c

\* The metadata a volume was unlocked with.
Known(t) ==
    /\ meta.encryption_method = t.method /\ t.method \in {32768, 32770, 32771, 32772, 32773}
    /\ meta.encrypted_volume_size = t.encrypted
    /\ \A k \in 1..3 : meta.metadata_offsets[k] = t.offsets[k]
    /\ meta.metadata_size \in Nat /\ meta.metadata_size = WrittenBlock(t).metadata_size
    /\ meta.volume_header_offset = t.header_offset /\ meta.volume_header_size = ClaimedSize(t)
    /\ \A e \in Range(meta.entries) : e.entry_type = 3 => e = FvekEntry(76)

LEMMA UnlockedKnows ==
    ASSUME SoundInv, result.tag = "Ok", NEW t \in Truths, image = Written(t)
    PROVE  Known(t)
<1>1. /\ SignedCopies # {} /\ meta = FirstSigned
      /\ meta.encryption_method \in {32768, 32770, 32771, 32772, 32773}
    BY DEF SoundInv, UnlockIsSound, UnlockedIsEncrypted
<1>2. PICK b : IsCopy(b, t) /\ meta = Parse(b, t.bytes)
    BY <1>1, SignedIsCopy
<1> DEFINE m == Parse(b, t.bytes)
           x == Extent(WrittenEntries(t), Len(WrittenEntries(t)))
<1>3. /\ b.len = 65536 /\ b.method = t.method
      /\ b.metadata_size = WrittenBlock(t).metadata_size /\ b.metadata_size = 48 + x
      /\ b.regions.encrypted = t.encrypted /\ b.regions.offsets = t.offsets
    BY <1>2, CopyFields
<1>4. m.encryption_method = t.method /\ m.encrypted_volume_size = t.encrypted
    BY <1>3, SMTT(30) DEF Parse, Field
<1>5. \A k \in 1..3 : m.metadata_offsets[k] = t.offsets[k]
    <2>1. m.metadata_offsets = [k \in 1..3 |-> Field(65536, 24 + 8 * k, 8, t.offsets[k])]
        BY <1>3, SMTT(30) DEF Parse
    <2>2. \A k \in 1..3 : Field(65536, 24 + 8 * k, 8, t.offsets[k]) = t.offsets[k]
        BY DEF Field
    <2> HIDE DEF m
    <2> QED
        BY <2>1, <2>2
<1>6. m.metadata_size = WrittenBlock(t).metadata_size /\ m.metadata_size \in Nat
    <2>1. x \in Nat
        BY WrittenSize
    <2>2. m.metadata_size = Field(65536, 64, 4, b.metadata_size)
        BY <1>3 DEF Parse
    <2> HIDE DEF x, m
    <2>3. m.metadata_size = b.metadata_size
        BY <2>2 DEF Field
    <2>4. 48 + x \in Nat
        BY <2>1
    <2> QED
        BY <1>3, <2>3, <2>4
<1>7. m.volume_header_offset = t.header_offset /\ m.volume_header_size = ClaimedSize(t)
    <2> DEFINE y == t.bytes
    <2>1. /\ m.volume_header_offset = RelocatedHeader(b, y)[1]
          /\ m.volume_header_size = RelocatedHeader(b, y)[2]
        BY DEF Parse
    <2> HIDE DEF y, m
    <2>2. RelocatedHeader(b, y)[1] = t.header_offset /\ RelocatedHeader(b, y)[2] = ClaimedSize(t)
        BY <1>2, HeaderFound DEF y
    <2> QED
        BY <2>1, <2>2
<1>8. \A e \in Range(m.entries) : e.entry_type = 3 => e = FvekEntry(76)
    <2>1. m.entries = EntriesOf(b)
        BY DEF Parse
    <2>2. Range(EntriesOf(b)) \subseteq Range(WrittenEntries(t))
        BY <1>2, ParsedEntries
    <2>3. \A e \in Range(WrittenEntries(t)) : e.entry_type = 3 => e = FvekEntry(76)
        BY EntriesKept
    <2> HIDE DEF m
    <2> QED
        BY <2>1, <2>2, <2>3
<1>9. meta = m
    BY <1>2
<1> HIDE DEF m, x
<1>10. /\ meta.encryption_method = t.method /\ t.method \in {32768, 32770, 32771, 32772, 32773}
       /\ meta.encrypted_volume_size = t.encrypted
    BY <1>1, <1>4, <1>9
<1>11. \A k \in 1..3 : meta.metadata_offsets[k] = t.offsets[k]
    BY <1>5, <1>9
<1>12. meta.metadata_size \in Nat /\ meta.metadata_size = WrittenBlock(t).metadata_size
    BY <1>6, <1>9
<1>13. meta.volume_header_offset = t.header_offset /\ meta.volume_header_size = ClaimedSize(t)
    BY <1>7, <1>9
<1>14. \A e \in Range(meta.entries) : e.entry_type = 3 => e = FvekEntry(76)
    BY <1>8, <1>9
<1> QED
    BY <1>10, <1>11, <1>12, <1>13, <1>14, SMTT(30) DEF Known

\* The cipher it is read with is the one it was written with.
LEMMA UnlockedCipher ==
    ASSUME SoundInv, DecidesInv, result.tag = "Ok", NEW t \in Truths, image = Written(t)
    PROVE  cipher = WriterCipher(t)
<1>1. Known(t)
    BY UnlockedKnows
<1>2. result.cipher.container = TheFvek
    <2>1. result.cipher.container \in OpenedFveks(meta, request)
        BY DEF SoundInv, UnlockIsSound
    <2>2. PICK e \in Fveks(meta) : result.cipher.container = e.content.key
        BY <2>1, InOpenedFveks
    <2>3. e = FvekEntry(76)
        BY <1>1, <2>2 DEF Known, Fveks, OfType, ENTRY_TYPE_FVEK
    <2>4. FvekEntry(76).content.key = TheFvek
        BY DEF FvekEntry, CcmEntry, Entry, aes_ccm_wrap
    <2> QED
        BY <2>2, <2>3, <2>4
<1>3. result.cipher.kind = validated_kind(decode(t.method))
    <2>1. meta = FirstSigned
        BY DEF SoundInv, UnlockIsSound
    <2>2. result.cipher.kind = validated_kind(decode(FirstSigned.encryption_method))
        BY DEF DecidesInv, EndInv
    <2> QED
        BY <1>1, <2>1, <2>2 DEF Known
<1>4. /\ validated_kind(decode(32768)) = "Cbc128Diffuser"
      /\ validated_kind(decode(32770)) = "Cbc128"
      /\ validated_kind(decode(32771)) = "Cbc256"
      /\ validated_kind(decode(32772)) = "Xts128"
      /\ validated_kind(decode(32773)) = "Xts256"
    BY DEF validated_kind, decode, DecodeUpTo
<1> DEFINE k == result.cipher.kind
           c == TheFvek
<1>5. cipher = derive_cipher(k, c)
    BY <1>2 DEF cipher
<1>6. t.method \in {32768, 32770, 32771, 32772, 32773}
    BY <1>1 DEF Known
<1>7. \/ t.method = 32768 /\ k = "Cbc128Diffuser"
      \/ t.method = 32770 /\ k = "Cbc128"
      \/ t.method = 32771 /\ k = "Cbc256"
      \/ t.method = 32772 /\ k = "Xts128"
      \/ t.method = 32773 /\ k = "Xts256"
    BY <1>3, <1>4, <1>6
<1> HIDE DEF k, c
<1>8. derive_cipher(k, c) = WriterCipher(t)
    BY <1>7 DEF derive_cipher, WriterCipher, c
<1> QED
    BY <1>5, <1>8

-----------------------------------------------------------------------------
(* What its sectors read as. *)

\* The content of a sector is what the cipher lemmas are about.
LEMMA OriginalSymbolic ==
    ASSUME NEW s
    PROVE  Symbolic(Original(s)) /\ Len(Original(s)) # 0 /\ DOMAIN Original(s) = 1..BlockCount
<1> DEFINE o == Original(s)
           n == BlockCount
<1>1. n \in Nat \ {0}
    BY VolumesAssumption
<1>2. o = [i \in 1..n |-> {<<"plain", s, i>>}]
    BY DEF Original
<1> HIDE DEF o, n
<1>3. DOMAIN o = 1..n /\ Len(o) = n
    BY <1>1, <1>2
<1>4. o \in Seq(Range(o))
    <2>1. \A i \in 1..n : o[i] \in Range(o)
        BY <1>3 DEF Range
    <2>2. o \in [1..n -> Range(o)]
        <3> DEFINE R == Range(o)
        <3> HIDE DEF R
        <3> QED
            BY <1>2, <1>3, <2>1 DEF R
    <2> QED
        BY <1>1, <2>2
<1>5. ASSUME NEW i \in 1..n PROVE \E a : o[i] = {a} /\ a[1] \in {"plain", "diffused"}
    <2> DEFINE a == <<"plain", s, i>>
    <2>1. o[i] = {a} /\ a[1] = "plain"
        BY <1>2
    <2> HIDE DEF a
    <2> QED
        BY <2>1
<1>6. Symbolic(o)
    BY <1>3, <1>4, <1>5 DEF Symbolic
<1> QED
    BY <1>1, <1>3, <1>6 DEF o, n

\* What a sector of an unlocked volume reads as, wherever it is looked for.
LEMMA SectorReads ==
    ASSUME SoundInv, DecidesInv, result.tag = "Ok", NEW t \in Truths, image = Written(t), NEW s
    PROVE  decrypt_logical_sector(s) = IF Blanked(meta, s) THEN ZeroData
                                       ELSE Content(t, Physical(meta, s))
<1> DEFINE p == Physical(meta, s)
           c == Content(t, p)
           w == WriterCipher(t)
<1>1. Known(t) /\ cipher = w
    BY UnlockedKnows, UnlockedCipher
<1>2. image.truth = t
    BY DEF Written
<1>3. StoredAsPlaintext(meta, p) <=> t.encrypted # 0 /\ p >= t.encrypted
    BY <1>1 DEF Known, StoredAsPlaintext, METHOD_NONE
<1>4. decrypt_sector(w, encrypt_sector(w, c, p), p) = c
    <2>1. Symbolic(c) /\ Len(c) # 0
        BY OriginalSymbolic DEF Content
    <2> HIDE DEF c, w, p
    <2> QED
        BY <2>1, SectorInverts
<1>5. Disk(t, p) = IF t.encrypted # 0 /\ p >= t.encrypted THEN c ELSE encrypt_sector(w, c, p)
    BY DEF Disk
<1>6. decrypt_logical_sector(s) = IF Blanked(meta, s) THEN ZeroData
                                  ELSE IF StoredAsPlaintext(meta, p) THEN Disk(t, p)
                                  ELSE decrypt_sector(w, Disk(t, p), p)
    BY <1>1, <1>2 DEF decrypt_logical_sector, Decrypted
<1> HIDE DEF c, w, p
<1>7. decrypt_logical_sector(s) = IF Blanked(meta, s) THEN ZeroData ELSE c
    BY <1>3, <1>4, <1>5, <1>6
<1> QED
    BY <1>7 DEF c, p

-----------------------------------------------------------------------------
(* The invariant: what a call relies on, and what was read of the volume.  *)

ReadInv ==
    \/ got = NoData
    \/ /\ result.tag = "Ok" /\ IsWritten /\ got.sector \in ReadSectors /\ got.tag \in {"Ok", "Io"}
       /\ got.tag = "Ok" =>
             got.data = IF Blanked(meta, got.sector) THEN ZeroData
                        ELSE Content(image.truth, Physical(meta, got.sector))

SessionInv == /\ SoundInv /\ DecidesInv /\ Types
              /\ image \in Images \cup WrittenImages
              /\ ReadInv

\* A volume that can be read is one that was written.
LEMMA WrittenTruth ==
    ASSUME image \in Images \cup WrittenImages, IsWritten
    PROVE  \E t \in Truths : image = Written(t) /\ image.truth = t
<1>1. image \notin Images
    BY VolumesAssumption DEF IsWritten
<1>2. PICK t \in Truths : image = Written(t)
    BY <1>1 DEF WrittenImages
<1>3. image.truth = t
    BY <1>2 DEF Written
<1> QED
    BY <1>2, <1>3

LEMMA SessionStarts == SessionInit => SessionInv
<1> SUFFICES ASSUME SessionInit PROVE SessionInv
    OBVIOUS
<1>1. PICK r \in Requests : Attempt(r)
    BY DEF SessionInit
<1>2. IsEvidence(image)
    <2>1. CASE image \in Images
        BY <2>1, EvidenceAssumption
    <2>2. CASE image \in WrittenImages
        BY <2>2, WrittenIsEvidence DEF WrittenImages
    <2> QED
        BY <2>1, <2>2 DEF SessionInit
<1>3. SoundInv /\ DecidesInv
    BY <1>1, <1>2, StartSound, StartDecides, EvidenceAssumption
<1>4. Types
    BY <1>1 DEF Types, Attempt
<1> QED
    BY <1>3, <1>4 DEF SessionInv, SessionInit, ReadInv

\* A call that has unlocked a volume is over.
LEMMA OverWhenUnlocked == ASSUME DecidesInv, Step PROVE result.tag # "Ok"
<1>1. pc # "done"
    BY DEF Step, Progress, CallPassword, CallRecovery, CallClearKey, CallStartupKey, ReadHeader, SkipCopy,
           ReadCopy, TakeCopyOr, NoCopyLeft, GateMethod, FindProtector, ObtainUnwrapKey, OpenVmk,
           OpenFvek, SeekEnd, ReaderFails
<1> QED
    BY <1>1 DEF DecidesInv, EndInv

LEMMA SessionStep == SessionInv /\ [SessionNext]_sessionVars => SessionInv'
<1> SUFFICES ASSUME SessionInv, [SessionNext]_sessionVars PROVE SessionInv'
    OBVIOUS
<1>1. SoundInv /\ DecidesInv /\ Types /\ image \in Images \cup WrittenImages /\ ReadInv
    BY DEF SessionInv
<1>2. CASE UnlockStep
    <2>1. Step /\ got' = got
        BY <1>2 DEF UnlockStep
    <2>2. SoundInv' /\ DecidesInv'
        BY <1>1, <2>1, StepSound, StepDecides
    <2>3. image' = image /\ request' = request /\ (kind' = kind \/ \E m : kind' = validated_kind(m))
        BY <2>1, StepTypes
    <2>4. Types'
        BY <1>1, <2>3, KindsOf DEF Types
    <2>5. got = NoData
        BY <1>1, <2>1, OverWhenUnlocked DEF ReadInv
    <2>6. ReadInv'
        BY <2>1, <2>5 DEF ReadInv, NoData
    <2> QED
        BY <1>1, <2>2, <2>3, <2>4, <2>6 DEF SessionInv
<1>3. ASSUME UNCHANGED unlockVars, ReadInv' PROVE SessionInv'
    <2>1. SoundInv' /\ DecidesInv'
        BY <1>1, <1>3, StutterSound, StutterDecides
    <2>2. image' = image /\ request' = request /\ kind' = kind
        BY <1>3 DEF unlockVars, attemptVars
    <2> QED
        BY <1>1, <1>3, <2>1, <2>2 DEF SessionInv, Types
<1>4. ASSUME NEW s \in ReadSectors, ReadSector(s) PROVE SessionInv'
    <2>1. /\ result.tag = "Ok" /\ IsWritten /\ UNCHANGED unlockVars
          /\ got' = [sector |-> s, tag |-> "Ok", data |-> decrypt_logical_sector(s)]
        BY <1>4 DEF ReadSector
    <2>2. PICK t \in Truths : image = Written(t) /\ image.truth = t
        BY <1>1, <2>1, WrittenTruth
    <2> DEFINE d == decrypt_logical_sector(s)
    <2>3. d = IF Blanked(meta, s) THEN ZeroData ELSE Content(t, Physical(meta, s))
        BY <1>1, <2>1, <2>2, SectorReads
    <2> HIDE DEF d
    <2>4. got'.sector = s /\ got'.tag = "Ok" /\ got'.data = d
        BY <2>1 DEF d
    <2>5. image' = image /\ meta' = meta /\ result' = result
        BY <2>1 DEF unlockVars, attemptVars
    <2>6. ReadInv'
        BY <2>1, <2>2, <2>3, <2>4, <2>5 DEF ReadInv, IsWritten
    <2> QED
        BY <1>3, <2>1, <2>6
<1>5. ASSUME NEW s \in ReadSectors, SectorFails(s) PROVE SessionInv'
    <2>1. /\ result.tag = "Ok" /\ IsWritten /\ UNCHANGED unlockVars
          /\ got'.sector = s /\ got'.tag = "Io"
        BY <1>5 DEF SectorFails, NoData
    <2>2. image' = image /\ result' = result
        BY <2>1 DEF unlockVars, attemptVars
    <2>3. ReadInv'
        BY <2>1, <2>2 DEF ReadInv, IsWritten
    <2> QED
        BY <1>3, <2>1, <2>3
<1>6. CASE UNCHANGED sessionVars
    <2>1. UNCHANGED unlockVars /\ got' = got
        BY <1>6 DEF sessionVars
    <2>2. image' = image /\ meta' = meta /\ result' = result
        BY <2>1 DEF unlockVars, attemptVars
    <2>3. ReadInv'
        BY <1>1, <2>1, <2>2 DEF ReadInv, IsWritten, NoData
    <2> QED
        BY <1>3, <2>1, <2>3
<1> QED
    BY <1>2, <1>4, <1>5, <1>6 DEF SessionNext

LEMMA SessionInvariant == SessionSpec => []SessionInv
    BY SessionStarts, SessionStep, PTL DEF SessionSpec

\* What is blanked are the three regions of the metadata, and the relocated
\* header is read where it was moved to: neither sum leaves u64.
LEMMA RegionsAreTrue ==
    ASSUME NEW t \in Truths, Known(t), NEW s \in Nat
    PROVE  /\ Blanked(meta, s) <=>
                 \E k \in 1..3 : t.offsets[k] =< s /\ s < t.offsets[k] + meta.metadata_size
           /\ GeometryKnown(t, s) =>
                 Physical(meta, s) = IF s < t.header_size THEN t.header_offset + s ELSE s
<1> DEFINE z == meta.metadata_size
<1>1. U64 \in Nat /\ z \in Nat
    BY EvidenceAssumption DEF Known
<1>2. ASSUME NEW k \in 1..3
      PROVE  LET m == meta.metadata_offsets[k]
             IN  /\ m = t.offsets[k]
                 /\ (m # 0 /\ s >= m /\ s < Add64(m, z))
                    <=> (t.offsets[k] =< s /\ s < t.offsets[k] + z)
    <2> DEFINE m == t.offsets[k]
    <2>1. meta.metadata_offsets[k] = m
        BY DEF Known
    <2>2. m \in Nat \ {0} /\ m + z < U64
        BY VolumesAssumption DEF Known
    <2> HIDE DEF m, z
    <2>3. (m + z) % U64 = m + z
        BY <1>1, <2>2
    <2> QED
        BY <1>1, <2>1, <2>2, <2>3 DEF Add64, m
<1>3. Blanked(meta, s) <=> \E k \in 1..3 : t.offsets[k] =< s /\ s < t.offsets[k] + z
    BY <1>2 DEF Blanked, MetadataCopies
<1>4. ASSUME GeometryKnown(t, s)
      PROVE  Physical(meta, s) = IF s < t.header_size THEN t.header_offset + s ELSE s
    <2> DEFINE o == t.header_offset
               h == t.header_size
    <2>1. o \in Nat /\ h \in Nat /\ o + h =< U64
        BY VolumesAssumption
    <2>2. meta.volume_header_offset = o /\ (s < meta.volume_header_size <=> s < h)
        BY <1>4 DEF Known, GeometryKnown
    <2> HIDE DEF o, h
    <2>3. s < h => (o + s) % U64 = o + s
        BY <1>1, <2>1
    <2>4. Physical(meta, s) = IF s < h THEN o + s ELSE s
        BY <2>2, <2>3 DEF Physical, Add64
    <2> QED
        BY <2>4 DEF o, h
<1> QED
    BY <1>3, <1>4

\* For every volume in each layout, credential, cipher and way to locate the
\* volume header: whoever unlocks the volume reads what was written to it.
THEOREM ReadsBack == SessionSpec => []ReadsBackWhatWasWritten
<1>1. SessionInv => ReadsBackWhatWasWritten
    <2> SUFFICES ASSUME SessionInv, got.tag = "Ok", GeometryKnown(image.truth, got.sector)
                 PROVE  ReadsBackWhatWasWritten
        BY DEF ReadsBackWhatWasWritten
    <2>1. got # NoData
        BY DEF NoData
    <2>2. /\ result.tag = "Ok" /\ IsWritten /\ got.sector \in ReadSectors
          /\ got.data = IF Blanked(meta, got.sector) THEN ZeroData
                        ELSE Content(image.truth, Physical(meta, got.sector))
        BY <2>1 DEF SessionInv, ReadInv
    <2>3. PICK t \in Truths : image = Written(t) /\ image.truth = t
        BY <2>2, WrittenTruth DEF SessionInv
    <2>4. Known(t)
        BY <2>2, <2>3, UnlockedKnows DEF SessionInv
    <2> DEFINE s == got.sector
    <2>5. s \in Nat
        BY <2>2, VolumesAssumption
    <2> HIDE DEF s
    <2>6. /\ Blanked(meta, s) <=>
                \E k \in 1..3 : t.offsets[k] =< s /\ s < t.offsets[k] + meta.metadata_size
          /\ Physical(meta, s) = IF s < t.header_size THEN t.header_offset + s ELSE s
        BY <2>3, <2>4, <2>5, RegionsAreTrue DEF s
    <2>7. got.data = IF Blanked(meta, s) THEN ZeroData ELSE Content(t, Physical(meta, s))
        BY <2>2, <2>3 DEF s
    <2> DEFINE p == IF s < t.header_size THEN t.header_offset + s ELSE s
               B == \E k \in 1..3 : t.offsets[k] =< s /\ s < t.offsets[k] + meta.metadata_size
    <2>8. got.data = IF B THEN ZeroData ELSE Content(t, p)
        <3> HIDE DEF p, B
        <3> QED
            BY <2>6, <2>7 DEF p, B
    <2> QED
        BY <2>3, <2>8 DEF ReadsBackWhatWasWritten, AsWritten, s
<1> QED
    BY <1>1, SessionInvariant, PTL

\* For every volume, cipher and pair of sectors: ciphertext is bound to its
\* address, both when it is read and when it is compared.
THEOREM BoundToAddresses == SessionSpec => []SectorsAreBoundToAddresses
<1>1. SessionInv => SectorsAreBoundToAddresses
    <2> SUFFICES ASSUME SessionInv, result.tag = "Ok", IsWritten,
                        NEW p \in ReadSectors, NEW q \in ReadSectors, p # q,
                        ~StoredAsPlaintext(meta, p)
                 PROVE  /\ decrypt_sector(cipher, Disk(image.truth, p), q) # Content(image.truth, p)
                        /\ encrypt_sector(cipher, Original(0), p)
                             # encrypt_sector(cipher, Original(0), q)
        BY DEF SectorsAreBoundToAddresses
    <2>1. PICK t \in Truths : image = Written(t) /\ image.truth = t
        BY WrittenTruth DEF SessionInv
    <2>2. Known(t) /\ cipher = WriterCipher(t)
        BY <2>1, UnlockedKnows, UnlockedCipher DEF SessionInv
    <2> DEFINE w == WriterCipher(t)
               c == Content(t, p)
               o == Original(0)
    <2>3. Disk(t, p) = encrypt_sector(w, c, p)
        BY <2>2 DEF Disk, StoredAsPlaintext, Known
    <2>4. p # q /\ p \div 512 # q \div 512
        BY VolumesAssumption, OtherSector
    <2>5. Symbolic(c) /\ Len(c) # 0 /\ Symbolic(o) /\ Len(o) # 0
        BY OriginalSymbolic DEF Content
    <2> HIDE DEF w, c, o
    <2>6. decrypt_sector(w, encrypt_sector(w, c, p), q) # c
        BY <2>4, <2>5, SectorElsewhere
    <2>7. encrypt_sector(w, o, p) # encrypt_sector(w, o, q)
        BY <2>4, <2>5, SectorElsewhere
    <2> QED
        BY <2>1, <2>2, <2>3, <2>6, <2>7 DEF w, c, o
<1> QED
    BY <1>1, SessionInvariant, PTL
=============================================================================
