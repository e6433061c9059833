------------------------------ MODULE WsCodec -------------------------------
(***************************************************************************)
(* The websocket frames of wscodec.py, as sequences of bytes.  A byte of   *)
(* the header is a number, a byte of the mask or of the payload the set of *)
(* its bits, so that exclusive or is the symmetric difference.             *)
(***************************************************************************)
EXTENDS Integers, Sequences

Octets == 0 .. 255
BitSets == SUBSET (0 .. 7)
Close == 8                   \* the opcode that ends a stream

Xor(a, b) == (a \ b) \cup (b \ a)
Masked(payload, key) == [i \in DOMAIN payload |-> Xor(payload[i], key[1 + ((i - 1) % 4)])]

\* Big-endian numbers of two and of eight bytes.
High(n) == (n \div 256) % 256
Low(n) == n % 256
Short(n) == <<High(n), Low(n)>>
Long(n) ==
    LET l == n \div 65536
        m == l \div 65536
        k == m \div 65536
    IN  <<High(k), Low(k), High(m), Low(m), High(l), Low(l), High(n), Low(n)>>
ShortValue(b) == 256 * b[1] + b[2]
LongValue(b) ==
    LET upper == 65536 * (256 * b[1] + b[2]) + 256 * b[3] + b[4]
        lower == 65536 * (256 * b[5] + b[6]) + 256 * b[7] + b[8]
    IN  65536 * (65536 * upper) + lower

Code(n) == IF n < 126 THEN n ELSE IF n < 65536 THEN 126 ELSE 127
Extension(n) == IF n < 126 THEN <<>> ELSE IF n < 65536 THEN Short(n) ELSE Long(n)

\* encode_frame, with the key that masks the payload, empty for none.
EncodeFrame(opcode, payload, key) ==
    LET n == Len(payload)
    IN  <<128 + opcode, (IF key = <<>> THEN 0 ELSE 128) + Code(n)>>
            \o Extension(n) \o key \o (IF key = <<>> THEN payload ELSE Masked(payload, key))

\* readexactly, on a stream that holds what is asked for.
First(s, n) == SubSeq(s, 1, n)
After(s, n) == SubSeq(s, n + 1, Len(s))

\* read_frame: what it returns, None if "end", and what it leaves in the stream.
ReadFrame(s) ==
    LET opcode == s[1] % 16
        masked == s[2] >= 128
        code == s[2] % 128
        width == IF code = 126 THEN 2 ELSE IF code = 127 THEN 8 ELSE 0
        s1 == After(s, 2)
        length == IF code = 126 THEN ShortValue(First(s1, 2))
                  ELSE IF code = 127 THEN LongValue(First(s1, 8)) ELSE code
        s2 == After(s1, width)
        keyLength == IF masked THEN 4 ELSE 0
        key == First(s2, keyLength)
        s3 == After(s2, keyLength)
        payload == First(s3, length)
    IN  [end |-> opcode = Close,
         opcode |-> opcode,
         payload |-> IF masked THEN Masked(payload, key) ELSE payload,
         rest |-> After(s3, length)]
=============================================================================
