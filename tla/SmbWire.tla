------------------------------- MODULE SmbWire -------------------------------
(***************************************************************************)
(* The wire format of the SMB server (quicksand_smb/_protocol.py,          *)
(* _negotiate.py, and the bodies the handlers pack): how a frame is cut    *)
(* into requests and responses are chained into a frame, how long each     *)
(* body is, and where its offset fields say the variable part begins.      *)
(*                                                                         *)
(* Of a message only its lengths and offsets matter here, in bytes.        *)
(***************************************************************************)
EXTENDS Integers, Sequences, SequencesExt

\* struct.calcsize of a little-endian format: its fields are not aligned.
Bytes(widths) == FoldLeft(LAMBDA a, b : a + b, 0, widths)

\* (n + 7) & ~7
Aligned(n) == ((n + 7) \div 8) * 8

-----------------------------------------------------------------------------
(* Header, split_compound and the chaining of responses.  A frame is its    *)
(* length and, for each offset a header is at, the NextCommand in it.       *)

Header == Bytes(<<4, 2, 2, 4, 2, 2, 4, 4, 8, 4, 4, 8, 16>>)

\* Messages as pairs of offsets, first byte and end.  A header that does not
\* fit ends the frame; so does NextCommand = 0.
Split(data) ==
    LET Next(o) == IF o \in DOMAIN data.next THEN data.next[o] ELSE 0
        end(o) == IF Next(o) = 0 \/ o + Next(o) > data.len THEN data.len ELSE o + Next(o)
        from[o \in Nat] ==
            IF o + Header > data.len THEN <<>>
            ELSE IF Next(o) = 0 THEN <<[first |-> o, end |-> data.len]>>
            ELSE <<[first |-> o, end |-> end(o)]>> \o from[o + Next(o)]
    IN  from[0]

Length(response) == Header + response.fixed + response.data

\* All but the last are padded, and their NextCommand is the padded length.
Chain(responses) ==
    LET n == Len(responses)
        step(i) == IF i < n THEN Aligned(Length(responses[i])) ELSE Length(responses[i])
        start(i) == Bytes([k \in 1..(i - 1) |-> step(k)])
    IN  [len |-> start(n) + step(n),
         next |-> [o \in {start(i) : i \in 1..n} |->
                     LET i == CHOOSE k \in 1..n : start(k) = o
                     IN  IF i < n THEN step(i) ELSE 0]]

-----------------------------------------------------------------------------
(* Tokens.  A security blob holds an NTLMSSP message, bare or wrapped, or   *)
(* none; what is not a NEGOTIATE message is accepted.                       *)

Tokens == [wrapped : BOOLEAN, type : {0, 1, 3}, short : BOOLEAN]
NoToken == [wrapped |-> FALSE, type |-> 0, short |-> TRUE]

\* The signature is looked for anywhere in the blob.
Extract(blob) == IF blob.type = 0 THEN NoToken ELSE [blob EXCEPT !.wrapped = FALSE]
Challenged(blob) == Extract(blob).type = 1 /\ ~Extract(blob).short

\* The challenge: 48 fixed bytes, the target's name and the target's info
\* (one pair with the name, one end marker), in two bytes a character.
Challenge(letters) ==
    LET fixed == Bytes(<<8, 4, 2, 2, 4, 4, 8, 8, 2, 2, 4>>)
        name == 2 * letters
        info == Bytes(<<2, 2>>) + name + Bytes(<<2, 2>>)
    IN  [nameAt |-> 48, nameLen |-> name,
         infoAt |-> 48 + name, infoLen |-> info,
         fixed |-> fixed, len |-> fixed + name + info]

\* ASN.1 lengths: one byte, or a count and the bytes.
DerLength(n) ==
    IF n < 128 THEN <<n>>
    ELSE IF n < 256 THEN <<129, n>> ELSE <<130, (n \div 256) % 256, n % 256>>

\* A tag, the length and the content, given the content's length.
Wrapped(n) == 1 + Len(DerLength(n)) + n
NtlmsspOid == 12
SpnegoOid == 8
\* negTokenInit: [APPLICATION 0] OID, [0] SEQUENCE [0] SEQUENCE OID.
SpnegoInit ==
    LET mechTypes == 2 + NtlmsspOid
        mechTypeCtx == 2 + mechTypes
    IN  Wrapped(SpnegoOid + Wrapped(Wrapped(mechTypeCtx)))

\* NEGOTIATE takes the first of its own dialects that the client offers,
\* or else the client's first.
SupportedDialects == <<785, 770, 768, 528, 514>>
SelectDialect(offered) ==
    LET i == SelectInSeq(SupportedDialects, LAMBDA d : Contains(offered, d))
    IN  IF i # 0 THEN SupportedDialects[i]
        ELSE IF offered # <<>> THEN offered[1] ELSE 514

-----------------------------------------------------------------------------
(* Response bodies: the fixed part, the bytes that follow it, and where     *)
(* the offset field in the fixed part says that these are.                  *)

Body(widths) == [fixed |-> Bytes(widths), data |-> 0, points |-> 0]
BodyWith(widths, data, points) == [fixed |-> Bytes(widths), data |-> data, points |-> points]

ErrorBody == Body(<<2, 1, 1, 4>>)
NegotiateBody ==
    BodyWith(<<2, 2, 2, 2, 16, 4, 4, 4, 4, 8, 8, 2, 2, 4>>, SpnegoInit, 128)
SessionSetupBody(blob) ==
    BodyWith(<<2, 2, 2, 2>>, IF Challenged(blob) THEN Challenge(9).len ELSE 0, 72)
TreeConnectBody == Body(<<2, 1, 1, 4, 4, 4>>)
CreateBody == Body(<<2, 1, 1, 4, 8, 8, 8, 8, 8, 8, 4, 4, 16, 4, 4>>)
CloseBody == Body(<<2, 2, 4, 8, 8, 8, 8, 8, 8, 4>>)
ReadBody(n) == BodyWith(<<2, 1, 1, 4, 4, 4>>, n, Header + 16)
WriteBody == Body(<<2, 2, 4, 4, 2, 2>>)
QueryInfoBody(n) == BodyWith(<<2, 2, 4>>, n, Header + 8)
QueryDirectoryBody(n) == BodyWith(<<2, 2, 4>>, n, Header + 8)
IoctlBody ==
    BodyWith(<<2, 2, 4, 16, 4, 4, 4, 4, 4, 4>>, Bytes(<<4, 16, 2, 2>>), Header + 48)

\* last_file_id is cut out of the response of a CREATE.
FileIdAt == 64 + 64
FileIdIn(widths) == Header + Bytes(SubSeq(widths, 1, 12))

-----------------------------------------------------------------------------
(* Information classes.  A name is its number of characters; a class the    *)
(* server does not know has no length.                                      *)

Unsupported == -1
BasicInfo == Bytes(<<8, 8, 8, 8, 4, 4>>)
StandardInfo == Bytes(<<8, 8, 4, 1, 1, 2>>)
\* internal, EA, access, position, mode and alignment information
SmallInfo == <<8, 4, 4, 8, 4, 4>>
NameInfo(chars) == 4 + 2 * chars
NetworkOpenInfo == Bytes(<<8, 8, 8, 8, 8, 8, 4, 4>>)

FileInfoFixed ==
    [basic |-> BasicInfo, standard |-> StandardInfo, internal |-> SmallInfo[1],
     ea |-> SmallInfo[2], access |-> SmallInfo[3], position |-> SmallInfo[4],
     mode |-> SmallInfo[5], alignment |-> SmallInfo[6],
     all |-> BasicInfo + StandardInfo + Bytes(SmallInfo) + 4,
     networkOpen |-> NetworkOpenInfo, attributeTag |-> Bytes(<<4, 4>>),
     stream |-> Bytes(<<4, 4, 8, 8>>) + 2 * 7, compression |-> Bytes(<<8, 2, 1, 1, 4>>)]
\* only FileAllInformation names the file
FileInfo(class, chars) ==
    IF class \notin DOMAIN FileInfoFixed THEN Unsupported
    ELSE FileInfoFixed[class] + (IF class = "all" THEN 2 * chars ELSE 0)

FsInfoLength ==
    [volume |-> Bytes(<<8, 4, 1, 1, 4>>) + 2 * 9, size |-> Bytes(<<8, 8, 4, 4>>),
     fullSize |-> Bytes(<<8, 8, 8, 4, 4>>), device |-> Bytes(<<4, 4>>),
     attribute |-> Bytes(<<4, 4, 4>>) + 2 * 9, sectorSize |-> Bytes(<<4, 4, 4, 4, 4, 4, 4>>)]
FsInfo(class) == IF class \in DOMAIN FsInfoLength THEN FsInfoLength[class] ELSE Unsupported

\* QUERY_INFO cuts what does not fit into the client's buffer.
InfoStatus(q) ==
    LET n == IF q.type = "file" THEN FileInfo(q.class, q.chars)
             ELSE IF q.type = "fs" THEN FsInfo(q.class) ELSE Unsupported
    IN  IF n = Unsupported THEN "NOT_SUPPORTED"
        ELSE IF n > q.buffer THEN "BUFFER_OVERFLOW" ELSE "SUCCESS"

DirEntryFixed ==
    LET times == <<4, 4, 8, 8, 8, 8, 8, 8, 4, 4>> IN
    [both |-> Bytes(times \o <<4, 1, 1, 24>>), idBoth |-> Bytes(times \o <<4, 1, 1, 24, 2, 8>>),
     directory |-> Bytes(times), names |-> Bytes(<<4, 4, 4>>),
     idFull |-> Bytes(times \o <<4, 4, 8>>)]
Listable(class) == class \in DOMAIN DirEntryFixed
\* How many entries for names of this length a buffer has room for.
DirEntry(class, chars) == Aligned(DirEntryFixed[class] + 2 * chars)
Room(class, chars, buffer) ==
    IF Listable(class) THEN buffer \div DirEntry(class, chars) ELSE 0
-----------------------------------------------------------------------------
(* What a client needs of them.                                             *)

Replies ==
    {ErrorBody, NegotiateBody, TreeConnectBody, CreateBody, CloseBody, WriteBody, IoctlBody}
    \cup {SessionSetupBody(t) : t \in Tokens}
    \cup UNION {{ReadBody(n), QueryInfoBody(n), QueryDirectoryBody(n)} : n \in {1, 7, 8, 88}}

\* Each response is where NextCommand says, on a boundary of eight bytes, and
\* its offset field points at the data that follows its fixed part.
Readable(responses) ==
    LET pieces == Split(Chain(responses)) IN
    /\ Len(pieces) = Len(responses)
    /\ \A i \in DOMAIN responses :
          /\ pieces[i].first % 8 = 0
          /\ pieces[i].first + Length(responses[i]) <= pieces[i].end
          /\ responses[i].points # 0 => responses[i].points = Header + responses[i].fixed

DerValue(b) ==
    IF b[1] < 128 THEN b[1] ELSE FoldLeft(LAMBDA v, d : 256 * v + d, 0, Tail(b))

\* The fields of a challenge follow one another, inside the message.
ChallengeReadable(c) ==
    /\ c.nameAt = c.fixed /\ c.nameAt + c.nameLen = c.infoAt
    /\ c.infoAt + c.infoLen = c.len
=============================================================================
