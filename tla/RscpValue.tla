------------------------------ MODULE RscpValue ------------------------------
(***************************************************************************)
(* The RSCP codec as far as the program uses it: appendValue and           *)
(* createFrameAsBuffer build a request, parseFrame and parseData take a    *)
(* frame apart (src/src/RscpProtocol.cpp, src/include/RscpProtocol.h).     *)
(*                                                                         *)
(* The bytes of a value are abstracted to its length and, in a container,  *)
(* to the places its elements are laid down at.  All sums of lengths have  *)
(* the width they have in the code.                                        *)
(***************************************************************************)
EXTENDS Integers, Sequences

HeaderSize           == 7       \* tag, data type and length of an SRscpValue
FrameHeaderSize      == 18      \* SRscpFrameHeader
RSCP_CRC_SIZE_BYTES  == 4
RSCP_MAX_DATA_LENGTH == 65528   \* 0xFFF8

Uint16Limit == 65536
Uint16(n)   == n % Uint16Limit

-----------------------------------------------------------------------------
(* Building *)

\* Data of a type with this length.  content stands for the bytes, with
\* their type where two types are told apart.
Data(tag, length, content) ==
  [tag |-> tag, length |-> length, content |-> content, allocated |-> length, items |-> <<>>]

\* A container is empty and has no memory yet.
CreateContainerValue(tag) == Data(tag, 0, 0)

\* Where the element is written to, and how much it takes there.
Item(at, v)    == [at |-> at, value |-> v]
ItemEnd(item)  == item.at + HeaderSize + item.value.length

\* The memory is grown to what is said to be needed and the element is laid
\* down behind the ones before.  No caller looks at the result: a refused
\* element is just missing.
Append16(response, v, newTagLength) ==
  IF response.length + newTagLength > RSCP_MAX_DATA_LENGTH THEN response
  ELSE [tag |-> response.tag, content |-> response.content,
        length    |-> Uint16(response.length + newTagLength),
        allocated |-> response.length + newTagLength,
        items     |-> Append(response.items, Item(response.length, v))]

\* Slip: the header of the element is not counted.
AppendUncounted(response, v) == Append16(response, v, Uint16(v.length))

\* appendValue(response, tag, value) and all its overloads for scalars and
\* strings: the sum of header and data is a uint16_t.
AppendValue(response, v) == Append16(response, v, Uint16(HeaderSize + v.length))

\* appendValue(response, container), by way of the overload for a vector:
\* here the sum is a uint32_t.
AppendContainer(response, container) ==
  Append16(response, container, HeaderSize + container.length)

\* createFrameAsBuffer(frameBuffer, root.data, root.length, true).  The length
\* calculateCRC32 is given is a uint16_t.
CreateFrameAsBuffer(root) ==
  [dataLength |-> Uint16(root.length),
   length     |-> FrameHeaderSize + Uint16(root.length) + RSCP_CRC_SIZE_BYTES,
   crcCovers  |-> Uint16(FrameHeaderSize + Uint16(root.length)),
   items      |-> root.items]

-----------------------------------------------------------------------------
(* Taking apart *)

\* parseData: from each element to the next by its length, while there is one.
ParseData(items, length) ==
  LET At(pos) == {i \in DOMAIN items : items[i].at = pos}
      Walk[pos \in Nat] ==
        IF pos < length /\ At(pos) # {}
        THEN LET v == items[CHOOSE i \in At(pos) : TRUE].value
             IN IF pos + v.length <= length
                THEN <<v>> \o Walk[pos + HeaderSize + v.length]
                ELSE <<>>
        ELSE <<>>
  IN Walk[0]

GetValueAsContainer(v) == ParseData(v.items, v.length)

\* The frame is whole and its checksum is right; the length it is checked over
\* is a uint16_t here as well.
FrameIsSound(frame) ==
  /\ FrameHeaderSize + frame.dataLength + RSCP_CRC_SIZE_BYTES <= frame.length
  /\ frame.crcCovers = Uint16(FrameHeaderSize + frame.dataLength)

\* parseFrame, the values of a frame that is refused being none.
ParseFrame(frame) ==
  IF FrameIsSound(frame) THEN ParseData(frame.items, frame.dataLength) ELSE <<>>
=============================================================================
