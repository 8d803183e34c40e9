------------------------------ MODULE BfImage -------------------------------
(***************************************************************************)
(* What bfpp writes: an image, or the program as a C array or a listing;   *)
(* and the image as bfrun reads it (classes Image and Section, LoadShared).*)
(*                                                                         *)
(* An image has two sections: the code at address 0, and the data behind   *)
(* it, of which the file holds nothing.  A file is a sequence of 16-bit    *)
(* fields; positions in it and sizes count bytes and have 16 bits too.     *)
(* Of a pair of bytes only the one that somebody reads is here.            *)
(***************************************************************************)
EXTENDS BfCompiler

CONSTANTS
  Garbage,      \* what memory that nobody wrote may hold
  HalfWord      \* values of each byte of a word: 256 in the code

ASSUME BfImageAssumption ==
  /\ Garbage \subseteq Word /\ Garbage # {}
  /\ HalfWord \in Nat /\ HalfWord * HalfWord = WordSize

MEMORY_PTR_MAX == WordSize - 1
SECTION_CODE == 1
SECTION_DATA == 2

BF_MAGIC == 66

(* The two bytes change places: fields are big-endian, the host is not. *)
swapLEtoBE(word) == (word % HalfWord) * HalfWord + (word \div HalfWord)

(* FileSize is all that knows how long the words are.  At half a memory of *)
(* commands it is 0 and the constructor copies nothing; of more it sizes   *)
(* the buffer too small and the copy leaves it, which is undefined and     *)
(* beyond FilesFit: here the file then just lacks the other words.         *)
Section(type, words, base, size) ==
  [type |-> type, MemoryBase |-> Int16(base),
   MemorySize |-> Int16(size), FileSize |-> Int16(2 * Len(words)),
   Data |-> words]

Encode(cmds) == [i \in DOMAIN cmds |-> GetCmd(cmds[i])]
CodeSection(cmds) == Section(SECTION_CODE, Encode(cmds), 0, Len(cmds))

(* Mutant of DataSection: it begins at the last command. *)
DataSectionEarly(size) ==
  Section(SECTION_DATA, <<>>, size - 1, MEMORY_PTR_MAX - size)

DataSection(size) ==
  Section(SECTION_DATA, <<>>, size, MEMORY_PTR_MAX - size)

(* Mutant of ApEntry: the program starts where its data do. *)
ApEntryOfData(size) == Int16(size)

ApEntry(size) == Int16((MEMORY_PTR_MAX \div 2) - (size \div 2))

NewImage(cmds) ==
  [IpEntry |-> 0, ApEntry |-> ApEntry(Len(cmds)),
   Sections |-> <<CodeSection(cmds), DataSection(Len(cmds))>>]

-----------------------------------------------------------------------------
(* bfpp writes *)

(* What the file has of a section: as many bytes as its header says. *)
Stored(section) ==
  [i \in 1 .. section.FileSize \div 2 |-> swapLEtoBE(section.Data[i])]

(* The data of the sections follow the headers, which are written once     *)
(* more when the place of their data is known.                             *)
FileBase(image, s) ==
  LET before == FlattenSeq([t \in 1 .. s - 1 |-> Stored(image.Sections[t])])
  IN  Int16(10 + 10 * Len(image.Sections) + 2 * Len(before))

ImageHeader(image) ==
  <<swapLEtoBE(BF_MAGIC), 10 + 10 * Len(image.Sections), Len(image.Sections),
    swapLEtoBE(image.IpEntry), swapLEtoBE(image.ApEntry)>>

SectionHeader(image, s) ==
  LET section == image.Sections[s]
      fields == <<FileBase(image, s), section.MemoryBase, section.FileSize,
                  section.MemorySize, section.type>>
  IN  [i \in DOMAIN fields |-> swapLEtoBE(fields[i])]

Write(image) ==
  LET sections == DOMAIN image.Sections
  IN  ImageHeader(image)
        \o FlattenSeq([s \in sections |-> SectionHeader(image, s)])
        \o FlattenSeq([s \in sections |-> Stored(image.Sections[s])])

(* A line of a listing, which begins with a text that is no magic. *)
Line(cmds, i) == <<0, i - 1, GetCmd(cmds[i])>>

SaveOutput(cmds, format) ==
  CASE format = "text"  -> FlattenSeq([i \in DOMAIN cmds |-> Line(cmds, i)])
    [] format = "hex"   -> Encode(cmds)
    [] format = "image" -> Write(NewImage(cmds))

-----------------------------------------------------------------------------
(* bfrun reads *)

Byte(file, at) == file[at \div 2 + 1]
Field(file, at) == swapLEtoBE(file[at \div 2 + 1])

Good(file) == file # <<>>
Wrong(file) == Field(file, 0) # BF_MAGIC

(* The words that the file has for a section, or zeros if it has none.     *)
(* Beyond the end of a section in the file its words are not initialised.  *)
ReadSection(file, at) ==
  LET base == Field(file, at)
      size == Field(file, at + 4)
  IN  [MemoryBase |-> Field(file, at + 2), MemorySize |-> Field(file, at + 6),
       FileSize |-> size,
       Data |-> [i \in 1 .. size \div 2 |-> Field(file, base + 2 * (i - 1))]]

ReadImage(file) ==
  [IpEntry |-> Field(file, 6), ApEntry |-> Field(file, 8),
   Sections |-> [s \in 1 .. Byte(file, 4) |-> ReadSection(file, 10 * s)]]

SectionWord(section, k, garbage) ==
  IF section.FileSize = 0 THEN 0
  ELSE IF k < Len(section.Data) THEN section.Data[k + 1]
  ELSE garbage

Covers(section, a) ==
  a - section.MemoryBase \in 0 .. section.MemorySize - 1

(* Sections are copied in order: where two cover an address, the later one *)
(* stays.  bfrun has cleared the memory before.                            *)
LoadShared(image, garbage) ==
  [a \in Word |->
     LET over == {s \in DOMAIN image.Sections : Covers(image.Sections[s], a)}
     IN  IF over = {} THEN 0
         ELSE LET section == image.Sections[Max(over)]
              IN  SectionWord(section, a - section.MemoryBase, garbage)]
=============================================================================
