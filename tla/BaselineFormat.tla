--------------------------- MODULE BaselineFormat ---------------------------
(***************************************************************************)
(* The file format of IntegrityBaseline (src/integrity/                    *)
(* integrity_baseline.cpp): serialize(), and deserialize() over a          *)
(* ByteReader, for a file that is whole, cut short, longer, or changed in  *)
(* one byte. A byte is a number below Radix; integers are little-endian in *)
(* SmallWidth (u32) or WideWidth (u64) bytes.                              *)
(***************************************************************************)
EXTENDS Integers, Sequences

CONSTANTS
  Radix,        \* 256
  SmallWidth,   \* 4
  WideWidth,    \* 8
  Baselines     \* the baselines that may be saved

Byte == 0..(Radix - 1)
Entry == [baseAddress : Nat, size : Nat, digest : Seq(Byte), name : Seq(Byte),
          ownerModule : Seq(Byte), ownerModulePath : Seq(Byte)]
IntegrityBaseline == [algorithm : Seq(Byte), entries : Seq(Entry)]

(* value >> (8 * i), for i up to the width of the integer.                 *)
Shifted(width, value) ==
  LET shifted[i \in 0..width] == IF i = 0 THEN value ELSE shifted[i - 1] \div Radix
  IN shifted

(* The casts of sizes to uint32_t and of addresses to uint64_t keep them.  *)
FitsIn(width, value) == Shifted(width, value)[width] = 0
EntryFits(entry) ==
  /\ \A n \in {entry.baseAddress, entry.size} : FitsIn(WideWidth, n)
  /\ \A text \in {entry.digest, entry.name, entry.ownerModule, entry.ownerModulePath} :
       FitsIn(SmallWidth, Len(text))

ASSUME FormatAssumption ==
  /\ Radix \in Nat \ {0, 1} /\ SmallWidth \in Nat \ {0} /\ WideWidth \in Nat \ {0}
  /\ \A baseline \in Baselines :
       /\ baseline \in IntegrityBaseline
       /\ FitsIn(SmallWidth, Len(baseline.algorithm))
       /\ FitsIn(SmallWidth, Len(baseline.entries))
       /\ \A k \in DOMAIN baseline.entries : EntryFits(baseline.entries[k])

VARIABLES
  saved,     \* the baseline that was serialized
  file,      \* the bytes deserialize() is given
  damage,    \* "none", "cut", "longer", "header" or "body" changed
  reading,   \* where deserialize() is
  offset,    \* offset_ of the ByteReader
  missing,   \* entries still to be read
  loaded     \* the baseline built so far

formatVars == <<saved, file, damage, reading, offset, missing, loaded>>

Empty == [algorithm |-> <<>>, entries |-> <<>>]

FormatInit ==
  /\ saved = Empty /\ file = <<>> /\ damage = "none"
  /\ reading = "no" /\ offset = 0 /\ missing = 0 /\ loaded = Empty

-----------------------------------------------------------------------------
Magic == [i \in 1..SmallWidth |-> i % Radix]
FORMAT_VERSION == 1
HeaderSize == Len(Magic) + SmallWidth

AppendUInt(width, value) == [i \in 1..width |-> Shifted(width, value)[i - 1] % Radix]
AppendString(text) == AppendUInt(SmallWidth, Len(text)) \o text

(* Mutant: the path of the owner module is not written.                    *)
AppendEntry_NoPath(entry) ==
  AppendUInt(WideWidth, entry.baseAddress) \o AppendUInt(WideWidth, entry.size)
    \o AppendString(entry.digest) \o AppendString(entry.name)
    \o AppendString(entry.ownerModule) \o AppendString(<<>>)

(* One round of the loop of serialize().                                   *)
AppendEntry(entry) ==
  AppendUInt(WideWidth, entry.baseAddress) \o AppendUInt(WideWidth, entry.size)
    \o AppendString(entry.digest) \o AppendString(entry.name)
    \o AppendString(entry.ownerModule) \o AppendString(entry.ownerModulePath)

(* What serialize() writes first, and its loop over the entries.           *)
Header(baseline) ==
  Magic \o AppendUInt(SmallWidth, FORMAT_VERSION) \o AppendString(baseline.algorithm)
    \o AppendUInt(SmallWidth, Len(baseline.entries))
Body(entries) ==
  LET upTo[k \in 0..Len(entries)] ==
        IF k = 0 THEN <<>> ELSE upTo[k - 1] \o AppendEntry(entries[k])
  IN upTo

Serialize(baseline) == Header(baseline) \o Body(baseline.entries)[Len(baseline.entries)]

(* A read gives a value and the next offset; one that does not fit leaves  *)
(* an offset beyond the file, from which no further read fits either.      *)
Failed == [value |-> 0, next |-> Len(file) + 1]
Fits(field) == field.next <= Len(file)

ReadBytes(from, length) ==
  IF from + length > Len(file) THEN Failed
  ELSE [value |-> SubSeq(file, from + 1, from + length), next |-> from + length]

(* readU32(), readU64(): the bytes from the most significant on.           *)
Assembled(bytes, width) ==
  LET upTo[i \in 0..width] ==
        IF i = 0 THEN 0 ELSE bytes[width + 1 - i] + Radix * upTo[i - 1]
  IN upTo

ReadUInt(from, width) ==
  LET bytes == ReadBytes(from, width)
  IN IF Fits(bytes) THEN [bytes EXCEPT !.value = Assembled(bytes.value, width)[width]]
     ELSE Failed

ReadString(from) ==
  LET length == ReadUInt(from, SmallWidth) IN ReadBytes(length.next, length.value)

ReadEntryAt(from) ==
  LET base == ReadUInt(from, WideWidth)
      size == ReadUInt(base.next, WideWidth)
      digest == ReadString(size.next)
      name == ReadString(digest.next)
      owner == ReadString(name.next)
      path == ReadString(owner.next)
  IN [value |-> [baseAddress |-> base.value, size |-> size.value, digest |-> digest.value,
                 name |-> name.value, ownerModule |-> owner.value,
                 ownerModulePath |-> path.value],
      next |-> path.next]

-----------------------------------------------------------------------------
(* A baseline is saved.                                                    *)
SaveBaseline ==
  /\ reading = "no"
  /\ saved' \in Baselines
  /\ file' = Serialize(saved')
  /\ reading' = "saved"
  /\ UNCHANGED <<damage, offset, missing, loaded>>

(* What becomes of the file.                                               *)
Damage(kind, bytes) ==
  /\ reading = "saved"
  /\ file' = bytes /\ damage' = kind
  /\ reading' = "header"
  /\ UNCHANGED <<saved, offset, missing, loaded>>

Kept == Damage("none", file)
CutShort == \E n \in 0..(Len(file) - 1) : Damage("cut", SubSeq(file, 1, n))
Longer == \E b \in Byte : Damage("longer", Append(file, b))
Changed ==
  \E i \in DOMAIN file, b \in Byte :
    /\ b # file[i]
    /\ Damage(IF i <= HeaderSize THEN "header" ELSE "body", [file EXCEPT ![i] = b])

-----------------------------------------------------------------------------
LoadFails ==
  /\ reading' = "refused"
  /\ UNCHANGED <<saved, file, damage, offset, missing, loaded>>

(* deserialize(): magic, version, algorithm name and entry count,          *)
ReadHeader ==
  /\ reading = "header"
  /\ LET magic == ReadBytes(0, Len(Magic))
         version == ReadUInt(magic.next, SmallWidth)
         algorithm == ReadString(version.next)
         count == ReadUInt(algorithm.next, SmallWidth)
     IN IF /\ Fits(magic) /\ magic.value = Magic
           /\ Fits(version) /\ version.value = FORMAT_VERSION
           /\ Fits(count)
        THEN /\ loaded' = [algorithm |-> algorithm.value, entries |-> <<>>]
             /\ missing' = count.value /\ offset' = count.next
             /\ reading' = "entries"
             /\ UNCHANGED <<saved, file, damage>>
        ELSE LoadFails

(* Mutant: an entry that does not fit ends the list instead of failing.    *)
ReadEntry_StopsAtEnd ==
  /\ reading = "entries" /\ missing > 0
  /\ LET entry == ReadEntryAt(offset)
     IN IF Fits(entry)
        THEN /\ loaded' = [loaded EXCEPT !.entries = Append(@, entry.value)]
             /\ missing' = missing - 1 /\ offset' = entry.next
             /\ UNCHANGED <<saved, file, damage, reading>>
        ELSE /\ reading' = "accepted"
             /\ UNCHANGED <<saved, file, damage, offset, missing, loaded>>

(* then one entry after the other; what follows them is not looked at.     *)
ReadEntry ==
  /\ reading = "entries" /\ missing > 0
  /\ LET entry == ReadEntryAt(offset)
     IN IF Fits(entry)
        THEN /\ loaded' = [loaded EXCEPT !.entries = Append(@, entry.value)]
             /\ missing' = missing - 1 /\ offset' = entry.next
             /\ UNCHANGED <<saved, file, damage, reading>>
        ELSE LoadFails

LoadSucceeds ==
  /\ reading = "entries" /\ missing = 0
  /\ reading' = "accepted"
  /\ UNCHANGED <<saved, file, damage, offset, missing, loaded>>

FormatNext ==
  \/ SaveBaseline \/ Kept \/ CutShort \/ Longer \/ Changed
  \/ ReadHeader \/ ReadEntry \/ LoadSucceeds

FormatSpec == FormatInit /\ [][FormatNext]_formatVars

-----------------------------------------------------------------------------
(* A baseline that was written whole is loaded, and loaded as it was, with *)
(* every field of every entry; what was appended to the file is ignored.   *)
LoadedIsSaved ==
  damage \in {"none", "longer"} =>
    reading # "refused" /\ (reading = "accepted" => loaded = saved)

(* A file cut short anywhere, at the end of an entry or inside a length    *)
(* field, is refused, as is one whose magic or version was changed; and of *)
(* a changed file no byte beyond its end is used.                          *)
OnlyWholeFilesLoad ==
  /\ damage \in {"cut", "header"} => reading # "accepted"
  /\ offset <= Len(file)
=============================================================================
