--------------------------- MODULE ReadSmallFile ---------------------------
(***************************************************************************)
(* base/FileUtil.h/.cc, class ReadSmallFile and readFile: a small file is  *)
(* opened and its first bytes are read into a string or into the object's  *)
(* own buffer, while other processes may append to the file or truncate    *)
(* it and signals may interrupt the system calls.                          *)
(*                                                                         *)
(* Bytes are not told apart: a string is its length.  The system calls are *)
(* modelled from their use: read returns some of the bytes that are there, *)
(* 0 at the end, or an error.                                              *)
(***************************************************************************)
EXTENDS Integers

CONSTANTS BuffSize,   \* sizeof m_buff
          MaxSizes,   \* the maxSize arguments of readToString
          MaxFile,    \* bound: the bytes of the file
          MaxChanges  \* bound: how often others change the file

\* A maxSize below zero would be given to data.reserve, which throws.
ASSUME SizeAssumption == /\ BuffSize \in Nat \ {0} /\ MaxFile \in Nat
                         /\ MaxSizes \subseteq Nat /\ MaxChanges \in Nat

VARIABLES kind,       \* what the name stands for
          size,       \* the bytes of the file now
          changes,    \* how often others have changed it
          m_err,
          offset,     \* the file offset of m_fd
          caller,     \* where the caller is
          maxSize, fileSize,    \* the arguments of readToString
          readSize, readed,     \* its local variables; readed = data.size()
          err         \* what the operation returns

fileVars == <<kind, size, changes>>
objectVars == <<m_err, offset>>
argVars == <<maxSize, fileSize>>
readVars == <<fileVars, objectVars, caller, argVars, readSize, readed, err>>

\* A device has positions to read at; a pipe has none, like a socket or a tty.
Kinds == {"regular", "directory", "device", "pipe", "missing"}
Unset == -1        \* the caller passed no pointer, or nothing was stored
OK == 0
ENOENT == 2
EINTR == 4
EIO == 5
EISDIR == 21

min(a, b) == IF a < b THEN a ELSE b

FileInit == /\ kind \in Kinds
            /\ size \in IF kind \in {"directory", "pipe"} THEN {0} ELSE 0..MaxFile
            /\ changes = 0
            /\ m_err = IF kind = "missing" THEN ENOENT ELSE OK
            /\ offset = 0
            /\ caller = "idle"
            /\ maxSize = 0 /\ fileSize = Unset /\ readSize = 0 /\ readed = 0
            /\ err = OK

m_fdValid == m_err = OK

\* Others append to the file or truncate it.
ChangeFile == /\ kind = "regular" /\ changes < MaxChanges
              /\ size' \in (0..MaxFile) \ {size}
              /\ changes' = changes + 1
              /\ UNCHANGED <<kind, objectVars, caller, argVars, readSize, readed, err>>

-----------------------------------------------------------------------------
(* readToString *)

readLimit(max, st_size) == min(max, st_size)

\* readToString up to its loop.  Only a caller that asks for the size of the
\* file gets any of its bytes.
fstat ==
    /\ caller = "idle"
    /\ \E max \in MaxSizes, wantsSize \in BOOLEAN :
          /\ maxSize' = max
          /\ \/ /\ ~m_fdValid
                /\ err' = m_err /\ fileSize' = Unset /\ readSize' = 0
             \/ /\ m_fdValid /\ kind = "regular" /\ wantsSize
                /\ err' = OK /\ fileSize' = size
                /\ readSize' = readLimit(max, size)
             \/ /\ m_fdValid /\ ~(kind = "regular" /\ wantsSize)
                /\ err' = IF kind = "directory" THEN EISDIR ELSE OK
                /\ fileSize' = Unset /\ readSize' = 0
             \/ /\ m_fdValid
                /\ err' = EIO /\ fileSize' = Unset /\ readSize' = 0
    /\ readed' = 0
    /\ caller' = "read"
    /\ UNCHANGED <<fileVars, objectVars>>

\* Faulty variant: the whole buffer is asked for every time.
needReadAlways == BuffSize

need_read == min(BuffSize, maxSize - readed)

\* One turn of the loop: some bytes, the end of the file, or an error.
readSome == /\ caller = "read" /\ readed < readSize
            /\ \E n \in 1..min(need_read, size - offset) :
                  /\ readed' = readed + n
                  /\ offset' = offset + n
            /\ UNCHANGED <<fileVars, m_err, caller, argVars, readSize, err>>

endOfFile == /\ caller = "read" /\ readed < readSize /\ offset >= size
             /\ caller' = "returned"
             /\ UNCHANGED <<fileVars, objectVars, argVars, readSize, readed, err>>

readFails == /\ caller = "read" /\ readed < readSize
             /\ \E errno \in {EINTR, EIO} :
                   \/ errno = EINTR /\ UNCHANGED <<err, caller>>
                   \/ errno # EINTR /\ err' = errno /\ caller' = "returned"
             /\ UNCHANGED <<fileVars, objectVars, argVars, readSize, readed>>

loopEnds == /\ caller = "read" /\ ~(readed < readSize)
            /\ caller' = "returned"
            /\ UNCHANGED <<fileVars, objectVars, argVars, readSize, readed, err>>

-----------------------------------------------------------------------------
(* readToBuffer *)

callReadToBuffer == /\ caller = "idle"
                    /\ caller' = IF m_fdValid THEN "pread" ELSE "gotBuffer"
                    /\ err' = m_err
                    /\ UNCHANGED <<fileVars, objectVars, argVars, readSize, readed>>


\* pread fails for a directory (EISDIR) and for what has no positions (ESPIPE),
\* and may fail otherwise.
pread == /\ caller = "pread" /\ kind \in {"regular", "device"}
         /\ readed' = min(BuffSize - 1, size)
         /\ caller' = "gotBuffer"
         /\ UNCHANGED <<fileVars, objectVars, argVars, readSize, err>>

preadFails == /\ caller = "pread"
              /\ caller' = "preadFailed"
              /\ UNCHANGED <<fileVars, objectVars, argVars, readSize, readed, err>>

\* The loop condition assigns EINTR to errno, so every error is tried again.
preadAgain == /\ caller = "preadFailed"
              /\ caller' = "pread"
              /\ UNCHANGED <<fileVars, objectVars, argVars, readSize, readed, err>>

Return == /\ caller \in {"returned", "gotBuffer"}
          /\ caller' = "idle"
          /\ UNCHANGED <<fileVars, objectVars, argVars, readSize, readed, err>>

ReadStep == readSome \/ endOfFile \/ loopEnds
BufferStep == pread \/ preadFails \/ preadAgain

FileNext == \/ ChangeFile \/ fstat \/ callReadToBuffer \/ ReadStep \/ readFails
            \/ BufferStep \/ Return

\* The caller's thread runs.
FileFairness == WF_readVars(ReadStep) /\ WF_readVars(BufferStep)

FileSpec == FileInit /\ [][FileNext]_readVars /\ FileFairness
-----------------------------------------------------------------------------
\* The types; that maxSize - data.size(), computed without a sign, never goes
\* below zero, and that the file offset only counts bytes that were read.
FileTypeOK == /\ kind \in Kinds /\ size \in 0..MaxFile /\ changes \in 0..MaxChanges
              /\ m_err \in {OK, ENOENT} /\ err \in {OK, ENOENT, EIO, EISDIR}
              /\ offset \in 0..MaxFile /\ readed \in 0..MaxFile
              /\ caller \in {"idle", "read", "returned", "pread", "preadFailed", "gotBuffer"}
              /\ maxSize \in MaxSizes \cup {0} /\ fileSize \in {Unset} \cup 0..MaxFile
              /\ readSize \in Int
              /\ caller = "read" /\ readed < readSize => maxSize - readed > 0

\* A string never gets more than maxSize bytes, even when the file grows
\* between fstat and the reads; and a first read that returns without an error
\* has all that it should have, or the file was changed while it was read: a
\* short read is not taken for the end of the file.
ReadExact ==
    /\ caller \in {"read", "returned"} => readed = 0 \/ readed <= maxSize
    /\ caller = "returned" /\ err = OK /\ fileSize # Unset /\ offset = readed /\ changes = 0
           => readed >= min(maxSize, size)

=============================================================================
