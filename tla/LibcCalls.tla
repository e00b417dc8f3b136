------------------------------ MODULE LibcCalls ------------------------------
(***************************************************************************)
(* The functions of the C library port that are one computation around at  *)
(* most one system call, as a machine that is called over and over: each   *)
(* step is a call with any inputs and any answer of the kernel, followed   *)
(* by the return to the caller.  Between calls the functions keep only the *)
(* decoder state of mbtowc (that of mblen, which ends the program when a   *)
(* character is incomplete, is always initial).                            *)
(***************************************************************************)
EXTENDS Waiting, Memory, Multibyte, Mntent, SequencesExt

CONSTANTS Nfds,       \* the number of descriptors pselect is asked about
          MaxSeconds, \* the longest sleep
          MaxReports, \* the most events reported of a descriptor
          MaxLines,   \* the longest mount table
          Wides,      \* what wcrtomb is given
          Chars,      \* the characters that texts are made of
          MaxChars,   \* the most whole characters of a text
          Rests       \* what may follow them: nothing, or bytes that do not begin with
                      \* a whole character

ASSUME CallsAssumption ==
  /\ Nfds \in Nat /\ MaxSeconds \in Nat /\ MaxLines \in Nat
  /\ Unset \notin [entry : Nat, errno : {"eof", "ERANGE", "none"}]

ASSUME CharsAssumption ==
  /\ Wides \subseteq Int /\ MaxChars \in Nat
  /\ \A wc \in Chars : wc \in Nat /\ (between(wc, 1, \hd7ff) \/ between(wc, \he000, \h10ffff))

ASSUME RestsAssumption ==
  /\ Rests \subseteq Seq(Nat \ {0})
  /\ \A r \in Rests : r # <<>> => decode(<<>>, r).e # "null"

VARIABLES call, res, mbtowc_state

funcvars == <<call, res, mbtowc_state>>

Kernel == [errno : {0, EINTR}, ret : 0..2]

Wrappers(k) ==
  [sys_write |-> sys_write(k), sys_read |-> sys_read(k), sys_ioctl |-> sys_ioctl(k),
   sys_seek |-> sys_seek(k), sys_ftruncate |-> sys_ftruncate(k),
   sys_read_entries |-> sys_read_entries(k), sys_getcwd |-> sys_getcwd(k),
   sys_chdir |-> sys_chdir(k), sys_access |-> sys_access(k), sys_readlink |-> sys_readlink(k),
   sys_symlink |-> sys_symlink(k), sys_unlinkat |-> sys_unlinkat(k), sys_rmdir |-> sys_rmdir(k),
   sys_mkdir |-> sys_mkdir(k), sys_stat |-> sys_stat(k), sys_isatty |-> sys_isatty(k),
   sys_tcgetattr |-> sys_tcgetattr(k), sys_tcsetattr |-> sys_tcsetattr(k),
   sys_anon_allocate |-> sys_anon_allocate(k), sys_anon_free |-> sys_anon_free(k),
   sys_tcb_set |-> sys_tcb_set(k), sys_getpid |-> sys_getpid(k), sys_getppid |-> sys_getppid(k),
   sys_getpgid |-> sys_getpgid(k), sys_getsid |-> sys_getsid(k), sys_setpgid |-> sys_setpgid(k),
   sys_setsid |-> sys_setsid(k), sys_sigpending |-> sys_sigpending(k), sys_kill |-> sys_kill(k),
   sys_setitimer |-> sys_setitimer(k), sys_bind |-> sys_bind(k), sys_listen |-> sys_listen(k),
   sys_connect |-> sys_connect(k), sys_peername |-> sys_peername(k),
   sys_msg_send |-> sys_msg_send(k), sys_msg_recv |-> sys_msg_recv(k),
   sys_clock_get |-> sys_clock_get(k)]

Stubs(k) ==
  [sys_link |-> sys_link(k), sys_linkat |-> sys_linkat(k), sys_fchmod |-> sys_fchmod(k),
   sys_chmod |-> sys_chmod(k), sys_fsync |-> sys_fsync(k), sys_vm_protect |-> sys_vm_protect(k),
   sys_getuid |-> sys_getuid(k), sys_geteuid |-> sys_geteuid(k), sys_getgid |-> sys_getgid(k),
   sys_setgid |-> sys_setgid(k), sys_getegid |-> sys_getegid(k), sys_ttyname |-> sys_ttyname(k),
   sys_socketpair |-> sys_socketpair(k), sys_fchownat |-> sys_fchownat(k),
   sys_inotify_create |-> sys_inotify_create(k), sys_signalfd_create |-> sys_signalfd_create(k),
   sys_getgroups |-> sys_getgroups(k), sys_mount |-> sys_mount(k), sys_umount2 |-> sys_umount2(k),
   sys_sethostname |-> sys_sethostname(k), sys_getitimer |-> sys_getitimer(k),
   sys_umask |-> sys_umask(k), sys_clock_getres |-> sys_clock_getres(k)]

-----------------------------------------------------------------------------
(* The calls *)

Init == call = Unset /\ res = Unset /\ mbtowc_state = <<>>

Idle == call = Unset

returns(c, r) == call' = c /\ res' = r

\* A call that reads a mount table is under way until it has a result.
Return == res # Unset /\ call' = Unset /\ res' = Unset /\ UNCHANGED mbtowc_state

Wrapper == Idle /\ \E k \in Kernel : \E f \in DOMAIN Wrappers(k) :
  returns([f |-> f, k |-> k], Wrappers(k)[f]) /\ UNCHANGED mbtowc_state

Tgkill == Idle /\ \E k \in Kernel, own \in BOOLEAN :
  returns([f |-> "sys_tgkill", k |-> k, own |-> own], sys_tgkill(own, k)) /\ UNCHANGED mbtowc_state

Stub == Idle /\ \E k \in Kernel : \E f \in DOMAIN Stubs(k) :
  returns([f |-> f], Stubs(k)[f]) /\ UNCHANGED mbtowc_state

Names ==
  /\ Idle
  /\ \/ \E buf \in BOOLEAN : returns([f |-> "sys_uname"], sys_uname(buf))
     \/ \E size \in 0..HostNameLen+1 :
          returns([f |-> "sys_gethostname", size |-> size], sys_gethostname(size))
  /\ UNCHANGED mbtowc_state

SocketOption ==
  /\ Idle
  /\ \E layer \in {"SOL_SOCKET", "AF_NETLINK"},
        opt \in DOMAIN SockOpts \cup {"SO_PASSCRED", "SO_LINGER", "SO_ACCEPTCONN"} :
       \/ returns([f |-> "sys_getsockopt", opt |-> opt], sys_getsockopt(layer, opt))
       \/ returns([f |-> "sys_setsockopt", opt |-> opt], sys_setsockopt(layer, opt))
  /\ UNCHANGED mbtowc_state

INT_MAX == pow2[IntBits - 1] - 1
Nanos   == {0, 1, 999999, 1000000, 1500000, 999999999}

Wait ==
  /\ Idle
  /\ \E k \in Kernel :
       \/ \E t \in {-INT_MAX - 1, -1, 0, 1, 999, 1000, 1001, INT_MAX} :
            returns([f |-> "sys_poll", t |-> t], sys_poll(<<>>, t, k))
       \/ \E s \in 0..MaxSeconds, n \in Nanos :
            returns([f |-> "sys_sleep", s |-> s, n |-> n], sys_sleep(s, n, k))
       \/ returns([f |-> "sys_pause"], sys_pause(k))
  /\ UNCHANGED mbtowc_state

Sets == UNION {[given -> SUBSET (0..Nfds-1)] : given \in SUBSET DOMAIN Event}

Select == Idle /\ \E sets \in Sets, memory \in BOOLEAN :
  /\ \/ \E revents \in [0..Nfds-1 -> UNION {Reports(entries(Nfds, sets)[i]) : i \in 0..Nfds-1}] :
          /\ \A i \in 0..Nfds-1 : /\ revents[i] \in Reports(entries(Nfds, sets)[i])
                                  /\ Cardinality(revents[i]) <= MaxReports
          /\ returns([f |-> "sys_pselect", sets |-> sets, revents |-> revents],
                     sys_pselect(Nfds, sets, NULL, memory, polled(revents), revents))
     \/ returns([f |-> "sys_pselect", sets |-> sets],
                sys_pselect(Nfds, sets, NULL, memory, [errno |-> EINTR, ret |-> 0], <<>>))
  /\ UNCHANGED mbtowc_state

Allocate ==
  /\ Idle
  /\ \E m, n \in 0..SIZE_MAX, room \in BOOLEAN :
       \/ returns([f |-> "calloc", m |-> m, n |-> n], calloc(m, n, room))
       \/ returns([f |-> "aligned_alloc", m |-> m, n |-> n], aligned_alloc(m, n, room))
       \/ returns([f |-> "posix_memalign", m |-> m, n |-> n], posix_memalign(m, n, room))
       \/ returns([f |-> "malloc", m |-> 1, n |-> n], malloc(n, room))
       \/ returns([f |-> "realloc", m |-> 1, n |-> n], realloc(n, room))
  /\ UNCHANGED mbtowc_state

\* The bytes of the characters, strings that end with a whole character, all strings,
\* and strings with the NUL at their end.
Bytes   == {wcrtomb(TRUE, wc, 4).out : wc \in Chars}
Whole   == {FlattenSeq(t) : t \in BoundedSeq(Bytes, MaxChars)}
Strings == {w \o r : w \in Whole, r \in Rests}
Texts   == {Append(s, 0) : s \in Strings}

Encode ==
  /\ Idle
  /\ \E s \in BOOLEAN, wc \in Wides, mb_cur_max \in {1, 4} :
       \/ returns([f |-> "wcrtomb", s |-> s, wc |-> wc, max |-> mb_cur_max],
                  wcrtomb(s, wc, mb_cur_max))
       \/ returns([f |-> "wctomb", s |-> s, wc |-> wc, max |-> mb_cur_max],
                  wctomb(s, wc, mb_cur_max))
  /\ UNCHANGED mbtowc_state

Mbtowc == Idle /\ \E mb \in Texts, max_size \in 0..4 :
  LET r == mbtowc(mbtowc_state, mb, max_size, 4)
  IN /\ returns([f |-> "mbtowc", mb |-> mb, max |-> max_size, st |-> mbtowc_state], r)
     /\ mbtowc_state' = r.st

Mblen == Idle /\ \E mb \in Texts \ {<<0>>}, limit \in 1..4 :
  returns([f |-> "mblen", mb |-> mb, max |-> limit], mblen(mb, limit)) /\ UNCHANGED mbtowc_state

\* Called with NULL, mbtowc sets the state of mblen, not its own.
Reset == Idle /\ returns([f |-> "mbtowc", mb |-> NULL], result(0, Unset)) /\ UNCHANGED mbtowc_state

Mbstowcs == Idle /\ \E wcs \in BOOLEAN, mb \in Strings, wc_limit \in 0..3 :
  /\ returns([f |-> "mbstowcs", wcs |-> wcs, mb |-> mb, max |-> wc_limit],
             mbstowcs(wcs, mb, wc_limit))
  /\ UNCHANGED mbtowc_state

\* Mount tables whose last line may lack its newline.
Lines  == [kind : {"entry", "comment"}, nums : {<<>>, <<1>>, <<2, 3>>}, nl : {TRUE}, long : BOOLEAN]
          \cup {[kind |-> "blank", nums |-> <<>>, nl |-> TRUE, long |-> FALSE]}
Mounts == UNION {[1..n -> Lines] : n \in 0..MaxLines}

Getmntent ==
  /\ Idle
  /\ \E file \in Mounts, end \in BOOLEAN : \E pos \in 0..Len(file) :
       LET f == IF end \/ file = <<>> THEN file ELSE [file EXCEPT ![Len(file)].nl = FALSE]
       IN \E r \in {getmntent(f, pos), getmntent_r(f, pos)} : call' = [f |-> "getmntent", r |-> r]
  /\ res' = Unset /\ UNCHANGED mbtowc_state

GetmntentLine ==
  /\ ~Idle /\ call.f = "getmntent" /\ res = Unset
  /\ LET next == read_line(call.r)
     IN /\ call' = [call EXCEPT !.r = next[1]]
        /\ res' = IF next[2].errno = "again" THEN Unset ELSE next[2]
  /\ UNCHANGED mbtowc_state

Next == \/ Wrapper \/ Tgkill \/ Stub \/ Names \/ SocketOption \/ Wait \/ Select \/ Allocate
        \/ Encode \/ Mbtowc \/ Mblen \/ Mbstowcs \/ Reset \/ Getmntent \/ GetmntentLine \/ Return

Spec == Init /\ [][Next]_funcvars

-----------------------------------------------------------------------------
(* Properties *)

Called(f) == res # Unset /\ call.f = f

\* The functions whose caller reads a number they store.
Outputs ==
  {"sys_write", "sys_read", "sys_ioctl", "sys_seek", "sys_read_entries", "sys_readlink",
   "sys_anon_allocate", "sys_getpid", "sys_getppid", "sys_getpgid", "sys_getsid", "sys_setsid",
   "sys_peername", "sys_msg_send", "sys_msg_recv", "sys_clock_get", "sys_getuid", "sys_geteuid",
   "sys_getgid", "sys_getegid", "sys_ttyname", "sys_socketpair", "sys_inotify_create",
   "sys_signalfd_create", "sys_getgroups", "sys_getitimer", "sys_clock_getres", "sys_umask"}

(***************************************************************************)
(* The C library takes a wrapper's 0 for success and then reads the output *)
(* parameter.  It is told of a failure exactly when the kernel reported    *)
(* one, with the kernel's number (isatty turns all into ENOTTY), except    *)
(* for the three wrappers that ignore errno and for sys_stat, which takes  *)
(* any number but 0 for an error; and what it reads was stored, except     *)
(* after the stub of umask (generic.cpp, stubs.cpp).                       *)
(***************************************************************************)
ReportsTruthfully ==
  /\ \A f \in DOMAIN Wrappers([errno |-> 0, ret |-> 0]) : Called(f) =>
       IF f \in {"sys_getpid", "sys_getppid", "sys_tcb_set"} THEN res.err = 0
       ELSE /\ res.err = 0 <=> call.k.errno = 0 /\ (f = "sys_stat" => call.k.ret = 0)
            /\ call.k.errno # 0 => res.err \in {call.k.errno, ENOTTY}
            /\ res.err = ENOTTY => f = "sys_isatty"
  /\ \A f \in Outputs : Called(f) /\ res.err = 0 => (res.out = Unset <=> f = "sys_umask")

\* The milliseconds of a time limit.
Millis(limit) == limit.sec * 1000 + limit.nsec \div 1000000

(***************************************************************************)
(* poll waits for the number of milliseconds it is given, without limit    *)
(* for a negative one; sleep, which goes through poll's int, waits for the *)
(* whole milliseconds of its time as long as they fit, and otherwise for   *)
(* less than was asked or for ever (sys_poll, sys_sleep, sys_pause).       *)
(***************************************************************************)
TimeoutExact ==
  /\ Called("sys_poll") => IF call.t < 0 THEN res.limit = NULL
                           ELSE Millis(res.limit) = call.t /\ res.limit.nsec < 1000000000
  /\ Called("sys_sleep") =>
       LET ms == call.s * 1000 + call.n \div 1000000
       IN IF ms <= INT_MAX THEN res.limit # NULL /\ Millis(res.limit) = ms
          ELSE res.limit # NULL => Millis(res.limit) < ms
  /\ Called("sys_pause") => res.limit = NULL

(***************************************************************************)
(* pselect leaves the caller's sets alone when it fails.  When it succeeds *)
(* a descriptor stays in a set exactly if it was asked about there and is  *)
(* ready for it; the count is of descriptors, so that one that is ready in *)
(* two ways counts once, and one counts that is in no set only if it is    *)
(* not open, or was asked about for exceptions alone (sys_pselect).        *)
(***************************************************************************)
SelectExact == Called("sys_pselect") =>
  IF res.err # 0 THEN res.sets = call.sets
  ELSE LET left     == UNION {res.sets[s] : s \in DOMAIN res.sets}
           asked    == UNION {call.sets[s] : s \in DOMAIN call.sets}
           reported == {i \in 0..Nfds-1 : call.revents[i] # {}}
           failed   == {"POLLERR", "POLLHUP"}
       IN /\ DOMAIN res.sets = DOMAIN call.sets
          /\ \A s \in DOMAIN res.sets : \A i \in 0..Nfds-1 :
               i \in res.sets[s] <=>
                 /\ i \in call.sets[s]
                 /\ \/ Event[s] \in call.revents[i]
                    \/ s # "except" /\ failed \cap call.revents[i] # {}
          /\ left \subseteq reported /\ reported \subseteq asked
          /\ res.out = Cardinality(reported)
          /\ \A i \in reported \ left :
               \/ call.revents[i] = {"POLLNVAL"}
               \/ \A s \in DOMAIN call.sets : i \in call.sets[s] => s = "except"

(***************************************************************************)
(* A block holds what was asked for, count * size computed without         *)
(* overflow for calloc, and has the alignment; a size that overflows is    *)
(* refused, an alignment is refused only if it is not a power of two, too  *)
(* small or does not divide the size, and only one above a page ends the   *)
(* program (calloc, aligned_alloc, posix_memalign).                        *)
(***************************************************************************)
AllocatesEnough ==
  /\ Called("calloc") =>
       /\ res.err = EINVAL <=> call.m * call.n > SIZE_MAX
       /\ res.out # Unset => res.out.bytes >= call.m * call.n
  /\ Called("posix_memalign") \/ Called("aligned_alloc") =>
       /\ res.out # Unset => /\ res.out.bytes >= call.n
                             /\ call.m # 0 => res.out.aligned % call.m = 0
       /\ res.err = -1 => call.m > Page
       /\ res.err = EINVAL => \/ call.m \notin Powers
                              \/ IF call.f = "aligned_alloc" THEN call.n % call.m # 0
                                 ELSE call.m < PointerSize

\* An answer of wcrtomb to wc.
Written(wc, max, a) ==
  IF max = 1 THEN a.ret = 1 <=> between(wc, 0, \h7f) \/ between(wc, \hdf80, \hdfff)
  ELSE IF between(wc, 0, \h10ffff) /\ ~between(wc, \hd800, \hdfff)
  THEN /\ a.ret = Len(a.out) /\ decode(<<>>, a.out).wc = wc
       /\ \A n \in 1..a.ret-1 : wc >= <<\h80, \h800, \h10000>>[n]
  ELSE a.ret = -1

\* An answer of mbtowc to the text mb, and the state it leaves.
Converted(mb, max, a, st) ==
  /\ a.ret > 0 /\ st = <<>> => wcrtomb(TRUE, a.out, 4).out = prefix(mb, a.ret)
  /\ \A wc \in Chars : LET bytes == wcrtomb(TRUE, wc, 4).out IN
       IsPrefix(bytes, prefix(mb, max)) => a.ret = Len(bytes) /\ a.out = wc /\ st = <<>>

\* The bytes of the first n characters of ws.
encoded(ws, n) == FlattenSeq([i \in 1..n |-> wcrtomb(TRUE, ws[i], 4).out])

\* An answer of mbstowcs to the string mb.
Returned(wcs, mb, limit, a) ==
  IF a = panics THEN mb \notin Whole
  ELSE IF wcs /\ a.ret = limit THEN IsPrefix(encoded(a.out, a.ret), mb) /\ Len(a.out) = limit
  ELSE encoded(a.out, a.ret) = mb /\ (wcs => a.ret < limit /\ Last(a.out) = 0)

(***************************************************************************)
(* wcrtomb encodes exactly the Unicode scalar values, each as the bytes    *)
(* that decode to it and as few as hold it, and in a locale of single      *)
(* bytes only what one byte stands for.  mbtowc, when no incomplete        *)
(* character was left by a call before, gives the character that the text  *)
(* begins with and its length if the size includes all of it, and never    *)
(* gives another one.                                                      *)
(* mbstowcs writes at most the characters there is room for, which encode  *)
(* to a beginning of the string, all of it and a NUL when one is left, and *)
(* ends the program only at a character that is cut short or illegal.      *)
(***************************************************************************)
TextRoundTrip ==
  /\ Called("wcrtomb") /\ call.s => Written(call.wc, call.max, res)
  /\ Called("mbtowc") /\ call.mb # NULL /\ call.st = <<>> =>
       Converted(call.mb, call.max, res, mbtowc_state)
  /\ Called("mbstowcs") => Returned(call.wcs, call.mb, call.max, res)

\* The lines of r before the one at which the call stopped.
Passed(r) == (r.start + 1)..(r.pos - 1)

(***************************************************************************)
(* A call of getmntent returns the next entry of the table and passes over *)
(* nothing but comments and blank lines; it returns NULL only at the end,  *)
(* which an entry without its newline counts as, or at a line that is too  *)
(* long.  A number that the entry does not give is 0, or else the number   *)
(* of the last comment passed over that has one (getmntent_r sets them to  *)
(* 0 once, before its loop).                                               *)
(***************************************************************************)
NextEntryRead == Called("getmntent") =>
  LET r     == call.r
      stale == [c \in 1..2 |-> {n \in Passed(r) : Len(r.file[n].nums) >= c}]
  IN /\ \A n \in Passed(r) : r.file[n].kind # "entry"
     /\ IF res.entry # 0
        THEN /\ res.entry = r.pos /\ r.file[r.pos].kind = "entry"
             /\ \A c \in 1..2 :
                  \/ c <= Len(r.file[r.pos].nums) /\ r.mnt[c] = r.file[r.pos].nums[c]
                  \/ /\ c > Len(r.file[r.pos].nums)
                     /\ \/ stale[c] = {} /\ r.mnt[c] = 0
                        \/ \E n \in stale[c] : /\ r.mnt[c] = r.file[n].nums[c]
                                               /\ \A k \in stale[c] : k <= n
        ELSE \/ r.pos = Len(r.file)
                /\ (r.pos > r.start => r.file[r.pos].kind # "entry" \/ ~r.file[r.pos].nl)
             \/ r.file[r.pos].long /\ ~r.internal
=============================================================================
