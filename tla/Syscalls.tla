------------------------------ MODULE Syscalls ------------------------------
(***************************************************************************)
(* The system call wrappers that keep no state of their own (generic.cpp)  *)
(* and the stubs (stubs.cpp) of mlibc-salernos/sysdeps/generic: what their *)
(* caller is told, given the kernel's answer k, the number ret and errno   *)
(* in two registers.  A result is the error that is returned, 0 for        *)
(* success, and what the caller's output parameter holds then.             *)
(***************************************************************************)
EXTENDS Integers, TLC

CONSTANT Unset   \* the value of an output parameter that was not assigned, and NULL

ASSUME UnsetAssumption == Unset \notin Int

ENOSYS == 38
ENOTTY == 25
EINTR  == 4
EFAULT == 14
ENOMEM == 12
EINVAL == 22
EILSEQ == 84

\* The powers of two, as a function that proofs can unfold.
pow2[n \in Nat] == IF n = 0 THEN 1 ELSE 2 * pow2[n - 1]

result(err, out) == [err |-> err, out |-> out]

\* The error alone is handed on; or, on success, also what the kernel returned.
plain(k)  == result(k.errno, Unset)
stores(k) == IF k.errno # 0 THEN plain(k) ELSE result(0, k.ret)

\* Files
sys_write(k)        == stores(k)
sys_read(k)         == stores(k)
sys_ioctl(k)        == stores(k)
sys_seek(k)         == stores(k)
sys_ftruncate(k)    == plain(k)
sys_read_entries(k) == stores(k)
sys_getcwd(k)       == plain(k)
sys_chdir(k)        == plain(k)
sys_faccessat(k)    == plain(k)
sys_access(k)       == sys_faccessat(k)
sys_readlinkat(k)   == stores(k)
sys_readlink(k)     == sys_readlinkat(k)
sys_symlinkat(k)    == plain(k)
sys_symlink(k)      == sys_symlinkat(k)
sys_unlinkat(k)     == plain(k)
sys_rmdir(k)        == sys_unlinkat(k)
sys_mkdirat(k)      == plain(k)
sys_mkdir(k)        == sys_mkdirat(k)

\* Mutation: the number is returned without a look at errno.
stat_ret(k) == result(k.ret, Unset)

\* The kernel's number is returned, not 0, when there is no error.
sys_stat(k) == result(IF k.errno # 0 THEN k.errno ELSE k.ret, Unset)

\* Terminals
sys_isatty(k)    == result(IF sys_ioctl(k).err = 0 THEN 0 ELSE ENOTTY, Unset)
sys_tcgetattr(k) == result(sys_ioctl(k).err, Unset)
sys_tcsetattr(k) == result(sys_ioctl(k).err, Unset)

\* Memory
sys_vm_map(k)        == stores(k)
sys_anon_allocate(k) == sys_vm_map(k)
sys_vm_unmap(k)      == plain(k)
sys_anon_free(k)     == sys_vm_unmap(k)
sys_tcb_set(k)       == result(0, Unset)

\* Processes and signals
sys_getpid(k)     == result(0, k.ret)
sys_getppid(k)    == result(0, k.ret)
sys_getpgid(k)    == stores(k)
sys_getsid(k)     == stores(k)
sys_setpgid(k)    == plain(k)
sys_setsid(k)     == stores(k)
sys_sigpending(k) == plain(k)
sys_kill(k)       == plain(k)
sys_setitimer(k)  == plain(k)

sys_tgkill(own, k) == IF own THEN plain(k) ELSE result(ENOSYS, Unset)

\* Sockets
sys_bind(k)     == plain(k)
sys_listen(k)   == plain(k)
sys_connect(k)  == plain(k)
sys_peername(k) == stores(k)
sys_msg_send(k) == stores(k)
sys_msg_recv(k) == stores(k)

\* The two numbers of the kernel's timespec.
sys_clock_get(k) == stores(k)

-----------------------------------------------------------------------------
(* Stubs *)

STUB_OK     == result(0, Unset)
STUB_ENOSYS == result(ENOSYS, Unset)

sys_link(k)            == STUB_OK
sys_linkat(k)          == STUB_OK
sys_fchmodat(k)        == STUB_OK
sys_fchmod(k)          == STUB_OK
sys_chmod(k)           == sys_fchmodat(k)
sys_fsync(k)           == STUB_OK
sys_vm_protect(k)      == STUB_OK
sys_getuid(k)          == result(0, 0)
sys_geteuid(k)         == result(0, 0)
sys_getgid(k)          == result(0, 0)
sys_setgid(k)          == STUB_OK
sys_getegid(k)         == result(0, 0)
sys_ttyname(k)         == STUB_ENOSYS
sys_socketpair(k)      == STUB_ENOSYS
sys_fchownat(k)        == STUB_OK
sys_inotify_create(k)  == STUB_ENOSYS
sys_signalfd_create(k) == STUB_ENOSYS
sys_getgroups(k)       == STUB_ENOSYS
sys_mount(k)           == STUB_ENOSYS
sys_umount2(k)         == STUB_ENOSYS
sys_sethostname(k)     == STUB_ENOSYS
sys_getitimer(k)       == STUB_ENOSYS
sys_umask(k)           == STUB_OK          \* the old mask is not stored
sys_clock_getres(k)    == result(0, 1)

\* Without a buffer EFAULT; the field machine is not filled in.
sys_uname(buf) == result(IF buf THEN 0 ELSE EFAULT, {"sysname", "nodename", "release", "version"})

\* strncpy: the buffer holds a terminated name only if it has room for the NUL.
HostNameLen == 8
sys_gethostname(bufsize) == result(0, [terminated |-> bufsize > HostNameLen])

\* An option that is not in the list, or is of another layer, ends the process.
SockOpts == [SO_PEERCRED |-> 0, SO_SNDBUF |-> 4096, SO_TYPE |-> 1, SO_ERROR |-> 0,
             SO_KEEPALIVE |-> 0]
panics == result(-1, Unset)
sys_getsockopt(layer, opt) ==
  IF layer = "SOL_SOCKET" /\ opt \in DOMAIN SockOpts THEN result(0, SockOpts[opt]) ELSE panics
sys_setsockopt(layer, opt) ==
  IF \/ layer = "SOL_SOCKET"
        /\ opt \in {"SO_PASSCRED", "SO_ATTACH_FILTER", "SO_RCVBUFFORCE", "SO_SNDBUF",
                    "SO_KEEPALIVE", "SO_REUSEADDR"}
     \/ layer = "AF_NETLINK" /\ opt = "SO_ACCEPTCONN"
    THEN STUB_OK ELSE panics

=============================================================================
